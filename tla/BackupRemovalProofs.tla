------------------------- MODULE BackupRemovalProofs -------------------------
(***************************************************************************)
(* Theorems about BackupRemoval, for any backups, deletions and prunes,    *)
(* all of them at once.                                                    *)
(***************************************************************************)
EXTENDS BackupRemoval, FiniteSetTheorems, SequenceTheorems, WellFoundedInduction, TLAPS

----------------------------------------------------------------------------
(* The inductive invariants of deletion and evidence retention.            *)

DeletionPCs == {"request", "remote", "attempt", "upload", "invoke", "wait", "local", "items",
                "manifest", "directory", "observe_local", "observe_remote", "save", "cleanup"}
               \union DeletionEnds
HelperPCs == {"started", "check", "items", "items_dir", "receipt", "directory", "removed"} \union HelperEnds
Views == {"present", "absent", "unknown"}

\* The types the proofs need.
CopiesTyped == /\ local \in [Backups -> LocalStates] /\ remote \in [Backups -> RemoteStates]
Typed == /\ CopiesTyped
         /\ dpc \in [Deletions -> DeletionPCs]
         /\ outcome \in [Deletions -> [remote : CopyOutcomes, local : CopyOutcomes]]
         /\ seen \in [Deletions -> [local : Views, remote : Views]]
         /\ answer \in [Backups -> Answers \union {"none"}]
         /\ helper \in [Backups -> HelperPCs]
         /\ DOMAIN results = Deletions /\ DOMAIN sent = Backups

LocalGone(b) == local[b] = "gone"
RemoteGone(b) == remote[b] \in {"husk", "gone"}
Removed == {"deleted", "already_absent"}

\* What was answered, and what the helper is about to answer, is so.
AnswersInv == \A b \in Backups : answer[b] \in Removed \/ helper[b] = "removed" => RemoteGone(b)

\* Until the remote copy is dealt with nothing else has begun, and the
\* original is touched only when the copy is gone.
BeforeRemote == {"request", "remote", "attempt", "upload", "invoke", "wait"}
AtLocal == {"local", "items", "manifest", "directory"}
Ordered(d) ==
    /\ dpc[d] \in BeforeRemote => outcome[d] = Untouched
    /\ dpc[d] \in AtLocal => outcome[d].remote \in Removed
    /\ dpc[d] \in BeforeRemote \union AtLocal \union {"observe_local"} => seen[d] = Unseen
    /\ results[d] # NoResult => dpc[d] \notin {"request", "refused"}

\* What a deletion has noted of the two copies is so.
Noted(d) ==
    /\ outcome[d].remote \in Removed => RemoteGone(BackupOf[d])
    /\ outcome[d].local \in Removed => LocalGone(BackupOf[d])
    /\ seen[d].remote = "absent" => RemoteGone(BackupOf[d])
    /\ seen[d].local = "absent" => LocalGone(BackupOf[d])
    /\ seen[d].local = "present" => outcome[d].local \notin Removed

\* What a saved result says is so.
Reported(d) == results[d] # NoResult =>
    /\ results[d].remote \in Removed => RemoteGone(BackupOf[d])
    /\ results[d].local \in Removed => LocalGone(BackupOf[d])
    /\ results[d].state = "both_deleted" => LocalGone(BackupOf[d]) /\ RemoteGone(BackupOf[d])
    /\ ~results[d].attention => results[d].state = "both_deleted"

DeletionInv == Typed /\ AnswersInv /\ \A d \in Deletions : Ordered(d) /\ Noted(d) /\ Reported(d)

\* What a prune has listed and reported.
ReportIsTrue(r) == report[r] # NoReport =>
    /\ report[r].removed \subseteq Backups
    /\ \A b \in report[r].removed : IF r \in LocalPrunes THEN local[b] \in {"husk", "gone"}
                                    ELSE remote[b] = "gone"
ReportsInv == /\ CopiesTyped /\ before \in [Runs -> SUBSET Backups] /\ DOMAIN report = Runs
              /\ \A r \in Runs : ReportIsTrue(r)

\* The links an execution has left, in the order of the chain.
Chains == {<<"reconciliation", "manifest", "deletion">>, <<"manifest", "deletion">>, <<"deletion">>, <<>>}
PastManifest == {<<"deletion">>, <<>>}
LinkNames == {"reconciliation", "manifest", "deletion"}
Tasks == [kind : {"execute", "cleanup"}, left : Chains, gone : Seq(LinkNames)]
Executions == [kind : {"execute", "cleanup"}, state : {"completed", "partial", "failed"},
               gone : Seq(LinkNames), left : Chains]
EvidenceTyped == /\ task \in [Deletions -> Tasks \union {NoTask}]
                 /\ executions \in [Deletions -> Seq(Executions)]

\* Evidence is removed of deletions that are settled, the manifest before the
\* result.
Settled(d) == LocalGone(BackupOf[d]) /\ RemoteGone(BackupOf[d])
Begun(d) == dpc[d] \notin {"request", "refused"}
Evidenced(d) ==
    /\ d \notin evidence /\ Begun(d) => Settled(d)
    /\ task[d] # NoTask => /\ Settled(d) /\ Begun(d)
                           /\ task[d].left \in PastManifest => d \notin evidence
    /\ \A i \in DOMAIN executions[d] : /\ Settled(d) /\ Begun(d)
                                       /\ executions[d][i].left \in PastManifest => d \notin evidence
    /\ d \in evidence /\ dpc[d] \in {"cleanup", "done"} => results[d] # NoResult
EvidenceInv == EvidenceTyped /\ \A d \in Deletions : Evidenced(d)

\* The attempt on the disk is the right to invoke.
Asking(d) == dpc[d] \in {"upload", "invoke"}
RequestsInv ==
    /\ DOMAIN sent = Backups /\ DOMAIN dpc = Deletions
    /\ \A b \in Backups : sent[b] \in {0, 1} /\ (sent[b] = 1 => b \in attempts)
    /\ \A d \in Deletions : Asking(d) =>
          /\ BackupOf[d] \in attempts /\ sent[BackupOf[d]] = 0
          /\ \A e \in Deletions \ {d} : BackupOf[e] = BackupOf[d] => ~Asking(e)
CallsInv ==
    /\ DOMAIN calls = RemotePrunes /\ DOMAIN client = RemotePrunes
    /\ \A q \in RemotePrunes :
          /\ calls[q] \in {0, 1} /\ (calls[q] = 1 => q \in tries)
          /\ client[q] = "save" => q \notin tries
          /\ client[q] = "invoke" => q \in tries /\ calls[q] = 0

----------------------------------------------------------------------------
(* The inductive invariant of prunes.                                      *)

\* Backups that no prune ever takes for outdated, whatever was removed before.
Lasting == Backups \ Outdated(Backups, ProtectedFirst)

\* The one that a store keeps when every backup is outdated: the newest of
\* the originals, the oldest of the copies.
LocalLast(b) == Newer(Backups, b) = {}
RemoteLast(b) == Older(Backups, b) = {}

OnlyPrunes == \A d \in Deletions : dpc[d] \in {"request", "refused"}
HelpersIdle == OnlyPrunes => \A b \in Backups : helper[b] = "none"
RunsTyped == DOMAIN run = Runs /\ queue \in [Runs -> SUBSET Backups]

\* What lasts is whole and not queued.  When nothing lasts, a store loses its
\* backups from the oldest on, and a run that has decided has queued all that
\* is left but the one to keep.
LocalKept ==
    /\ \A b \in Lasting : local[b] = "whole"
    /\ Lasting = {} =>
          /\ \A b \in Backups : LocalLast(b) => local[b] = "whole"
          /\ \A b, c \in Backups : ~LocalListed(b) /\ CreatedAt[c] < CreatedAt[b] => ~LocalListed(c)
LocalDecided(r) == run[r] \in DOMAIN LocalRemoval =>
    /\ queue[r] \intersect Lasting = {}
    /\ Lasting = {} => /\ \A b \in queue[r] : ~LocalLast(b)
                       /\ \A b \in Backups \ queue[r] : LocalListed(b) => LocalLast(b)
LocalKeeps == protected = ProtectedFirst /\ LocalKept /\ \A r \in LocalPrunes : LocalDecided(r)

RemoteKept ==
    /\ \A b \in Lasting : remote[b] = "whole"
    /\ Lasting = {} =>
          /\ \A b \in Backups : RemoteLast(b) => remote[b] = "whole"
          /\ \A b, c \in Backups : RemoteGone(b) /\ CreatedAt[c] < CreatedAt[b] /\ ~RemoteLast(c) => RemoteGone(c)
RemoteDecided(r) == run[r] \in DOMAIN RemoteRemoval =>
    /\ queue[r] \intersect Lasting = {}
    /\ Lasting = {} => /\ \A b \in queue[r] : ~RemoteLast(b)
                       /\ \A b \in Backups \ queue[r] : ~RemoteGone(b) => RemoteLast(b)
RemoteKeeps == held = ProtectedFirst /\ RemoteKept /\ \A r \in Runs \ LocalPrunes : RemoteDecided(r)

PruneInv == /\ CopiesTyped /\ RunsTyped /\ HelpersIdle
            /\ OnlyPrunes /\ "local" \notin changed => LocalKeeps
            /\ OnlyPrunes /\ "remote" \notin changed => RemoteKeeps

----------------------------------------------------------------------------
(* A removal only goes on.                                                 *)

Goes(b) == /\ LocalGone(b) => LocalGone(b)'
           /\ ~LocalListed(b) => ~LocalListed(b)'
           /\ RemoteGone(b) => RemoteGone(b)'
           /\ remote[b] = "gone" => remote'[b] = "gone"
Goings == CopiesTyped' /\ \A b \in Backups : Goes(b)

LEMMA CopiesStay == CopiesTyped /\ UNCHANGED copies => Goings
BY DEF CopiesTyped, copies, Goings, Goes, LocalGone, LocalListed, RemoteGone

\* One phase of the removal of an original.
LEMMA LocalPhaseGoes ==
    ASSUME CopiesTyped, NEW b \in Backups, NEW phase \in DOMAIN LocalRemoval,
           LocalPhase(b, phase), UNCHANGED remote
    PROVE  /\ Goings
           /\ \A c \in Backups \ {b} : local'[c] = local[c]
           /\ LocalRemoval[phase].next = "removed" => local'[b] = "gone"
<1> USE DEF CopiesTyped, LocalStates
<1>1. DOMAIN LocalRemoval = {"items", "manifest", "directory"}
  BY DEF LocalRemoval
<1>2. CASE phase = "items"
  BY <1>2 DEF LocalPhase, LocalRemoval, Goings, Goes, LocalGone, LocalListed, RemoteGone
<1>3. CASE phase = "manifest"
  BY <1>3 DEF LocalPhase, LocalRemoval, Goings, Goes, LocalGone, LocalListed, RemoteGone
<1>4. CASE phase = "directory"
  BY <1>4 DEF LocalPhase, LocalRemoval, Goings, Goes, LocalGone, LocalListed, RemoteGone
<1> QED BY <1>1, <1>2, <1>3, <1>4

\* One phase of the removal of a copy.
LEMMA RemotePhaseGoes ==
    ASSUME CopiesTyped, NEW b \in Backups, NEW phase \in DOMAIN RemoteRemoval,
           RemotePhase(b, phase), UNCHANGED local
    PROVE  /\ Goings
           /\ \A c \in Backups \ {b} : remote'[c] = remote[c]
           /\ RemoteRemoval[phase].next = "removed" => remote'[b] = "gone"
<1> USE DEF CopiesTyped, RemoteStates, LocalStates
<1>1. DOMAIN RemoteRemoval = {"items", "items_dir", "receipt", "directory"}
  BY DEF RemoteRemoval
<1>2. CASE phase = "items"
  BY <1>2 DEF RemotePhase, RemoteRemoval, Goings, Goes, LocalGone, LocalListed, RemoteGone
<1>3. CASE phase = "items_dir"
  BY <1>3 DEF RemotePhase, RemoteRemoval, Goings, Goes, LocalGone, LocalListed, RemoteGone
<1>4. CASE phase = "receipt"
  BY <1>4 DEF RemotePhase, RemoteRemoval, Goings, Goes, LocalGone, LocalListed, RemoteGone
<1>5. CASE phase = "directory"
  BY <1>5 DEF RemotePhase, RemoteRemoval, Goings, Goes, LocalGone, LocalListed, RemoteGone
<1> QED BY <1>1, <1>2, <1>3, <1>4, <1>5

\* The removal that a prune does, of whatever backup its queue names.
LEMMA RunRemoveGoes == ASSUME CopiesTyped, NEW r \in Runs, RunRemove(r) PROVE Goings
<1> DEFINE b == Oldest(queue[r])
<1>1. CASE UNCHANGED copies
  BY <1>1, CopiesStay
<1>2. CASE b \in Backups /\ r \in LocalPrunes /\ LocalPhase(b, run[r]) /\ UNCHANGED remote
  <2>1. run[r] \in DOMAIN LocalRemoval
    BY <1>2 DEF RunRemove, RemovalOf
  <2> QED BY <1>2, <2>1, LocalPhaseGoes
<1>3. CASE b \in Backups /\ r \notin LocalPrunes /\ RemotePhase(b, run[r]) /\ UNCHANGED local
  <2>1. run[r] \in DOMAIN RemoteRemoval
    BY <1>3 DEF RunRemove, RemovalOf
  <2> QED BY <1>3, <2>1, RemotePhaseGoes
<1>4. CASE b \notin Backups
  <2>1. /\ LocalPhase(b, run[r]) => UNCHANGED local
        /\ RemotePhase(b, run[r]) => UNCHANGED remote
    BY <1>4 DEF CopiesTyped, LocalPhase, RemotePhase
  <2>2. UNCHANGED copies
    BY <2>1 DEF RunRemove, copies
  <2> QED BY <2>2, CopiesStay
<1> QED BY <1>1, <1>2, <1>3, <1>4 DEF RunRemove, copies

\* The steps that take a backup apart; every other one leaves both stores.
Removes == \/ \E d \in Deletions : RemoveLocal(d)
           \/ \E b \in Backups : HelperRemove(b)
           \/ \E r \in Runs : RunRemove(r)
LEMMA OnlyRemovals == [Next]_vars => Removes \/ UNCHANGED copies
<1> USE DEF copyVars, copies
<1>1. ASSUME NEW d \in Deletions, DeletionWorks(d) PROVE Removes \/ UNCHANGED copies
  BY <1>1 DEF DeletionWorks, DeletionActs, DeletionStep, Request, SaveEvidence, FindAttempt, FindAttemptFails,
       SaveAttempt, Upload, Invoke, Return, Lost, DeleteLocal, Removes, ObserveLocal, ObserveRemote,
       SaveResult, Cleanup, Cancel, Crash, RetryCleanup
<1>2. ASSUME NEW b \in Backups, HelperStep(b) \/ HelperDies(b) PROVE Removes \/ UNCHANGED copies
  BY <1>2 DEF HelperStep, HelperDies, HelperStart, HelperCheck, Removes, HelperAnswer
<1>3. EvidenceNext => UNCHANGED copies
  BY DEF EvidenceNext, ReconcileAgain, Execute, Resume, EvidenceStep, RemoveLink, StopHalfWay, Complete, Vanish
<1>4. PruneNext => Removes \/ UNCHANGED copies
  BY DEF PruneNext, RunStep, RunDies, RunList, RunDecide, Removes, RunReport, ClientStep, ClientDies, Again,
         FindTry, SaveTry, InvokePrune, ReadReport, Tidy
<1>5. (\E b \in Backups : SetProtected(b) \/ SetHeld(b)) => UNCHANGED copies
  BY DEF SetProtected, SetHeld
<1> QED BY <1>1, <1>2, <1>3, <1>4, <1>5 DEF Next, DeletionNext, vars

LEMMA RemoveLocalGoes == ASSUME CopiesTyped, NEW d \in Deletions, RemoveLocal(d) PROVE Goings
<1>1. BackupOf[d] \in Backups
  BY DeletionsAssumption
<1>2. \/ LocalPhase(BackupOf[d], dpc[d])
      \/ UNCHANGED local
  BY DEF RemoveLocal
<1>3. UNCHANGED remote /\ dpc[d] \in DOMAIN LocalRemoval
  BY DEF RemoveLocal
<1> QED BY <1>1, <1>2, <1>3, LocalPhaseGoes, CopiesStay DEF copies

LEMMA HelperRemoveGoes == ASSUME CopiesTyped, NEW b \in Backups, HelperRemove(b) PROVE Goings
<1>1. \/ RemotePhase(b, helper[b])
      \/ UNCHANGED remote
  BY DEF HelperRemove
<1>2. UNCHANGED local /\ helper[b] \in DOMAIN RemoteRemoval
  BY DEF HelperRemove
<1> QED BY <1>1, <1>2, RemotePhaseGoes, CopiesStay DEF copies

LEMMA StepGoes == CopiesTyped /\ [Next]_vars => Goings
BY OnlyRemovals, CopiesStay, RemoveLocalGoes, HelperRemoveGoes, RunRemoveGoes DEF Removes

----------------------------------------------------------------------------
(* The two copies of a deletion.                                           *)

\* What a deletion keeps while the stores only lose.
DeletionVars(d) == <<dpc[d], outcome[d], seen[d], results[d]>>
OkFor(d) == Ordered(d) /\ Noted(d) /\ Reported(d)

LEMMA OthersStay ==
    ASSUME NEW d \in Deletions, OkFor(d), Goings, UNCHANGED DeletionVars(d)
    PROVE  OkFor(d)'
<1>1. BackupOf[d] \in Backups
  BY DeletionsAssumption
<1>2. /\ dpc'[d] = dpc[d] /\ outcome'[d] = outcome[d]
      /\ seen'[d] = seen[d] /\ results'[d] = results[d]
  BY DEF DeletionVars
<1>3. Goes(BackupOf[d])
  BY <1>1 DEF Goings
<1>4. Ordered(d)'
  BY <1>2 DEF OkFor, Ordered
<1>5. Noted(d)'
  BY <1>2, <1>3 DEF OkFor, Noted, Goes
<1>6. Reported(d)'
  BY <1>2, <1>3 DEF OkFor, Reported, Goes
<1> QED BY <1>4, <1>5, <1>6 DEF OkFor

\* A removal of the evidence leaves the rest of the deletion as it is.
LEMMA ResultGoes ==
    ASSUME NEW d \in Deletions, OkFor(d), UNCHANGED copies,
           dpc'[d] = dpc[d], outcome'[d] = outcome[d], seen'[d] = seen[d],
           results'[d] = results[d] \/ results'[d] = NoResult
    PROVE  OkFor(d)'
<1>1. Ordered(d)' /\ Noted(d)'
  BY DEF OkFor, Ordered, Noted, copies, LocalGone, RemoteGone
<1>2. Reported(d)'
  BY DEF OkFor, Reported, copies, LocalGone, RemoteGone
<1> QED BY <1>1, <1>2 DEF OkFor

LEMMA AnswersStay == AnswersInv /\ Goings /\ UNCHANGED <<answer, helper>> => AnswersInv'
BY DEF AnswersInv, Goings, Goes

\* Steps that are not the deletion's own.
LEMMA DeletionQuiet ==
    DeletionInv /\ Goings /\ UNCHANGED <<dpc, outcome, seen, results, answer, helper, sent>> => DeletionInv'
<1> SUFFICES ASSUME DeletionInv, Goings, UNCHANGED <<dpc, outcome, seen, results, answer, helper, sent>>
             PROVE  DeletionInv'
  OBVIOUS
<1>1. Typed'
  BY DEF DeletionInv, Typed, Goings
<1>2. AnswersInv'
  BY AnswersStay DEF DeletionInv
<1>3. ASSUME NEW d \in Deletions PROVE OkFor(d)'
  BY OthersStay DEF DeletionInv, DeletionVars, OkFor
<1> QED BY <1>1, <1>2, <1>3 DEF DeletionInv, OkFor

\* The own steps of one deletion, the others of the same backup looking on.
Others(d) == \A e \in Deletions \ {d} : UNCHANGED DeletionVars(e)
LEMMA DeletionOwn ==
    ASSUME DeletionInv, NEW d \in Deletions, Goings, Typed', AnswersInv', Others(d), OkFor(d)'
    PROVE  DeletionInv'
<1>1. ASSUME NEW e \in Deletions, e # d PROVE OkFor(e)'
  BY <1>1, OthersStay DEF DeletionInv, Others, OkFor
<1> QED BY <1>1 DEF DeletionInv, OkFor

\* The removal of the remote copy has come to an outcome.
LEMMA EndRemoteKeeps ==
    ASSUME DeletionInv, NEW d \in Deletions, NEW how \in CopyOutcomes, EndRemote(d, how),
           dpc[d] \in BeforeRemote \ {"request"}, how \in Removed => RemoteGone(BackupOf[d]),
           UNCHANGED <<seen, results, answer, helper, sent, copies>>
    PROVE  DeletionInv'
<1>1. Goings
  BY CopiesStay DEF DeletionInv, Typed
<1>2. /\ outcome' \in [Deletions -> [remote : CopyOutcomes, local : CopyOutcomes]]
      /\ outcome'[d].remote = how /\ outcome'[d].local = outcome[d].local
      /\ \A e \in Deletions \ {d} : outcome'[e] = outcome[e]
  BY DEF DeletionInv, Typed, EndRemote
<1>3. /\ dpc' \in [Deletions -> DeletionPCs]
      /\ dpc'[d] = IF how \in Removed THEN "local" ELSE "observe_local"
      /\ \A e \in Deletions \ {d} : dpc'[e] = dpc[e]
  BY DEF DeletionInv, Typed, EndRemote, Go, Removed, DeletionPCs
<1>4. Ordered(d) /\ Noted(d) /\ Reported(d)
  BY DEF DeletionInv
<1>5. Typed'
  BY <1>1, <1>2, <1>3 DEF DeletionInv, Typed, Goings
<1>6. AnswersInv'
  BY <1>1, AnswersStay DEF DeletionInv
<1>7. Others(d)
  BY <1>2, <1>3 DEF Others, DeletionVars
<1>8. Ordered(d)'
  BY <1>3, <1>2, <1>4 DEF Ordered, BeforeRemote, AtLocal
<1>9. Noted(d)'
  BY <1>2, <1>4 DEF Noted, copies, RemoteGone, LocalGone
<1>10. Reported(d)'
  BY <1>4 DEF Reported, copies, RemoteGone, LocalGone
<1> QED BY <1>1, <1>5, <1>6, <1>7, <1>8, <1>9, <1>10, DeletionOwn DEF OkFor

\* The same for the original.
LEMMA EndLocalKeeps ==
    ASSUME DeletionInv, NEW d \in Deletions, NEW how \in CopyOutcomes, EndLocal(d, how),
           dpc[d] \in AtLocal, Goings, how \in Removed => LocalGone(BackupOf[d])',
           UNCHANGED <<seen, results, answer, helper, sent>>
    PROVE  DeletionInv'
<1>2. /\ outcome' \in [Deletions -> [remote : CopyOutcomes, local : CopyOutcomes]]
      /\ outcome'[d].local = how /\ outcome'[d].remote = outcome[d].remote
      /\ \A e \in Deletions \ {d} : outcome'[e] = outcome[e]
  BY DEF DeletionInv, Typed, EndLocal
<1>3. /\ dpc' \in [Deletions -> DeletionPCs]
      /\ dpc'[d] = "observe_local"
      /\ \A e \in Deletions \ {d} : dpc'[e] = dpc[e]
  BY DEF DeletionInv, Typed, EndLocal, Go, DeletionPCs
<1>4. Ordered(d) /\ Noted(d) /\ Reported(d) /\ Goes(BackupOf[d])
  BY DeletionsAssumption DEF DeletionInv, Goings
<1>5. Typed'
  BY <1>2, <1>3 DEF DeletionInv, Typed, Goings
<1>6. AnswersInv'
  BY AnswersStay DEF DeletionInv
<1>7. Others(d)
  BY <1>2, <1>3 DEF Others, DeletionVars
<1>8. Ordered(d)'
  BY <1>3, <1>2, <1>4 DEF Ordered, BeforeRemote, AtLocal
<1>9. Noted(d)'
  BY <1>2, <1>4 DEF Noted, Goes, Ordered, AtLocal, Unseen
<1>10. Reported(d)'
  BY <1>4 DEF Reported, Goes
<1> QED BY <1>5, <1>6, <1>7, <1>8, <1>9, <1>10, DeletionOwn DEF OkFor

\* A step from one call to the next, with nothing noted.
MayFollow(pc, next) ==
    /\ next \in DeletionPCs
    /\ next \in BeforeRemote => pc \in BeforeRemote
    /\ next \in AtLocal => pc \in AtLocal
    /\ next \in BeforeRemote \union AtLocal \union {"observe_local"}
          => pc \in BeforeRemote \union AtLocal \union {"observe_local"}
    /\ next \in {"request", "refused"} => pc \in {"request", "refused"}
LEMMA GoKeeps ==
    ASSUME DeletionInv, NEW d \in Deletions, NEW next, Go(d, next), MayFollow(dpc[d], next), Goings,
           UNCHANGED <<outcome, seen, results>>, Typed', AnswersInv'
    PROVE  DeletionInv'
<1>1. dpc'[d] = next /\ \A e \in Deletions \ {d} : dpc'[e] = dpc[e]
  BY DEF DeletionInv, Typed, Go
<1>2. Ordered(d) /\ Noted(d) /\ Reported(d) /\ Goes(BackupOf[d])
  BY DeletionsAssumption DEF DeletionInv, Goings
<1>3. Others(d)
  BY <1>1 DEF Others, DeletionVars
<1>4. Ordered(d)'
  BY <1>1, <1>2 DEF Ordered, MayFollow
<1>5. Noted(d)' /\ Reported(d)'
  BY <1>2 DEF Noted, Reported, Goes
<1> QED BY <1>3, <1>4, <1>5, DeletionOwn DEF OkFor

LEMMA GoQuiet ==
    ASSUME DeletionInv, NEW d \in Deletions, NEW next, Go(d, next), MayFollow(dpc[d], next), Goings,
           UNCHANGED <<outcome, seen, results, answer, helper, sent>>
    PROVE  DeletionInv'
<1>1. Typed'
  BY DEF DeletionInv, Typed, Goings, Go, MayFollow
<1>2. AnswersInv'
  BY AnswersStay DEF DeletionInv
<1> QED BY <1>1, <1>2, GoKeeps

\* The steps of a deletion, one by one.
LEMMA DeletionCalls == ASSUME DeletionInv, NEW d \in Deletions, DeletionWorks(d) PROVE DeletionInv'
<1> DEFINE b == BackupOf[d]
<1> USE DEF copyVars, deletionVars, deletionRecords, attemptVars, helperVars
<1>1. b \in Backups /\ CopiesTyped
  BY DeletionsAssumption DEF DeletionInv, Typed
<1>2. Ordered(d) /\ Noted(d) /\ Reported(d)
  BY DEF DeletionInv
<1>3. UNCHANGED copies => Goings
  BY <1>1, CopiesStay
<1>4. answer[b] \in Answers \union {"none"} /\ (answer[b] \in Removed => RemoteGone(b))
  BY <1>1 DEF DeletionInv, Typed, AnswersInv
<1>5. ASSUME AcceptAnswer(d, answer[b]), dpc[d] \in {"remote", "wait"},
             UNCHANGED <<seen, results, answer, helper, sent, copies>>
      PROVE  DeletionInv'
  <2>1. PICK how \in CopyOutcomes : EndRemote(d, how) /\ (how \in Removed => RemoteGone(b))
    BY <1>4, <1>5 DEF AcceptAnswer, CopyOutcomes, Removed
  <2> QED BY <1>5, <2>1, EndRemoteKeeps DEF BeforeRemote
<1>6. ASSUME NEW how \in {"failed", "unknown"}, EndRemote(d, how),
             dpc[d] \in {"remote", "attempt", "upload", "invoke", "wait"},
             UNCHANGED <<seen, results, answer, helper, sent, copies>>
      PROVE  DeletionInv'
  BY <1>6, EndRemoteKeeps DEF BeforeRemote, CopyOutcomes, Removed
<1>7. ASSUME NEW how \in {"failed", "unknown", "not_attempted"}, EndLocal(d, how), dpc[d] \in AtLocal,
             UNCHANGED <<seen, results, answer, helper, sent, copies>>
      PROVE  DeletionInv'
  BY <1>3, <1>7, EndLocalKeeps DEF CopyOutcomes, Removed
<1> USE DEF MayFollow, DeletionPCs, DeletionEnds, BeforeRemote, AtLocal
<1>10. CASE Request(d)
  <2>1. Go(d, "refused") /\ dpc[d] = "request"
    BY <1>10 DEF Request
  <2>2. UNCHANGED <<outcome, seen, results, answer, helper, sent, copies>>
    BY <1>10 DEF Request
  <2> QED BY <2>1, <2>2, <1>3, GoQuiet
<1>11. CASE SaveEvidence(d)
  <2>1. Go(d, "remote") /\ dpc[d] = "request"
    BY <1>11 DEF SaveEvidence
  <2>2. UNCHANGED <<outcome, seen, results, answer, helper, sent, copies>>
    BY <1>11 DEF SaveEvidence
  <2> QED BY <2>1, <2>2, <1>3, GoQuiet
<1>12. CASE FindAttempt(d)
  <2>1. UNCHANGED <<seen, results, answer, helper, sent, copies>> /\ dpc[d] = "remote"
    BY <1>12 DEF FindAttempt
  <2>2. CASE Go(d, "raised") /\ UNCHANGED outcome
    BY <2>1, <2>2, <1>3, GoQuiet
  <2>3. CASE Go(d, "attempt") /\ UNCHANGED outcome
    BY <2>1, <2>3, <1>3, GoQuiet
  <2>4. CASE AcceptAnswer(d, answer[b])
    BY <2>1, <2>4, <1>5
  <2>5. CASE EndRemote(d, "already_absent") /\ LoadReceipt(b) = "absent"
    <3>1. RemoteGone(b)
      BY <2>5, <1>1 DEF LoadReceipt, RemoteGone
    <3> QED BY <2>1, <2>5, <3>1, EndRemoteKeeps DEF CopyOutcomes
  <2>6. CASE EndRemote(d, "unknown") \/ EndRemote(d, "failed")
    BY <2>1, <2>6, <1>6
  <2> QED BY <1>12, <2>2, <2>3, <2>4, <2>5, <2>6 DEF FindAttempt
<1>13. CASE FindAttemptFails(d)
  <2>1. UNCHANGED <<seen, results, answer, helper, sent, copies>> /\ dpc[d] = "remote" /\ EndRemote(d, "failed")
    BY <1>13 DEF FindAttemptFails
  <2> QED BY <2>1, <1>6
<1>14. CASE SaveAttempt(d)
  <2>1. UNCHANGED <<seen, results, answer, helper, sent, copies>> /\ dpc[d] = "attempt"
    BY <1>14 DEF SaveAttempt
  <2>2. CASE EndRemote(d, "failed")
    BY <2>1, <2>2, <1>6
  <2>3. CASE Go(d, "upload") /\ UNCHANGED outcome
    BY <2>1, <2>3, <1>3, GoQuiet
  <2> QED BY <1>14, <2>2, <2>3 DEF SaveAttempt
<1>15. CASE Upload(d)
  <2>1. UNCHANGED <<seen, results, answer, helper, sent, copies>> /\ dpc[d] = "upload"
    BY <1>15 DEF Upload
  <2>2. CASE EndRemote(d, "failed") \/ EndRemote(d, "unknown")
    BY <2>1, <2>2, <1>6
  <2>3. CASE Go(d, "invoke") /\ UNCHANGED outcome
    BY <2>1, <2>3, <1>3, GoQuiet
  <2> QED BY <1>15, <2>2, <2>3 DEF Upload
<1>16. CASE Invoke(d)
  <2>1. UNCHANGED <<seen, results, answer, copies>> /\ dpc[d] = "invoke"
    BY <1>16 DEF Invoke
  <2>2. CASE EndRemote(d, "unknown") /\ UNCHANGED <<helper, sent>>
    BY <2>1, <2>2, <1>6
  <2>3. CASE /\ helper' = [helper EXCEPT ![b] = "started"] /\ sent' = [sent EXCEPT ![b] = @ + 1]
             /\ Go(d, "wait") /\ UNCHANGED outcome
    <3>1. Goings
      BY <1>3, <2>1
    <3>2. Typed'
      BY <1>1, <2>1, <2>3, <3>1 DEF DeletionInv, Typed, Goings, Go, HelperPCs
    <3>3. AnswersInv'
      BY <1>1, <2>1, <2>3, <3>1 DEF DeletionInv, Typed, AnswersInv, Goings, Goes
    <3> QED BY <2>1, <2>3, <3>1, <3>2, <3>3, GoKeeps
  <2> QED BY <1>16, <2>2, <2>3 DEF Invoke
<1>17. CASE Return(d) \/ Lost(d)
  <2>1. UNCHANGED <<seen, results, answer, helper, sent, copies>> /\ dpc[d] = "wait"
    BY <1>17 DEF Return, Lost
  <2>2. EndRemote(d, "unknown") \/ AcceptAnswer(d, answer[b])
    BY <1>17 DEF Return, Lost
  <2> QED BY <2>1, <2>2, <1>5, <1>6
<1>18. CASE DeleteLocal(d)
  <2>1. UNCHANGED <<seen, results, answer, helper, sent, copies>> /\ dpc[d] = "local"
    BY <1>18 DEF DeleteLocal
  <2>2. CASE EndLocal(d, "not_attempted") \/ EndLocal(d, "failed")
    BY <2>1, <2>2, <1>7
  <2>3. CASE EndLocal(d, "already_absent") /\ local[b] = "gone"
    <3>1. Goings /\ LocalGone(b)'
      BY <2>1, <2>3, <1>3 DEF LocalGone, copies
    <3> QED BY <2>1, <2>3, <3>1, EndLocalKeeps DEF CopyOutcomes
  <2>4. CASE Go(d, "items") /\ UNCHANGED outcome
    BY <2>1, <2>4, <1>3, GoQuiet
  <2> QED BY <1>18, <2>2, <2>3, <2>4 DEF DeleteLocal
<1>19. CASE RemoveLocal(d)
  <2>1. UNCHANGED <<seen, results, answer, helper, sent, remote>> /\ dpc[d] \in {"items", "manifest", "directory"}
    BY <1>19 DEF RemoveLocal, LocalRemoval
  <2>2. CASE (EndLocal(d, "failed") \/ EndLocal(d, "unknown")) /\ UNCHANGED local
    BY <2>1, <2>2, <1>7 DEF copies
  <2>3. CASE LocalPhase(b, dpc[d]) /\ LocalRemoval[dpc[d]].next = "removed" /\ EndLocal(d, "deleted")
    <3>1. Goings /\ LocalGone(b)'
      BY <1>1, <2>1, <2>3, LocalPhaseGoes DEF LocalRemoval, LocalGone
    <3> QED BY <2>1, <2>3, <3>1, EndLocalKeeps DEF CopyOutcomes
  <2>4. CASE LocalPhase(b, dpc[d]) /\ Go(d, LocalRemoval[dpc[d]].next)
             /\ LocalRemoval[dpc[d]].next # "removed" /\ UNCHANGED outcome
    <3>1. Goings
      BY <1>1, <1>19, RemoveLocalGoes
    <3>2. LocalRemoval[dpc[d]].next \in {"manifest", "directory"}
      BY <2>1, <2>4 DEF LocalRemoval
    <3> QED BY <2>1, <2>4, <3>1, <3>2, GoQuiet
  <2> QED BY <1>19, <2>2, <2>3, <2>4 DEF RemoveLocal
<1>20. CASE ObserveLocal(d)
  <2>1. UNCHANGED <<outcome, results, answer, helper, sent, copies>> /\ dpc[d] = "observe_local"
    BY <1>20 DEF ObserveLocal
  <2>2. CASE Go(d, "save") /\ UNCHANGED seen
    BY <2>1, <2>2, <1>3, GoQuiet
  <2>3. CASE Go(d, "observe_remote") /\ seen' = [seen EXCEPT ![d].local = ObservedLocal(b)]
    <3>1. Goings /\ ObservedLocal(b) \in Views
      BY <2>1, <1>3 DEF ObservedLocal, Views
    <3>2. /\ seen' \in [Deletions -> [local : Views, remote : Views]]
          /\ seen'[d].local = ObservedLocal(b) /\ seen'[d].remote = seen[d].remote
          /\ \A e \in Deletions \ {d} : seen'[e] = seen[e]
      BY <2>3, <3>1 DEF DeletionInv, Typed
    <3>3. Typed' /\ dpc'[d] = "observe_remote" /\ \A e \in Deletions \ {d} : dpc'[e] = dpc[e]
      BY <2>1, <2>3, <3>1, <3>2 DEF DeletionInv, Typed, Goings, Go
    <3>4. AnswersInv'
      BY <2>1, <3>1, AnswersStay DEF DeletionInv
    <3>5. Others(d)
      BY <2>1, <3>2, <3>3 DEF Others, DeletionVars
    <3>6. Ordered(d)'
      BY <1>2, <2>1, <3>3 DEF Ordered
    <3>7. Noted(d)'
      BY <1>2, <2>1, <3>2 DEF Noted, ObservedLocal, LocalVerifies, LocalGone, RemoteGone, copies
    <3>8. Reported(d)'
      BY <1>2, <2>1 DEF Reported, LocalGone, RemoteGone, copies
    <3> QED BY <3>1, <3>3, <3>4, <3>5, <3>6, <3>7, <3>8, DeletionOwn DEF OkFor
  <2> QED BY <1>20, <2>2, <2>3 DEF ObserveLocal
<1>21. CASE ObserveRemote(d)
  <2>1. UNCHANGED <<outcome, results, answer, helper, sent, copies>> /\ dpc[d] = "observe_remote"
    BY <1>21 DEF ObserveRemote
  <2>2. CASE (Go(d, "save") \/ Go(d, "raised")) /\ UNCHANGED seen
    BY <2>1, <2>2, <1>3, GoQuiet
  <2>3. CASE Go(d, "save") /\ seen' = [seen EXCEPT ![d].remote = LoadReceipt(b)]
    <3>1. Goings /\ LoadReceipt(b) \in Views
      BY <2>1, <1>3 DEF LoadReceipt, Views
    <3>2. /\ seen' \in [Deletions -> [local : Views, remote : Views]]
          /\ seen'[d].remote = LoadReceipt(b) /\ seen'[d].local = seen[d].local
          /\ \A e \in Deletions \ {d} : seen'[e] = seen[e]
      BY <2>3, <3>1 DEF DeletionInv, Typed
    <3>3. Typed' /\ dpc'[d] = "save" /\ \A e \in Deletions \ {d} : dpc'[e] = dpc[e]
      BY <2>1, <2>3, <3>1, <3>2 DEF DeletionInv, Typed, Goings, Go
    <3>4. AnswersInv'
      BY <2>1, <3>1, AnswersStay DEF DeletionInv
    <3>5. Others(d)
      BY <2>1, <3>2, <3>3 DEF Others, DeletionVars
    <3>6. Ordered(d)'
      BY <1>2, <2>1, <3>3 DEF Ordered
    <3>7. LoadReceipt(b) = "absent" => RemoteGone(b)
      BY <1>1 DEF LoadReceipt, RemoteGone, CopiesTyped
    <3>8. Noted(d)'
      BY <1>2, <2>1, <3>2, <3>7 DEF Noted, LocalGone, RemoteGone, copies
    <3>9. Reported(d)'
      BY <1>2, <2>1 DEF Reported, LocalGone, RemoteGone, copies
    <3> QED BY <3>1, <3>3, <3>4, <3>5, <3>6, <3>8, <3>9, DeletionOwn DEF OkFor
  <2> QED BY <1>21, <2>2, <2>3 DEF ObserveRemote
<1>22. CASE SaveResult(d)
  <2>1. UNCHANGED <<outcome, seen, answer, helper, sent, copies>> /\ dpc[d] = "save"
    BY <1>22 DEF SaveResult
  <2>2. CASE Go(d, "raised") /\ UNCHANGED results
    BY <2>1, <2>2, <1>3, GoQuiet
  <2>3. CASE /\ results' = [results EXCEPT ![d] = ResultOf(d)]
             /\ Go(d, "done") \/ Go(d, "cleanup")
    <3>1. Goings
      BY <2>1, <1>3
    <3>2. /\ dpc'[d] \in {"done", "cleanup"} /\ \A e \in Deletions \ {d} : dpc'[e] = dpc[e]
          /\ results'[d] = ResultOf(d) /\ \A e \in Deletions \ {d} : results'[e] = results[e]
      BY <2>3 DEF DeletionInv, Typed, Go
    <3>3. Typed'
      BY <2>1, <2>3, <3>1 DEF DeletionInv, Typed, Goings, Go
    <3>4. AnswersInv'
      BY <2>1, <3>1, AnswersStay DEF DeletionInv
    <3>5. Others(d)
      BY <2>1, <3>2 DEF Others, DeletionVars
    <3>6. Ordered(d)'
      BY <1>2, <2>1, <3>2 DEF Ordered
    <3>7. Noted(d)'
      BY <1>2, <2>1 DEF Noted, LocalGone, RemoteGone, copies
    <3>8. seen[d].local \in Views /\ seen[d].remote \in Views
          /\ outcome[d].local \in CopyOutcomes /\ outcome[d].remote \in CopyOutcomes
      BY DEF DeletionInv, Typed
    <3>9. /\ results'[d].remote = outcome[d].remote /\ results'[d].local = outcome[d].local
          /\ results'[d].state = CombinedState(seen[d].local, seen[d].remote)
          /\ results'[d].attention = Attention(outcome[d], CombinedState(seen[d].local, seen[d].remote))
      BY <3>2 DEF ResultOf
    <3>10. results'[d].state = "both_deleted" => seen[d].local = "absent" /\ seen[d].remote = "absent"
      BY <3>8, <3>9 DEF CombinedState, Views
    <3>11. results'[d].state = "both_available" => seen[d].local = "present"
      BY <3>8, <3>9 DEF CombinedState, Views
    <3>12. ~results'[d].attention => /\ results'[d].state \in {"both_available", "both_deleted"}
                                     /\ outcome[d].local \in Removed
      BY <3>8, <3>9 DEF Attention, CopyOutcomes, Removed
    <3>13. /\ outcome[d].remote \in Removed => RemoteGone(b)'
           /\ outcome[d].local \in Removed => LocalGone(b)'
           /\ seen[d].remote = "absent" => RemoteGone(b)'
           /\ seen[d].local = "absent" => LocalGone(b)'
           /\ seen[d].local = "present" => outcome[d].local \notin Removed
      BY <1>2, <2>1 DEF Noted, LocalGone, RemoteGone, copies
    <3>14. Reported(d)'
      BY <3>9, <3>10, <3>11, <3>12, <3>13 DEF Reported
    <3> QED BY <3>1, <3>3, <3>4, <3>5, <3>6, <3>7, <3>14, DeletionOwn DEF OkFor
  <2> QED BY <1>22, <2>2, <2>3 DEF SaveResult
<1>23. ASSUME RemoveStaging(b) \/ UNCHANGED <<answer, helper, sent>>, Goings, DOMAIN answer = Backups
       PROVE  /\ answer' \in [Backups -> Answers \union {"none"}]
              /\ UNCHANGED <<helper, sent>> /\ AnswersInv'
  <2>1. UNCHANGED <<helper, sent>> /\ \A c \in Backups : answer'[c] \in {answer[c], "none"}
    BY <1>23 DEF RemoveStaging
  <2>3. answer' \in [Backups -> Answers \union {"none"}]
    BY <1>23 DEF RemoveStaging, DeletionInv, Typed
  <2>4. AnswersInv'
    BY <1>23, <2>1 DEF DeletionInv, AnswersInv, Goings, Goes, Removed
  <2> QED BY <2>1, <2>3, <2>4
<1>24. DOMAIN answer = Backups
  BY DEF DeletionInv, Typed
<1>25. CASE Cleanup(d)
  <2>1. /\ UNCHANGED <<outcome, seen, results, copies>> /\ dpc[d] = "cleanup" /\ Go(d, "done")
        /\ RemoveStaging(b) \/ UNCHANGED <<answer, helper, sent>>
    BY <1>25 DEF Cleanup
  <2>2. Goings
    BY <2>1, <1>3
  <2>3. /\ answer' \in [Backups -> Answers \union {"none"}]
        /\ UNCHANGED <<helper, sent>> /\ AnswersInv'
    BY <2>1, <2>2, <1>23, <1>24
  <2>4. Typed'
    BY <2>1, <2>2, <2>3 DEF DeletionInv, Typed, Goings, Go
  <2> QED BY <2>1, <2>2, <2>3, <2>4, GoKeeps
<1>26. CASE RetryCleanup(d)
  <2>1. UNCHANGED <<dpc, outcome, seen, results, copies>> /\ RemoveStaging(b)
    BY <1>26 DEF RetryCleanup
  <2>2. Goings
    BY <2>1, <1>3
  <2>3. /\ answer' \in [Backups -> Answers \union {"none"}]
        /\ UNCHANGED <<helper, sent>> /\ AnswersInv'
    BY <2>1, <2>2, <1>23, <1>24
  <2>4. Typed'
    BY <2>1, <2>2, <2>3 DEF DeletionInv, Typed, Goings
  <2>5. OkFor(d)' /\ Others(d)
    BY <1>2, <2>1, <2>2, OthersStay DEF DeletionVars, OkFor, Others
  <2> QED BY <2>2, <2>3, <2>4, <2>5, DeletionOwn
<1>27. CASE Cancel(d)
  <2>1. UNCHANGED <<dpc, outcome, seen, results, answer, helper, sent, copies>>
    BY <1>27 DEF Cancel
  <2> QED BY <2>1, <1>3, DeletionQuiet
<1>28. CASE Crash(d)
  <2>1. UNCHANGED <<outcome, seen, results, answer, helper, sent, copies>> /\ Go(d, "crashed")
        /\ dpc[d] \notin {"request", "refused"}
    BY <1>28 DEF Crash
  <2> QED BY <2>1, <1>3, GoQuiet
<1> QED BY <1>10, <1>11, <1>12, <1>13, <1>14, <1>15, <1>16, <1>17, <1>18, <1>19, <1>20, <1>21, <1>22,
           <1>25, <1>26, <1>27, <1>28 DEF DeletionWorks, DeletionActs, DeletionStep

\* The steps of the helper on the remote host.
LEMMA HelperCalls == ASSUME DeletionInv, NEW b \in Backups, HelperStep(b) \/ HelperDies(b) PROVE DeletionInv'
<1> USE DEF copyVars, deletionVars, deletionRecords, attemptVars, helperVars
<1>1. UNCHANGED <<dpc, outcome, seen, results, sent>>
  BY DEF HelperStep, HelperDies, HelperStart, HelperCheck, HelperRemove, HelperAnswer
<1>2. Goings
  <2>1. CASE HelperRemove(b)
    BY <2>1, HelperRemoveGoes DEF DeletionInv, Typed
  <2>2. CASE UNCHANGED copies
    BY <2>2, CopiesStay DEF DeletionInv, Typed
  <2> QED BY <2>1, <2>2 DEF HelperStep, HelperDies, HelperStart, HelperCheck, HelperAnswer, copies
<1>3. ASSUME NEW next \in HelperPCs, NEW a, HelperAt(b, next),
             \/ a \in Answers /\ answer' = [answer EXCEPT ![b] = a]
             \/ a = "none" /\ UNCHANGED answer,
             a \in Removed \/ next = "removed" => RemoteGone(b)'
      PROVE  DeletionInv'
  <2>1. /\ helper' \in [Backups -> HelperPCs] /\ helper'[b] = next
        /\ \A c \in Backups \ {b} : helper'[c] = helper[c]
    BY <1>3 DEF DeletionInv, Typed, HelperAt
  <2>2. /\ answer' \in [Backups -> Answers \union {"none"}] /\ answer'[b] \in {a, answer[b]}
        /\ \A c \in Backups \ {b} : answer'[c] = answer[c]
    BY <1>3 DEF DeletionInv, Typed
  <2>3. Typed'
    BY <1>1, <1>2, <2>1, <2>2 DEF DeletionInv, Typed, Goings
  <2>4. AnswersInv'
    BY <1>2, <1>3, <2>1, <2>2 DEF DeletionInv, AnswersInv, Goings, Goes
  <2>5. ASSUME NEW d \in Deletions PROVE OkFor(d)'
    BY <1>1, <1>2, OthersStay DEF DeletionInv, DeletionVars, OkFor
  <2> QED BY <2>3, <2>4, <2>5 DEF DeletionInv, OkFor
<1> USE DEF HelperPCs, HelperEnds, Answers, Removed
<1>4. CASE HelperStart(b)
  BY <1>4, <1>3 DEF HelperStart
<1>5. CASE HelperCheck(b)
  <2>1. CASE remote[b] \in {"husk", "gone"}
    <3>1. RemoteGone(b)'
      BY <1>5, <2>1 DEF HelperCheck, RemoteGone, copies
    <3> QED BY <1>5, <2>1, <3>1, <1>3 DEF HelperCheck, HelperEnd
  <2>2. CASE remote[b] \notin {"husk", "gone"}
    <3>1. \/ HelperEnd(b, "failed") \/ HelperEnd(b, "unknown")
          \/ HelperAt(b, "items") /\ UNCHANGED answer
      BY <1>5, <2>2 DEF HelperCheck, DeletionInv, Typed, CopiesTyped, RemoteStates, LocalStates
    <3> QED BY <3>1, <1>3 DEF HelperEnd
  <2> QED BY <2>1, <2>2
<1>6. CASE HelperRemove(b)
  <2>1. CASE RemotePhase(b, helper[b]) /\ HelperAt(b, RemoteRemoval[helper[b]].next) /\ UNCHANGED answer
    <3>1. helper[b] \in DOMAIN RemoteRemoval /\ UNCHANGED local /\ CopiesTyped
      BY <1>6 DEF HelperRemove, DeletionInv, Typed
    <3>2. RemoteRemoval[helper[b]].next = "removed" => RemoteGone(b)'
      BY <2>1, <3>1, RemotePhaseGoes DEF RemoteGone
    <3>3. RemoteRemoval[helper[b]].next \in HelperPCs
      BY <3>1 DEF RemoteRemoval
    <3> QED BY <2>1, <3>2, <3>3, <1>3
  <2>2. CASE HelperEnd(b, "failed") \/ HelperEnd(b, "unknown")
    BY <2>2, <1>3 DEF HelperEnd
  <2> QED BY <1>6, <2>1, <2>2 DEF HelperRemove
<1>7. CASE HelperAnswer(b)
  <2>1. HelperEnd(b, "deleted") /\ helper[b] = "removed" /\ UNCHANGED remote
    BY <1>7 DEF HelperAnswer, copies
  <2>2. RemoteGone(b)'
    BY <2>1 DEF DeletionInv, AnswersInv, RemoteGone
  <2> QED BY <2>1, <2>2, <1>3 DEF HelperEnd
<1>8. CASE HelperDies(b)
  BY <1>8, <1>3 DEF HelperDies
<1> QED BY <1>4, <1>5, <1>6, <1>7, <1>8 DEF HelperStep

\* The steps of evidence retention.
LEMMA EvidenceCalls == ASSUME DeletionInv, EvidenceNext PROVE DeletionInv'
<1> USE DEF copyVars, deletionVars, deletionRecords, attemptVars, helperVars, dualVars
<1>1. UNCHANGED <<dpc, outcome, seen, answer, helper, sent, copies>>
  BY DEF EvidenceNext, ReconcileAgain, Execute, Resume, EvidenceStep, RemoveLink, StopHalfWay, Complete, Vanish
<1>2. Goings
  BY <1>1, CopiesStay DEF DeletionInv, Typed
<1>3. CASE UNCHANGED results
  BY <1>1, <1>2, <1>3, DeletionQuiet
<1>4. CASE \E d \in Deletions : results' = [results EXCEPT ![d] = NoResult]
  <2>1. Typed'
    BY <1>1, <1>2, <1>4 DEF DeletionInv, Typed, Goings
  <2>2. AnswersInv'
    BY <1>1, <1>2, AnswersStay DEF DeletionInv
  <2>3. ASSUME NEW e \in Deletions PROVE OkFor(e)'
    <3>1. results'[e] = results[e] \/ results'[e] = NoResult
      BY <1>4 DEF DeletionInv, Typed
    <3> QED BY <1>1, <3>1, ResultGoes DEF DeletionInv, OkFor
  <2> QED BY <2>1, <2>2, <2>3 DEF DeletionInv, OkFor
<1> QED BY <1>3, <1>4 DEF EvidenceNext, ReconcileAgain, Execute, Resume, EvidenceStep, RemoveLink, Unlink,
                          StopHalfWay, Complete, Vanish

LEMMA DeletionInit == Init => DeletionInv
<1> SUFFICES ASSUME Init PROVE DeletionInv
  OBVIOUS
<1> USE DEF Init, CopiesInit, DualInit
<1>1. /\ Untouched \in [remote : CopyOutcomes, local : CopyOutcomes]
      /\ Unseen \in [local : Views, remote : Views]
      /\ "none" \in HelperPCs /\ "request" \in DeletionPCs
  BY DEF Untouched, Unseen, CopyOutcomes, Views, HelperPCs, HelperEnds, DeletionPCs
<1>2. CopiesTyped
  BY DEF CopiesTyped, LocalStates, RemoteStates
<1>3. Typed
  BY <1>1, <1>2 DEF Typed
<1>4. AnswersInv
  BY DEF AnswersInv, Removed
<1>5. ASSUME NEW d \in Deletions PROVE Ordered(d) /\ Noted(d) /\ Reported(d)
  BY DEF Ordered, Noted, Reported, BeforeRemote, AtLocal, Untouched, Unseen, Removed
<1> QED BY <1>3, <1>4, <1>5 DEF DeletionInv

LEMMA DeletionStays == DeletionInv /\ [Next]_vars => DeletionInv'
<1> SUFFICES ASSUME DeletionInv, [Next]_vars PROVE DeletionInv'
  OBVIOUS
<1>1. Goings
  BY StepGoes DEF DeletionInv, Typed
<1>2. CASE DeletionNext
  BY <1>2, DeletionCalls, HelperCalls DEF DeletionNext
<1>3. CASE EvidenceNext
  BY <1>3, EvidenceCalls
<1>4. CASE UNCHANGED dualVars
  BY <1>1, <1>4, DeletionQuiet DEF dualVars, deletionVars, deletionRecords, helperVars
<1> QED BY <1>2, <1>3, <1>4 DEF Next, vars

\* The answers of the helper, what a deletion has noted and what it reports
\* stay true of the stores, whatever deletions, prunes and cleanups meet: the
\* invariant on which the statements about deletions rest.
THEOREM DeletionsNoteWhatIs == Spec => []DeletionInv
<1>1. Init => DeletionInv
  BY DeletionInit
<1>2. DeletionInv /\ [Next]_vars => DeletionInv'
  BY DeletionStays
<1> QED BY <1>1, <1>2, PTL DEF Spec

\* What is gone of a backup does not come back: a removal only goes on,
\* whatever else takes the same backup apart.
RemovalIsFinal == [][\A b \in Backups : Goes(b)]_vars
THEOREM RemovalGoesOn == Spec => RemovalIsFinal
<1>1. DeletionInv /\ [Next]_vars => [\A b \in Backups : Goes(b)]_vars
  BY StepGoes DEF DeletionInv, Typed, Goings
<1> QED BY <1>1, DeletionsNoteWhatIs, PTL DEF Spec, RemovalIsFinal

\* The original outlives the copy: a deletion begins to take the original
\* apart only when nothing restorable is left on the remote host.
THEOREM OriginalOutlivesCopy == Spec => OriginalGoesLast
<1> DEFINE A == \A d \in Deletions :
             dpc[d] = "items" /\ local'[BackupOf[d]] # local[BackupOf[d]] /\ dpc'[d] # dpc[d]
                 => remote[BackupOf[d]] \in {"husk", "gone"}
<1>1. DeletionInv /\ [Next]_vars => [A]_vars
  <2> SUFFICES ASSUME DeletionInv, NEW d \in Deletions, dpc[d] = "items"
               PROVE  remote[BackupOf[d]] \in {"husk", "gone"}
    OBVIOUS
  <2>1. Ordered(d) /\ Noted(d)
    BY DEF DeletionInv
  <2> QED BY <2>1 DEF Ordered, Noted, AtLocal, RemoteGone
<1> QED BY <1>1, DeletionsNoteWhatIs, PTL DEF Spec, OriginalGoesLast

----------------------------------------------------------------------------
(* What prunes report.                                                     *)

LEMMA NotListed == ASSUME CopiesTyped, NEW b \in Backups
                   PROVE  /\ ~LocalListed(b) <=> local[b] \in {"husk", "gone"}
                          /\ ~RemoteListed(b) <=> remote[b] = "gone"
BY DEF CopiesTyped, LocalStates, LocalListed, RemoteListed

LEMMA ReportStays == ASSUME CopiesTyped, NEW r \in Runs, ReportIsTrue(r), Goings, report'[r] = report[r]
                     PROVE  ReportIsTrue(r)'
<1> SUFFICES ASSUME report[r] # NoReport, NEW b \in report[r].removed
             PROVE  IF r \in LocalPrunes THEN local'[b] \in {"husk", "gone"} ELSE remote'[b] = "gone"
  BY DEF ReportIsTrue
<1>1. b \in Backups /\ Goes(b) /\ CopiesTyped'
  BY DEF ReportIsTrue, Goings
<1>2. ~LocalListed(b)' => local'[b] \in {"husk", "gone"}
  BY <1>1 DEF CopiesTyped, LocalStates, LocalListed
<1> QED BY <1>1, <1>2, NotListed DEF ReportIsTrue, Goes

LEMMA ReportsQuiet == ReportsInv /\ Goings /\ UNCHANGED <<before, report>> => ReportsInv'
BY ReportStays DEF ReportsInv, Goings

\* A run reports what it has seen not to be listed.
LEMMA SaveIsTrue ==
    ASSUME ReportsInv, NEW r \in Runs, NEW state, NEW gone, NEW left, Save(r, state, gone, left),
           UNCHANGED <<before, copies>>, gone = {} \/ gone = ObservedRemoved(r)
    PROVE  ReportsInv'
<1>1. Goings
  BY CopiesStay DEF ReportsInv
<1>2. /\ report' = [report EXCEPT ![r] = [state |-> state, removed |-> gone, remaining |-> left]]
      /\ report'[r].removed = gone /\ \A s \in Runs \ {r} : report'[s] = report[s]
  BY DEF Save, ReportsInv
<1>3. ASSUME NEW b \in gone
      PROVE  b \in Backups /\ IF r \in LocalPrunes THEN local[b] \in {"husk", "gone"} ELSE remote[b] = "gone"
  <2>1. b \in before[r] /\ b \notin Mine(r)
    BY <1>3 DEF ObservedRemoved
  <2>2. b \in Backups
    BY <2>1 DEF ReportsInv
  <2>3. IF r \in LocalPrunes THEN ~LocalListed(b) ELSE ~RemoteListed(b)
    BY <2>1, <2>2 DEF Mine, LocalList, RemoteList
  <2> QED BY <2>2, <2>3, NotListed DEF ReportsInv
<1>4. ReportIsTrue(r)'
  BY <1>2, <1>3 DEF ReportIsTrue, copies
<1>5. ASSUME NEW s \in Runs, s # r PROVE ReportIsTrue(s)'
  BY <1>1, <1>2, <1>5, ReportStays DEF ReportsInv
<1> QED BY <1>1, <1>2, <1>4, <1>5 DEF ReportsInv, Goings

LEMMA ReportsStay == ReportsInv /\ [Next]_vars => ReportsInv'
<1> SUFFICES ASSUME ReportsInv, [Next]_vars PROVE ReportsInv'
  OBVIOUS
<1>1. Goings
  BY StepGoes DEF ReportsInv
<1>2. CASE UNCHANGED <<before, report>>
  BY <1>1, <1>2, ReportsQuiet
<1>3. ASSUME NEW r \in Runs, RunList(r) PROVE ReportsInv'
  <2>1. UNCHANGED report /\ (before' = before \/ before' = [before EXCEPT ![r] = Mine(r)])
    BY <1>3 DEF RunList
  <2>2. Mine(r) \subseteq Backups
    BY DEF Mine, LocalList, RemoteList
  <2>3. before' \in [Runs -> SUBSET Backups]
    BY <2>1, <2>2 DEF ReportsInv
  <2> QED BY <1>1, <2>1, <2>3, ReportStays DEF ReportsInv, Goings
<1>4. ASSUME NEW r \in Runs, RunReport(r) PROVE ReportsInv'
  <2>1. UNCHANGED <<before, copies>>
    BY <1>4 DEF RunReport, copyVars
  <2>2. \E state, gone, left : Save(r, state, gone, left) /\ gone \in {{}, ObservedRemoved(r)}
    BY <1>4 DEF RunReport
  <2> QED BY <2>1, <2>2, SaveIsTrue
<1>5. PruneNext => UNCHANGED <<before, report>> \/ \E r \in Runs : RunList(r) \/ RunReport(r)
  BY DEF PruneNext, RunStep, RunDies, RunDecide, RunRemove, ClientStep, ClientDies, Again,
         FindTry, SaveTry, InvokePrune, ReadReport, Tidy, runVars
<1> QED BY <1>2, <1>3, <1>4, <1>5 DEF Next, vars, retentionVars, runVars

\* What a saved result of a deletion or the result of a prune claims is so,
\* and stays so, whatever else removes: a copy called deleted, already absent
\* or removed is not listed or loadable, and a result that asks for no
\* attention is about a backup of which both copies are gone.
THEOREM ResultsStayTrue == Spec => []ResultsAreTrue
<1>1. Init => ReportsInv
  <2> SUFFICES ASSUME Init PROVE ReportsInv
    OBVIOUS
  <2>1. CopiesTyped
    BY DeletionInit DEF DeletionInv, Typed
  <2> QED BY <2>1 DEF Init, RetentionInit, ReportsInv, ReportIsTrue
<1>2. DeletionInv /\ ReportsInv => ResultsAreTrue
  BY DEF DeletionInv, Reported, ReportsInv, ReportIsTrue, ResultsAreTrue, Removed, LocalGone, RemoteGone
<1> QED BY <1>1, <1>2, ReportsStay, DeletionsNoteWhatIs, PTL DEF Spec

----------------------------------------------------------------------------
(* What is asked of the remote host.                                       *)

LEMMA RequestsKeep ==
    ASSUME RequestsInv, UNCHANGED <<attempts, sent>>, DOMAIN dpc' = Deletions,
           \A d \in Deletions : Asking(d)' => Asking(d)
    PROVE  RequestsInv'
BY DEF RequestsInv

LEMMA AskKeeps ==
    ASSUME RequestsInv, UNCHANGED <<attempts, sent>>, NEW d \in Deletions, NEW next, Go(d, next),
           next \in {"upload", "invoke"} => Asking(d)
    PROVE  RequestsInv'
<1>1. DOMAIN dpc' = Deletions
  BY DEF RequestsInv, Go
<1>2. \A e \in Deletions : dpc'[e] = dpc[e] \/ (e = d /\ dpc'[e] = next)
  BY DEF RequestsInv, Go
<1>3. \A e \in Deletions : Asking(e)' => Asking(e)
  BY <1>2 DEF Asking
<1> QED BY <1>1, <1>3, RequestsKeep

LEMMA RequestCalls == ASSUME RequestsInv, NEW d \in Deletions, DeletionWorks(d) PROVE RequestsInv'
<1> DEFINE b == BackupOf[d]
<1> USE DEF copyVars, deletionVars, deletionRecords, attemptVars, helperVars
<1>1. b \in Backups
  BY DeletionsAssumption
<1>2. ASSUME NEW how, EndRemote(d, how) \/ EndLocal(d, how), UNCHANGED <<attempts, sent>> PROVE RequestsInv'
  BY <1>2, AskKeeps DEF EndRemote, EndLocal
<1>3. CASE UNCHANGED <<dpc, attempts, sent>>
  BY <1>3, RequestsKeep DEF Asking, RequestsInv
<1>4. CASE Request(d) \/ SaveEvidence(d)
  BY <1>4, AskKeeps DEF Request, SaveEvidence
<1>5. CASE FindAttempt(d) \/ FindAttemptFails(d)
  BY <1>2, <1>5, AskKeeps DEF FindAttempt, FindAttemptFails, AcceptAnswer
<1>6. CASE SaveAttempt(d)
  <2>1. UNCHANGED sent
    BY <1>6 DEF SaveAttempt
  <2>2. CASE EndRemote(d, "failed") /\ UNCHANGED attempts
    BY <1>2, <2>1, <2>2
  <2>3. CASE b \notin attempts /\ Go(d, "upload") /\ attempts' = attempts \union {b}
    <3>1. sent[b] = 0 /\ \A e \in Deletions : BackupOf[e] = b => ~Asking(e)
      BY <1>1, <2>3 DEF RequestsInv
    <3>2. DOMAIN dpc' = Deletions /\ \A e \in Deletions \ {d} : Asking(e)' = Asking(e)
      BY <2>3 DEF RequestsInv, Go, Asking
    <3>3. DOMAIN sent' = Backups /\ \A c \in Backups : sent'[c] \in {0, 1} /\ (sent'[c] = 1 => c \in attempts')
      BY <2>1, <2>3 DEF RequestsInv
    <3>4. ASSUME NEW e \in Deletions, Asking(e)'
          PROVE  /\ BackupOf[e] \in attempts' /\ sent'[BackupOf[e]] = 0
                 /\ \A f \in Deletions \ {e} : BackupOf[f] = BackupOf[e] => ~Asking(f)'
      <4>1. CASE e = d
        BY <2>1, <2>3, <3>1, <3>2, <4>1
      <4>2. CASE e # d
        <5>1. Asking(e)
          BY <3>2, <3>4, <4>2
        <5>2. BackupOf[e] # b
          BY <3>1, <5>1
        <5> QED BY <2>1, <2>3, <3>2, <4>2, <5>1, <5>2 DEF RequestsInv
      <4> QED BY <4>1, <4>2
    <3> QED BY <3>2, <3>3, <3>4 DEF RequestsInv
  <2> QED BY <1>6, <2>2, <2>3 DEF SaveAttempt
<1>7. CASE Upload(d)
  BY <1>2, <1>7, AskKeeps DEF Upload, Asking
<1>8. CASE Invoke(d)
  <2>1. CASE EndRemote(d, "unknown") /\ UNCHANGED <<attempts, sent>>
    BY <1>2, <2>1
  <2>2. CASE sent' = [sent EXCEPT ![b] = @ + 1] /\ Go(d, "wait") /\ UNCHANGED attempts
    <3>1. Asking(d)
      BY <1>8 DEF Invoke, Asking
    <3>2. sent'[b] = 1 /\ b \in attempts /\ \A c \in Backups \ {b} : sent'[c] = sent[c]
      BY <1>1, <2>2, <3>1 DEF RequestsInv
    <3>3. DOMAIN dpc' = Deletions /\ ~Asking(d)' /\ \A e \in Deletions \ {d} : Asking(e)' = Asking(e)
      BY <2>2 DEF RequestsInv, Go, Asking
    <3>4. DOMAIN sent' = Backups /\ \A c \in Backups : sent'[c] \in {0, 1} /\ (sent'[c] = 1 => c \in attempts')
      BY <2>2, <3>2 DEF RequestsInv
    <3>5. ASSUME NEW e \in Deletions, Asking(e)'
          PROVE  /\ BackupOf[e] \in attempts' /\ sent'[BackupOf[e]] = 0
                 /\ \A f \in Deletions \ {e} : BackupOf[f] = BackupOf[e] => ~Asking(f)'
      <4>1. e # d /\ Asking(e)
        BY <3>3, <3>5
      <4>2. BackupOf[e] # b
        BY <3>1, <4>1 DEF RequestsInv
      <4>3. BackupOf[e] \in Backups
        BY DeletionsAssumption
      <4> QED BY <2>2, <3>2, <3>3, <4>1, <4>2, <4>3 DEF RequestsInv
    <3> QED BY <3>3, <3>4, <3>5 DEF RequestsInv
  <2> QED BY <1>8, <2>1, <2>2 DEF Invoke
<1>9. CASE Return(d) \/ Lost(d)
  BY <1>2, <1>9 DEF Return, Lost, AcceptAnswer
<1>10. CASE DeleteLocal(d)
  BY <1>2, <1>10, AskKeeps DEF DeleteLocal
<1>11. CASE RemoveLocal(d)
  <2>1. \A phase \in DOMAIN LocalRemoval : LocalRemoval[phase].next \notin {"upload", "invoke"}
    BY DEF LocalRemoval
  <2> QED BY <1>2, <1>11, <2>1, AskKeeps DEF RemoveLocal
<1>12. CASE ObserveLocal(d) \/ ObserveRemote(d) \/ SaveResult(d)
  BY <1>12, AskKeeps DEF ObserveLocal, ObserveRemote, SaveResult
<1>13. CASE Cleanup(d)
  BY <1>13, AskKeeps DEF Cleanup, RemoveStaging
<1>14. CASE Crash(d)
  BY <1>14, AskKeeps DEF Crash
<1>15. CASE Cancel(d) \/ RetryCleanup(d)
  BY <1>3, <1>15 DEF Cancel, RetryCleanup, RemoveStaging
<1> QED BY <1>4, <1>5, <1>6, <1>7, <1>8, <1>9, <1>10, <1>11, <1>12, <1>13, <1>14, <1>15
        DEF DeletionWorks, DeletionActs, DeletionStep

LEMMA RequestsStay == RequestsInv /\ [Next]_vars => RequestsInv'
<1> SUFFICES ASSUME RequestsInv, [Next]_vars PROVE RequestsInv'
  OBVIOUS
<1> USE DEF deletionVars, attemptVars, helperVars, dualVars
<1>1. CASE UNCHANGED <<dpc, attempts, sent>>
  BY <1>1, RequestsKeep DEF Asking, RequestsInv
<1>2. EvidenceNext => UNCHANGED <<dpc, attempts, sent>>
  BY DEF EvidenceNext, ReconcileAgain, Execute, Resume, EvidenceStep, RemoveLink, StopHalfWay, Complete, Vanish
<1>3. (\E b \in Backups : HelperStep(b) \/ HelperDies(b)) => UNCHANGED <<dpc, attempts, sent>>
  BY DEF HelperStep, HelperDies, HelperStart, HelperCheck, HelperRemove, HelperAnswer
<1> QED BY <1>1, <1>2, <1>3, RequestCalls DEF Next, DeletionNext, vars

LEMMA CallsStay == CallsInv /\ [Next]_vars => CallsInv'
<1> SUFFICES ASSUME CallsInv, [Next]_vars PROVE CallsInv'
  OBVIOUS
<1>1. CASE UNCHANGED <<client, tries, calls>>
  BY <1>1 DEF CallsInv
<1>2. ASSUME NEW q \in RemotePrunes, NEW next, ClientAt(q, next), UNCHANGED <<tries, calls>>,
             next = "save" => q \notin tries, next # "invoke"
      PROVE  CallsInv'
  BY <1>2 DEF CallsInv, ClientAt
<1>3. ASSUME NEW q \in RemotePrunes, ClientStep(q) PROVE CallsInv'
  <2>1. CASE FindTry(q)
    BY <1>2, <2>1 DEF FindTry
  <2>2. CASE SaveTry(q)
    BY <2>2 DEF SaveTry, CallsInv, ClientAt
  <2>3. CASE InvokePrune(q)
    <3>1. CASE ClientAt(q, "raised") /\ UNCHANGED calls
      BY <1>2, <2>3, <3>1 DEF InvokePrune
    <3>2. CASE calls' = [calls EXCEPT ![q] = @ + 1] /\ ClientAt(q, "wait")
      BY <2>3, <3>2 DEF InvokePrune, CallsInv, ClientAt
    <3> QED BY <2>3, <3>1, <3>2 DEF InvokePrune
  <2>4. CASE ReadReport(q) \/ Tidy(q)
    BY <1>2, <2>4 DEF ReadReport, Tidy
  <2> QED BY <1>3, <2>1, <2>2, <2>3, <2>4 DEF ClientStep
<1>4. ASSUME NEW q \in RemotePrunes, ClientDies(q) \/ Again(q) PROVE CallsInv'
  BY <1>2, <1>4 DEF ClientDies, Again
<1>5. (\E r \in Runs : RunStep(r) \/ RunDies(r)) => UNCHANGED <<client, tries, calls>>
  BY DEF RunStep, RunDies, RunList, RunDecide, RunRemove, RunReport, clientVars
<1> QED BY <1>1, <1>3, <1>4, <1>5 DEF Next, PruneNext, vars, retentionVars, clientVars

\* The helper of a deletion is invoked at most once per backup and the helper
\* of a remote prune at most once per request, whatever retry, restart or
\* second deletion of the same backup follows.
THEOREM RemovalAskedOnce == Spec => []SentOnce
<1>1. Init => RequestsInv /\ CallsInv
  BY DEF Init, DualInit, RetentionInit, RequestsInv, CallsInv, Asking
<1>2. RequestsInv /\ CallsInv => SentOnce
  BY DEF RequestsInv, CallsInv, SentOnce
<1> QED BY <1>1, <1>2, RequestsStay, CallsStay, PTL DEF Spec

----------------------------------------------------------------------------
(* The evidence of a deletion.                                             *)

LEMMA OneAndTwo == ASSUME NEW a, NEW b, NEW c PROVE <<a>> \o <<b, c>> = <<a, b, c>>
<1> DEFINE S == {a, b, c}
<1>1. <<a>> \in Seq(S) /\ <<b, c>> \in Seq(S) /\ <<a, b, c>> \in Seq(S)
  OBVIOUS
<1>2. <<a>> \o <<b, c>> \in Seq(S) /\ Len(<<a>> \o <<b, c>>) = 3
  BY <1>1
<1>3. \A i \in 1 .. 3 : (<<a>> \o <<b, c>>)[i] = <<a, b, c>>[i]
  BY <1>1
<1>4. Len(<<a, b, c>>) = 3
  OBVIOUS
<1> HIDE DEF S
<1> QED BY <1>1, <1>2, <1>3, <1>4, SeqEqual

\* The chain of evidence, and how it gets shorter.
LEMMA ChainFacts ==
    /\ \A d : ChainOf(d) \in Chains \ PastManifest
    /\ \A s \in Chains : s # <<>> => /\ Tail(s) \in Chains /\ Head(s) \in LinkNames
                                     /\ Tail(s) \in PastManifest => Head(s) = "manifest" \/ s \in PastManifest
                                     /\ Head(s) = "deletion" => s \in PastManifest
                                     /\ Head(s) = "manifest" => s \notin PastManifest
<1>1. \A d : ChainOf(d) \in Chains \ PastManifest
  <2>1. /\ <<"reconciliation">> \o <<"manifest", "deletion">> = <<"reconciliation", "manifest", "deletion">>
        /\ <<>> \o <<"manifest", "deletion">> = <<"manifest", "deletion">>
    BY OneAndTwo
  <2>2. \A d : ChainOf(d) \in {<<"reconciliation", "manifest", "deletion">>, <<"manifest", "deletion">>}
    BY <2>1 DEF ChainOf
  <2>3. /\ <<"manifest", "deletion">> \in Chains \ PastManifest
        /\ <<"reconciliation", "manifest", "deletion">> \in Chains \ PastManifest
    BY DEF Chains, PastManifest
  <2> QED BY <2>2, <2>3
<1>2. \A s \in Chains : s # <<>> => /\ Tail(s) \in Chains /\ Head(s) \in LinkNames
                                    /\ Tail(s) \in PastManifest => Head(s) = "manifest" \/ s \in PastManifest
                                    /\ Head(s) = "deletion" => s \in PastManifest
                                    /\ Head(s) = "manifest" => s \notin PastManifest
  <2> DEFINE whole == <<"reconciliation", "manifest", "deletion">>
             short == <<"manifest", "deletion">>
             last == <<"deletion">>
  <2>1. Head(whole) = "reconciliation" /\ Tail(whole) = short
    OBVIOUS
  <2>2. Head(short) = "manifest" /\ Tail(short) = last
    OBVIOUS
  <2>3. Head(last) = "deletion" /\ Tail(last) = <<>>
    OBVIOUS
  <2>4. /\ short # last /\ short # <<>> /\ whole # last /\ whole # <<>>
        /\ Chains = {whole, short, last, <<>>} /\ PastManifest = {last, <<>>}
    BY DEF Chains, PastManifest
  <2> HIDE DEF whole, short, last
  <2> QED BY <2>1, <2>2, <2>3, <2>4 DEF LinkNames
<1> QED BY <1>1, <1>2

\* A deletion whose evidence stays as it is, while it goes on.
LEMMA EvidenceKeeps ==
    ASSUME NEW d \in Deletions, Evidenced(d), Goings, Begun(d)' <=> Begun(d),
           d \in evidence' <=> d \in evidence, task'[d] = task[d], executions'[d] = executions[d],
           results'[d] # NoResult \/ (dpc'[d] \in {"cleanup", "done"}
                                        => dpc[d] \in {"cleanup", "done"} /\ results'[d] = results[d])
    PROVE  Evidenced(d)'
<1>1. Settled(d) => Settled(d)'
  BY DeletionsAssumption DEF Settled, Goings, Goes
<1> QED BY <1>1 DEF Evidenced

\* The steps of a deletion after its request.
LEMMA WorkKeepsEvidence ==
    ASSUME DeletionInv, EvidenceInv, NEW d \in Deletions, DeletionWorks(d), ~SaveEvidence(d), Goings,
           UNCHANGED <<task, executions>>
    PROVE  EvidenceInv'
<1> USE DEF copyVars, deletionVars, deletionRecords, attemptVars, helperVars
<1>1. UNCHANGED evidence
  BY DEF DeletionWorks, DeletionActs, DeletionStep, Request, FindAttempt, FindAttemptFails,
     SaveAttempt, Upload, Invoke, Return, Lost, DeleteLocal, RemoveLocal, ObserveLocal, ObserveRemote,
     SaveResult, Cleanup, Cancel, Crash, RetryCleanup
<1>2. ASSUME /\ \A e \in Deletions \ {d} : dpc'[e] = dpc[e] /\ results'[e] = results[e]
             /\ Begun(d)' <=> Begun(d)
             /\ \/ results'[d] # NoResult
                \/ /\ dpc'[d] \in {"cleanup", "done"} => dpc[d] \in {"cleanup", "done"}
                   /\ results'[d] = results[d]
      PROVE  EvidenceInv'
  <2>1. EvidenceTyped'
    BY DEF EvidenceInv, EvidenceTyped
  <2>2. Evidenced(d)'
    BY <1>1, <1>2, EvidenceKeeps DEF EvidenceInv
  <2>3. ASSUME NEW e \in Deletions \ {d} PROVE Evidenced(e)'
    <3>1. dpc'[e] = dpc[e] /\ results'[e] = results[e]
      BY <1>2
    <3>2. Begun(e)' <=> Begun(e)
      BY <3>1 DEF Begun
    <3> QED BY <1>1, <3>1, <3>2, EvidenceKeeps DEF EvidenceInv
  <2> QED BY <2>1, <2>2, <2>3 DEF EvidenceInv
<1>3. ASSUME NEW next, Go(d, next), UNCHANGED results, next \notin {"cleanup", "done"} \/ dpc[d] = "cleanup",
             dpc[d] \notin {"request", "refused"} <=> next \notin {"request", "refused"}
      PROVE  EvidenceInv'
  <2>1. dpc'[d] = next /\ \A e \in Deletions \ {d} : dpc'[e] = dpc[e]
    BY <1>3 DEF Go, DeletionInv, Typed
  <2> QED BY <1>2, <1>3, <2>1 DEF Begun
<1>4. ASSUME NEW how, EndRemote(d, how) \/ EndLocal(d, how), UNCHANGED results,
             dpc[d] \notin {"request", "refused"} PROVE EvidenceInv'
  BY <1>3, <1>4 DEF EndRemote, EndLocal
<1>5. CASE UNCHANGED <<dpc, results>>
  BY <1>2, <1>5 DEF Begun
<1>6. CASE Request(d)
  BY <1>3, <1>6 DEF Request
<1>7. CASE FindAttempt(d) \/ FindAttemptFails(d) \/ SaveAttempt(d) \/ Upload(d) \/ Invoke(d) \/ Return(d) \/ Lost(d)
  <2>1. dpc[d] \notin {"request", "refused"} /\ UNCHANGED results
    BY <1>7 DEF FindAttempt, FindAttemptFails, SaveAttempt, Upload, Invoke, Return, Lost
  <2>2. \/ \E how : EndRemote(d, how)
        \/ Go(d, "raised") \/ Go(d, "attempt") \/ Go(d, "upload") \/ Go(d, "invoke") \/ Go(d, "wait")
    BY <1>7 DEF FindAttempt, FindAttemptFails, SaveAttempt, Upload, Invoke, Return, Lost, AcceptAnswer
  <2> QED BY <1>3, <1>4, <2>1, <2>2
<1>8. CASE DeleteLocal(d)
  BY <1>3, <1>4, <1>8 DEF DeleteLocal
<1>9. CASE RemoveLocal(d)
  <2>1. dpc[d] \notin {"request", "refused"} /\ UNCHANGED results
        /\ LocalRemoval[dpc[d]].next \in {"manifest", "directory", "removed"}
    BY <1>9 DEF RemoveLocal, LocalRemoval
  <2>2. (\E how : EndLocal(d, how)) \/ Go(d, LocalRemoval[dpc[d]].next)
    BY <1>9 DEF RemoveLocal
  <2> QED BY <1>3, <1>4, <2>1, <2>2
<1>10. CASE ObserveLocal(d) \/ ObserveRemote(d)
  BY <1>3, <1>10 DEF ObserveLocal, ObserveRemote
<1>11. CASE SaveResult(d)
  <2>1. CASE Go(d, "raised") /\ UNCHANGED results
    BY <1>3, <1>11, <2>1 DEF SaveResult
  <2>2. CASE /\ results' = [results EXCEPT ![d] = ResultOf(d)]
             /\ Go(d, "done") \/ Go(d, "cleanup")
    <3>1. /\ dpc[d] = "save" /\ dpc'[d] \in {"done", "cleanup"}
          /\ \A e \in Deletions \ {d} : dpc'[e] = dpc[e]
      BY <1>11, <2>2 DEF SaveResult, Go, DeletionInv, Typed
    <3>2. results'[d] = ResultOf(d) /\ \A e \in Deletions \ {d} : results'[e] = results[e]
      BY <2>2 DEF DeletionInv, Typed
    <3>3. ResultOf(d) # NoResult
      <4>1. ResultOf(d).state # "none"
        BY DEF ResultOf, CombinedState
      <4> QED BY <4>1 DEF NoResult
    <3> QED BY <1>2, <3>1, <3>2, <3>3 DEF Begun
  <2> QED BY <1>11, <2>1, <2>2 DEF SaveResult
<1>12. CASE Cleanup(d)
  BY <1>3, <1>12 DEF Cleanup
<1>13. CASE Crash(d)
  BY <1>3, <1>13 DEF Crash, DeletionEnds
<1>14. CASE Cancel(d) \/ RetryCleanup(d)
  BY <1>5, <1>14 DEF Cancel, RetryCleanup
<1> QED BY <1>6, <1>7, <1>8, <1>9, <1>10, <1>11, <1>12, <1>13, <1>14 DEF DeletionWorks, DeletionActs, DeletionStep

\* The steps of evidence retention.
LEMMA EvidenceCallsKeep ==
    ASSUME DeletionInv, EvidenceInv, NEW d \in Deletions, Goings,
           Execute(d) \/ Resume(d) \/ EvidenceStep(d) \/ Vanish(d)
    PROVE  EvidenceInv'
<1> USE DEF copyVars, dualVars, deletionVars, deletionRecords
<1>1. /\ UNCHANGED dpc /\ Begun(d)' = Begun(d) /\ EvidenceTyped /\ Evidenced(d)
      /\ Settled(d) => Settled(d)'
  BY DeletionsAssumption DEF Execute, Resume, EvidenceStep, RemoveLink, StopHalfWay, Complete, Vanish, Begun,
     EvidenceInv, Settled, Goings, Goes
\* The other deletions are not concerned.
<1>2. ASSUME /\ task' \in [Deletions -> Tasks \union {NoTask}]
             /\ \A e \in Deletions \ {d} : task'[e] = task[e]
             /\ executions' \in [Deletions -> Seq(Executions)]
             /\ \A e \in Deletions \ {d} : executions'[e] = executions[e]
             /\ \A e \in Deletions \ {d} : results'[e] = results[e] /\ (e \in evidence' <=> e \in evidence)
             /\ Evidenced(d)'
      PROVE  EvidenceInv'
  <2>1. ASSUME NEW e \in Deletions \ {d} PROVE Evidenced(e)'
    <3>1. dpc'[e] = dpc[e] /\ results'[e] = results[e]
      BY <1>1, <1>2
    <3>2. Begun(e)' <=> Begun(e)
      BY <3>1 DEF Begun
    <3> QED BY <1>2, <3>1, <3>2, EvidenceKeeps DEF EvidenceInv
  <2> QED BY <1>2, <2>1 DEF EvidenceInv, EvidenceTyped
\* A task begins.
<1>3. ASSUME NEW t \in Tasks, task' = [task EXCEPT ![d] = t], UNCHANGED <<executions, results, evidence>>,
             Settled(d), Begun(d), t.left \in PastManifest => d \notin evidence
      PROVE  EvidenceInv'
  <2>1. task' \in [Deletions -> Tasks \union {NoTask}] /\ task'[d] = t /\ \A e \in Deletions \ {d} : task'[e] = task[e]
    BY <1>1, <1>3 DEF EvidenceTyped
  <2>2. Evidenced(d)'
    BY <1>1, <1>3, <2>1 DEF Evidenced
  <2> QED BY <1>1, <1>2, <1>3, <2>1, <2>2 DEF EvidenceTyped
\* A task ends, with or without a record of it.
<1>4. ASSUME task[d] # NoTask, task' = [task EXCEPT ![d] = NoTask], UNCHANGED <<results, evidence>>,
             \/ UNCHANGED executions
             \/ \E x \in Executions : /\ executions' = [executions EXCEPT ![d] = Append(@, x)]
                                      /\ x.left = task[d].left
      PROVE  EvidenceInv'
  <2>1. task' \in [Deletions -> Tasks \union {NoTask}] /\ task'[d] = NoTask /\ \A e \in Deletions \ {d} : task'[e] = task[e]
    BY <1>1, <1>4 DEF EvidenceTyped
  <2>2. executions[d] \in Seq(Executions)
    BY <1>1 DEF EvidenceTyped
  <2>3. CASE UNCHANGED executions
    <3>1. Evidenced(d)'
      BY <1>1, <1>4, <2>1, <2>3 DEF Evidenced
    <3> QED BY <1>1, <1>2, <1>4, <2>1, <2>3, <3>1 DEF EvidenceTyped
  <2>4. ASSUME NEW x \in Executions, executions' = [executions EXCEPT ![d] = Append(@, x)], x.left = task[d].left
        PROVE  EvidenceInv'
    <3>1. /\ executions' \in [Deletions -> Seq(Executions)] /\ executions'[d] = Append(executions[d], x)
          /\ \A e \in Deletions \ {d} : executions'[e] = executions[e]
      BY <1>1, <2>2, <2>4 DEF EvidenceTyped
    <3>2. \A i \in DOMAIN executions'[d] : executions'[d][i] = x \/ (i \in DOMAIN executions[d]
                                                                   /\ executions'[d][i] = executions[d][i])
      BY <2>2, <3>1
    <3>3. Evidenced(d)'
      BY <1>1, <1>4, <2>1, <2>4, <3>2 DEF Evidenced
    <3> QED BY <1>1, <1>2, <1>4, <2>1, <3>1, <3>3
  <2> QED BY <1>4, <2>3, <2>4
<1>5. CASE Execute(d)
  <2> DEFINE t == [kind |-> "execute", left |-> ChainOf(d), gone |-> <<>>]
  <2>1. t \in Tasks /\ t.left \notin PastManifest
    BY ChainFacts DEF Tasks
  <2>2. Settled(d)
    BY <1>5 DEF Execute, Candidate, DeletionInv, Reported, Settled
  <2>3. Begun(d)
    BY <1>5 DEF Execute, Candidate, DeletionInv, Ordered, Begun
  <2> QED BY <1>3, <1>5, <2>1, <2>2, <2>3 DEF Execute
<1>6. CASE Resume(d)
  <2>1. PICK x \in ToSet(executions[d]) : task' = [task EXCEPT ![d] = [kind |-> "cleanup", left |-> x.left, gone |-> <<>>]]
    BY <1>6 DEF Resume
  <2>2. PICK i \in DOMAIN executions[d] : x = executions[d][i]
    BY <2>1 DEF ToSet
  <2>3. x \in Executions
    BY <1>1, <2>2 DEF EvidenceTyped
  <2> DEFINE t == [kind |-> "cleanup", left |-> x.left, gone |-> <<>>]
  <2>4. t \in Tasks
    BY <2>3 DEF Tasks, Executions
  <2>5. Settled(d) /\ Begun(d) /\ (t.left \in PastManifest => d \notin evidence)
    BY <1>1, <2>2 DEF Evidenced
  <2> QED BY <1>3, <1>6, <2>1, <2>4, <2>5 DEF Resume
<1>7. CASE RemoveLink(d)
  <2> DEFINE l == task[d].left
             t == [task[d] EXCEPT !.left = Tail(l), !.gone = Append(@, Head(l))]
  <2>1. task[d] \in Tasks /\ l # <<>> /\ l \in Chains
    BY <1>1, <1>7 DEF RemoveLink, EvidenceTyped, Tasks
  <2>2. /\ Tail(l) \in Chains /\ Head(l) \in LinkNames
        /\ Tail(l) \in PastManifest => Head(l) = "manifest" \/ l \in PastManifest
        /\ Head(l) = "deletion" => l \in PastManifest
        /\ Head(l) = "manifest" => l \notin PastManifest
    BY <2>1, ChainFacts
  <2>3. t \in Tasks /\ t.left = Tail(l)
    <3>1. task[d].gone \in Seq(LinkNames) /\ Append(task[d].gone, Head(l)) \in Seq(LinkNames)
      BY <2>1, <2>2 DEF Tasks
    <3> QED BY <2>1, <2>2, <3>1 DEF Tasks
  <2>4. task'[d] = t /\ DOMAIN task' = Deletions /\ \A e \in Deletions \ {d} : task'[e] = task[e]
    BY <1>1, <1>7 DEF RemoveLink, EvidenceTyped
  <2> HIDE DEF t
  <2>5. task' \in [Deletions -> Tasks \union {NoTask}]
    <3>1. task' = [e \in Deletions |-> task'[e]]
      BY <1>7 DEF RemoveLink, EvidenceTyped, EvidenceInv
    <3> QED BY <1>1, <2>3, <2>4, <3>1 DEF EvidenceTyped
  <2>6. /\ UNCHANGED executions
        /\ evidence' = IF Head(l) = "manifest" THEN evidence \ {d} ELSE evidence
        /\ results' = IF Head(l) = "deletion" THEN [results EXCEPT ![d] = NoResult] ELSE results
        /\ Settled(d) /\ Begun(d)
    BY <1>1, <1>7 DEF RemoveLink, Unlink, Evidenced
  <2>7. \A e \in Deletions \ {d} : results'[e] = results[e] /\ (e \in evidence' <=> e \in evidence)
    BY <2>6 DEF DeletionInv, Typed
  <2>8. l \in PastManifest => d \notin evidence
    BY <1>1, <1>7 DEF RemoveLink, Evidenced
  <2>9. task'[d].left \in PastManifest => d \notin evidence'
    BY <2>2, <2>3, <2>4, <2>6, <2>8
  <2>10. \A i \in DOMAIN executions'[d] : executions'[d][i].left \in PastManifest => d \notin evidence'
    BY <1>1, <2>6 DEF Evidenced
  <2>11. d \in evidence' /\ dpc'[d] \in {"cleanup", "done"} => results'[d] # NoResult
    BY <1>1, <2>2, <2>6, <2>8 DEF Evidenced
  <2>12. Evidenced(d)'
    BY <1>1, <2>6, <2>9, <2>10, <2>11 DEF Evidenced
  <2> QED BY <1>1, <1>2, <2>4, <2>5, <2>6, <2>7, <2>12 DEF EvidenceTyped
<1>8. ASSUME NEW state \in {"completed", "partial", "failed"}, Persist(d, state), task[d] # NoTask,
             UNCHANGED <<results, evidence>>
      PROVE  EvidenceInv'
  <2> DEFINE x == [kind |-> task[d].kind, state |-> state, gone |-> task[d].gone, left |-> task[d].left]
  <2>1. task[d] \in Tasks
    BY <1>1, <1>8 DEF EvidenceTyped
  <2>2. x \in Executions /\ x.left = task[d].left
    BY <2>1 DEF Tasks, Executions
  <2> QED BY <1>4, <1>8, <2>2 DEF Persist
<1>9. CASE StopHalfWay(d)
  BY <1>8, <1>9 DEF StopHalfWay
<1>10. CASE Complete(d)
  BY <1>8, <1>10 DEF Complete
<1>11. CASE Vanish(d)
  BY <1>4, <1>11 DEF Vanish
<1> QED BY <1>5, <1>6, <1>7, <1>9, <1>10, <1>11 DEF EvidenceStep

LEMMA EvidenceStays == DeletionInv /\ EvidenceInv /\ [Next]_vars => EvidenceInv'
<1> SUFFICES ASSUME DeletionInv, EvidenceInv, [Next]_vars PROVE EvidenceInv'
  OBVIOUS
<1> USE DEF dualVars, deletionVars, deletionRecords, evidenceVars
<1>1. Goings
  BY StepGoes DEF DeletionInv, Typed
<1>2. CASE UNCHANGED <<task, executions, evidence, results, dpc>>
  <2>1. ASSUME NEW d \in Deletions PROVE Evidenced(d)'
    BY <1>1, <1>2, EvidenceKeeps DEF EvidenceInv, Begun
  <2> QED BY <1>2, <2>1 DEF EvidenceInv, EvidenceTyped
<1>3. ASSUME NEW d \in Deletions, SaveEvidence(d), UNCHANGED <<task, executions>> PROVE EvidenceInv'
  <2>1. /\ dpc[d] = "request" /\ dpc'[d] = "remote" /\ \A e \in Deletions \ {d} : dpc'[e] = dpc[e]
        /\ evidence' = evidence \union {d} /\ UNCHANGED results
    BY <1>3 DEF SaveEvidence, Go, DeletionInv, Typed
  <2>2. Evidenced(d)'
    <3>1. task[d] = NoTask /\ \A i \in DOMAIN executions[d] : FALSE
      BY <2>1 DEF EvidenceInv, Evidenced, Begun
    <3> QED BY <1>3, <2>1, <3>1 DEF Evidenced
  <2>3. ASSUME NEW e \in Deletions \ {d} PROVE Evidenced(e)'
    <3>1. Begun(e)' <=> Begun(e)
      BY <2>1 DEF Begun
    <3> QED BY <1>1, <1>3, <2>1, <3>1, EvidenceKeeps DEF EvidenceInv
  <2> QED BY <1>3, <2>2, <2>3 DEF EvidenceInv, EvidenceTyped
<1>4. CASE DeletionNext /\ UNCHANGED <<task, executions>>
  <2>1. ASSUME NEW b \in Backups, HelperStep(b) \/ HelperDies(b)
        PROVE  UNCHANGED <<task, executions, evidence, results, dpc>>
    BY <1>4, <2>1 DEF HelperStep, HelperDies, HelperStart, HelperCheck, HelperRemove, HelperAnswer
  <2> QED BY <1>1, <1>2, <1>3, <1>4, <2>1, WorkKeepsEvidence DEF DeletionNext
<1>5. CASE EvidenceNext
  <2>1. ASSUME NEW d \in Deletions, ReconcileAgain(d) PROVE EvidenceInv'
    BY <1>2, <2>1 DEF ReconcileAgain
  <2> QED BY <1>1, <1>5, <2>1, EvidenceCallsKeep DEF EvidenceNext
<1> QED BY <1>2, <1>4, <1>5 DEF Next, vars

\* As long as anything about a deletion is in doubt its manifest can still be
\* looked up: once the remote copy may have been touched, the evidence is gone
\* only when both copies are, and goes before the result.
THEOREM EvidenceIsLastToGo == Spec => []EvidenceOutlivesDoubt
<1>1. Init => EvidenceInv
  <2> SUFFICES ASSUME Init PROVE EvidenceInv
    OBVIOUS
  <2>1. EvidenceTyped
    BY DEF Init, EvidenceInit, EvidenceTyped
  <2>2. ASSUME NEW d \in Deletions PROVE Evidenced(d)
    BY DEF Init, EvidenceInit, DualInit, Evidenced, Begun
  <2> QED BY <2>1, <2>2 DEF EvidenceInv
<1>2. EvidenceInv => EvidenceOutlivesDoubt
  BY DEF EvidenceInv, Evidenced, EvidenceOutlivesDoubt, Begun, Settled, LocalGone, RemoteGone
<1> QED BY <1>1, <1>2, EvidenceStays, DeletionsNoteWhatIs, PTL DEF Spec

----------------------------------------------------------------------------
(* The order of the backups.                                               *)

\* From the library's theorem that < is well founded on the naturals.
LEMMA LeastNatural ==
    ASSUME NEW S \in SUBSET Nat, S # {}
    PROVE  \E n \in S : \A m \in S : n <= m
<1>1. \E R : IsWellFoundedOn(R, Nat) /\ \A m, n \in Nat : m < n => <<m, n>> \in R
  <2>1. \A m, n \in Nat : m < n => <<m, n>> \in OpToRel(<, Nat)
    BY DEF OpToRel
  <2> QED BY <2>1, NatLessThanWellFounded
<1>2. PICK R : IsWellFoundedOn(R, Nat) /\ \A m, n \in Nat : m < n => <<m, n>> \in R
  BY <1>1
<1>3. PICK n \in S : \A m \in S : <<m, n>> \notin R
  <2>1. IsWellFoundedOn(R, Nat)
    BY <1>2
  <2>2. \E n \in S : \A m \in S : ~ (<<m, n>> \in R)
    BY <2>1, WFMin
  <2> QED BY <2>2
<1>4. ASSUME NEW m \in S PROVE n <= m
  <2>1. ~ (m < n)
    BY <1>2, <1>3
  <2> QED BY <2>1
<1> QED BY <1>4

\* By induction on the number of elements.
LEMMA Greatest ==
    ASSUME NEW U, IsFiniteSet(U), NEW f \in [U -> Nat], NEW S \in SUBSET U, S # {}
    PROVE  \E x \in S : \A y \in S : f[y] <= f[x]
<1> DEFINE Bad == {T \in SUBSET U : T # {} /\ ~ \E x \in T : \A y \in T : f[y] <= f[x]}
           Sizes == {Cardinality(T) : T \in Bad}
<1>1. \A T \in SUBSET U : IsFiniteSet(T) /\ Cardinality(T) \in Nat
  BY FS_Subset, FS_CardinalityType
<1>2. SUFFICES ASSUME Sizes # {} PROVE FALSE
  BY DEF Bad
<1>3. PICK k \in Sizes : \A m \in Sizes : k <= m
  <2>1. Sizes \in SUBSET Nat
    BY <1>1
  <2> QED BY <1>2, <2>1, LeastNatural
<1>4. PICK T \in Bad : k = Cardinality(T)
  BY <1>3
<1>5. PICK x \in T : TRUE
  BY <1>4
<1>6. Cardinality(T \ {x}) = k - 1 /\ k \in Nat
  BY <1>1, <1>4, <1>5, FS_RemoveElement
<1>7. T \ {x} \in SUBSET U /\ T \ {x} \notin Bad
  <2>1. T \ {x} \in SUBSET U
    BY <1>4
  <2>2. ASSUME T \ {x} \in Bad PROVE FALSE
    <3>1. k - 1 \in Sizes
      BY <1>6, <2>2
    <3> QED BY <1>3, <1>6, <3>1
  <2> QED BY <2>1, <2>2
<1>8. CASE T \ {x} = {}
  <2>1. \A y \in T : y = x
    BY <1>8
  <2>2. f[x] \in Nat
    BY <1>4, <1>5
  <2> QED BY <1>4, <1>5, <2>1, <2>2
<1>9. CASE T \ {x} # {}
  <2>1. PICK z \in T \ {x} : \A y \in T \ {x} : f[y] <= f[z]
    BY <1>7, <1>9
  <2>2. \A y \in T : f[y] \in Nat
    BY <1>4
  <2>3. (\A y \in T : f[y] <= f[z]) \/ (\A y \in T : f[y] <= f[x])
    BY <1>5, <2>1, <2>2
  <2> QED BY <1>4, <1>5, <2>1, <2>3
<1> QED BY <1>8, <1>9

LEMMA OldestIs == ASSUME NEW S \in SUBSET Backups, S # {}
                  PROVE  Oldest(S) \in S /\ \A c \in S : CreatedAt[Oldest(S)] <= CreatedAt[c]
<1> DEFINE D == {CreatedAt[b] : b \in S}
<1>1. D \in SUBSET Nat /\ D # {}
  BY CopiesAssumption
<1>2. PICK n \in D : \A m \in D : n <= m
  BY <1>1, LeastNatural
<1>3. \E b \in S : \A c \in S : CreatedAt[b] <= CreatedAt[c]
  BY <1>2
<1> QED BY <1>3 DEF Oldest

\* There is one to keep: the newest for the local store, the oldest for the other.
LEMMA LocalLastExists == Backups # {} => \E b \in Backups : LocalLast(b)
<1> SUFFICES ASSUME Backups # {} PROVE \E b \in Backups : LocalLast(b)
  OBVIOUS
<1>1. IsFiniteSet(Backups) /\ CreatedAt \in [Backups -> Nat] /\ Backups \in SUBSET Backups
  BY CopiesAssumption
<1>2. PICK b \in Backups : \A c \in Backups : CreatedAt[c] <= CreatedAt[b]
  BY <1>1, Greatest
<1> QED BY <1>1, <1>2 DEF LocalLast, Newer

LEMMA RemoteLastExists == Backups # {} => \E b \in Backups : RemoteLast(b)
<1> SUFFICES ASSUME Backups # {} PROVE \E b \in Backups : RemoteLast(b)
  OBVIOUS
<1>1. CreatedAt \in [Backups -> Nat]
  BY CopiesAssumption
<1>2. Oldest(Backups) \in Backups /\ \A c \in Backups : CreatedAt[Oldest(Backups)] <= CreatedAt[c]
  BY OldestIs
<1> QED BY <1>1, <1>2 DEF RemoteLast, Older

\* A backup is no more outdated in a shorter list, and as outdated as in the
\* whole of the backups when no newer one is missing.
LEMMA OutdatedShrinks == ASSUME NEW list \in SUBSET Backups, NEW guarded
                         PROVE  Outdated(list, guarded) \subseteq Outdated(Backups, guarded)
<1> SUFFICES ASSUME NEW b \in Outdated(list, guarded) PROVE b \in Outdated(Backups, guarded)
  OBVIOUS
<1>1. b \in list \ guarded /\ (Cardinality(Newer(list, b)) >= KeepGenerations \/ b \in Expired)
  BY DEF Outdated
<1>2. Newer(Backups, b) \in SUBSET Backups /\ Newer(list, b) \in SUBSET Newer(Backups, b)
  BY DEF Newer
<1>3. IsFiniteSet(Newer(Backups, b))
  BY <1>2, CopiesAssumption, FS_Subset
<1>4. IsFiniteSet(Newer(list, b)) /\ Cardinality(Newer(list, b)) <= Cardinality(Newer(Backups, b))
  BY <1>2, <1>3, FS_Subset
<1>5. Cardinality(Newer(list, b)) \in Nat /\ Cardinality(Newer(Backups, b)) \in Nat /\ KeepGenerations \in Nat
  BY <1>3, <1>4, FS_CardinalityType, CopiesAssumption
<1> QED BY <1>1, <1>4, <1>5 DEF Outdated

LEMMA OutdatedStays ==
    ASSUME Lasting = {}, NEW list \in SUBSET Backups, NEW b \in list, Newer(list, b) = Newer(Backups, b)
    PROVE  b \in Outdated(list, ProtectedFirst)
<1>1. b \in Outdated(Backups, ProtectedFirst)
  BY DEF Lasting
<1> QED BY <1>1 DEF Outdated

\* What each store's rule queues.
LEMMA LocalQueueIs ==
    ASSUME LocalKept, protected = ProtectedFirst
    PROVE  /\ LocalQueue(LocalList) \subseteq LocalList \ Lasting
           /\ Lasting = {} => LocalQueue(LocalList) = {b \in LocalList : ~LocalLast(b)}
<1>1. LocalList \in SUBSET Backups /\ CreatedAt \in [Backups -> Nat]
  BY CopiesAssumption DEF LocalList
<1>2. LocalQueue(LocalList) \subseteq LocalList \ Lasting
  <2>1. Outdated(LocalList, ProtectedFirst) \subseteq Outdated(Backups, ProtectedFirst)
    BY <1>1, OutdatedShrinks
  <2>2. Outdated(LocalList, ProtectedFirst) \subseteq LocalList
    BY DEF Outdated
  <2> QED BY <2>1, <2>2 DEF LocalQueue, Lasting
<1>3. ASSUME Lasting = {} PROVE LocalQueue(LocalList) = {b \in LocalList : ~LocalLast(b)}
  <2>1. ASSUME NEW b \in LocalList PROVE Newer(LocalList, b) = Newer(Backups, b)
    <3>1. ASSUME NEW c \in Backups, CreatedAt[b] < CreatedAt[c] PROVE c \in LocalList
      BY <1>1, <1>3, <2>1, <3>1 DEF LocalKept, LocalList
    <3> QED BY <1>1, <3>1 DEF Newer
  <2>2. Outdated(LocalList, protected) = LocalList
    <3>1. Outdated(LocalList, protected) \subseteq LocalList
      BY DEF Outdated
    <3>2. \A b \in LocalList : b \in Outdated(LocalList, protected)
      BY <1>1, <1>3, <2>1, OutdatedStays
    <3> QED BY <3>1, <3>2
  <2>3. LocalQueue(LocalList) = {b \in LocalList : Newer(LocalList, b) # {}}
    BY <2>2 DEF LocalQueue
  <2> QED BY <2>1, <2>3 DEF LocalLast
<1> QED BY <1>2, <1>3

LEMMA RemoteQueueIs ==
    ASSUME CopiesTyped, RemoteKept, held = ProtectedFirst, RemoteListable
    PROVE  /\ RemoteQueue(RemoteList) \subseteq RemoteList \ Lasting
           /\ Lasting = {} => RemoteQueue(RemoteList) = {b \in RemoteList : ~RemoteLast(b)}
<1>1. RemoteList \in SUBSET Backups /\ CreatedAt \in [Backups -> Nat]
  BY CopiesAssumption DEF RemoteList
<1>2. RemoteQueue(RemoteList) \subseteq RemoteList \ Lasting
  <2>1. Outdated(RemoteList, ProtectedFirst) \subseteq Outdated(Backups, ProtectedFirst)
    BY <1>1, OutdatedShrinks
  <2>2. Outdated(RemoteList, ProtectedFirst) \subseteq RemoteList
    BY DEF Outdated
  <2> QED BY <2>1, <2>2 DEF RemoteQueue, Lasting
<1>3. ASSUME Lasting = {} PROVE RemoteQueue(RemoteList) = {b \in RemoteList : ~RemoteLast(b)}
  <2> DEFINE old == Outdated(RemoteList, held)
  <2>1. \A b \in Backups : b \in RemoteList <=> ~RemoteGone(b)
    BY DEF RemoteList, RemoteListed, RemoteGone, RemoteListable
  <2>2. ASSUME NEW b \in RemoteList, ~RemoteLast(b) PROVE Newer(RemoteList, b) = Newer(Backups, b)
    <3>1. ASSUME NEW c \in Backups, CreatedAt[b] < CreatedAt[c] PROVE c \in RemoteList
      BY <1>1, <1>3, <2>1, <2>2, <3>1 DEF RemoteKept
    <3> QED BY <1>1, <3>1 DEF Newer
  <2>3. \A b \in RemoteList : ~RemoteLast(b) => b \in old
    BY <1>1, <1>3, <2>2, OutdatedStays
  <2>4. old \subseteq RemoteList
    BY DEF Outdated
  \* The oldest copy is always listed, and so the only one with none before it.
  <2>5. \A b \in Backups : RemoteLast(b) => b \in RemoteList
    BY <1>3 DEF RemoteKept, RemoteList, RemoteListed
  <2>6. ASSUME NEW b \in RemoteList PROVE Older(RemoteList, b) = {} <=> RemoteLast(b)
    <3>1. PICK o \in Backups : RemoteLast(o)
      BY <1>1, RemoteLastExists
    <3>2. o \in RemoteList /\ CreatedAt[o] <= CreatedAt[b]
      BY <1>1, <2>5, <3>1 DEF RemoteLast, Older
    <3>3. CASE o = b
      BY <1>1, <3>1, <3>3 DEF RemoteLast, Older
    <3>4. CASE o # b
      <4>1. CreatedAt[o] < CreatedAt[b]
        BY <1>1, <3>2, <3>4, CopiesAssumption
      <4> QED BY <1>1, <3>2, <4>1 DEF RemoteLast, Older
    <3> QED BY <3>3, <3>4
  <2>7. CASE old = RemoteList
    <3>1. RemoteQueue(RemoteList) = {b \in RemoteList : Older(RemoteList, b) # {}}
      BY <2>7 DEF RemoteQueue
    <3> QED BY <2>6, <3>1
  <2>8. CASE old # RemoteList
    <3>1. PICK o \in RemoteList : o \notin old
      BY <2>4, <2>8
    <3>2. RemoteLast(o)
      BY <2>3, <3>1
    <3>3. \A b \in RemoteList : RemoteLast(b) => b = o
      <4> SUFFICES ASSUME NEW b \in RemoteList, RemoteLast(b) PROVE b = o
        OBVIOUS
      <4>1. CreatedAt[o] <= CreatedAt[b] /\ CreatedAt[b] <= CreatedAt[o]
        BY <1>1, <3>2 DEF RemoteLast, Older
      <4>2. CreatedAt[o] \in Nat /\ CreatedAt[b] \in Nat /\ o \in Backups /\ b \in Backups
        BY <1>1
      <4> QED BY <4>1, <4>2, CopiesAssumption
    <3>4. RemoteQueue(RemoteList) = old
      BY <2>8 DEF RemoteQueue
    <3> QED BY <2>3, <2>4, <3>1, <3>2, <3>3, <3>4
  <2> QED BY <2>7, <2>8
<1> QED BY <1>2, <1>3

----------------------------------------------------------------------------
(* Prunes alone.                                                           *)

\* A deletion once asked for stays asked for.
LEMMA StillBegun == ASSUME Typed, [Next]_vars, NEW d \in Deletions, Begun(d) PROVE Begun(d)'
<1> USE DEF deletionVars, dualVars
<1>1. ASSUME NEW e \in Deletions, NEW next, Go(e, next), next \notin {"request", "refused"} PROVE Begun(d)'
  BY <1>1 DEF Go, Begun, Typed
<1>2. ASSUME UNCHANGED dpc PROVE Begun(d)'
  BY <1>2 DEF Begun
<1>3. ASSUME NEW e \in Deletions, DeletionWorks(e) PROVE Begun(d)'
  <2>1. ASSUME NEW how, EndRemote(e, how) \/ EndLocal(e, how) PROVE Begun(d)'
    BY <1>1, <2>1 DEF EndRemote, EndLocal
  <2>2. CASE Request(e)
    <3>1. dpc[e] = "request" /\ dpc'[d] = IF d = e THEN "refused" ELSE dpc[d]
      BY <2>2 DEF Request, Go, Typed
    <3> QED BY <3>1 DEF Begun
  <2>3. CASE SaveEvidence(e)
    BY <1>1, <2>3 DEF SaveEvidence
  <2>4. CASE FindAttempt(e) \/ FindAttemptFails(e) \/ SaveAttempt(e) \/ Upload(e) \/ Invoke(e) \/ Return(e) \/ Lost(e)
    BY <1>1, <2>1, <2>4 DEF FindAttempt, FindAttemptFails, SaveAttempt, Upload, Invoke, Return, Lost, AcceptAnswer
  <2>5. CASE DeleteLocal(e)
    BY <1>1, <2>1, <2>5 DEF DeleteLocal
  <2>6. CASE RemoveLocal(e)
    <3>1. \A phase \in DOMAIN LocalRemoval : LocalRemoval[phase].next \notin {"request", "refused"}
      BY DEF LocalRemoval
    <3> QED BY <1>1, <2>1, <2>6, <3>1 DEF RemoveLocal
  <2>7. CASE ObserveLocal(e) \/ ObserveRemote(e) \/ SaveResult(e)
    BY <1>1, <2>7 DEF ObserveLocal, ObserveRemote, SaveResult
  <2>8. CASE Cleanup(e) \/ Crash(e)
    BY <1>1, <2>8 DEF Cleanup, Crash
  <2>9. CASE Cancel(e) \/ RetryCleanup(e)
    BY <1>2, <2>9 DEF Cancel, RetryCleanup
  <2> QED BY <1>3, <2>2, <2>3, <2>4, <2>5, <2>6, <2>7, <2>8, <2>9 DEF DeletionWorks, DeletionActs, DeletionStep
<1>4. (\E b \in Backups : HelperStep(b) \/ HelperDies(b)) => UNCHANGED dpc
  BY DEF HelperStep, HelperDies, HelperStart, HelperCheck, HelperRemove, HelperAnswer
<1>5. EvidenceNext => UNCHANGED dpc
  BY DEF EvidenceNext, ReconcileAgain, Execute, Resume, EvidenceStep, RemoveLink, StopHalfWay, Complete, Vanish
<1> QED BY <1>2, <1>3, <1>4, <1>5 DEF Next, DeletionNext, vars

\* As long as no deletion was asked for, no helper of one runs, and only prunes remove.
LEMMA PrunesOnly ==
    ASSUME OnlyPrunes, HelpersIdle, [Next]_vars
    PROVE  UNCHANGED helper /\ (UNCHANGED copies \/ \E r \in Runs : RunRemove(r))
<1> USE DEF dualVars, helperVars
<1>1. ASSUME NEW d \in Deletions, DeletionWorks(d) PROVE UNCHANGED helper
  <2>1. ~Invoke(d)
    BY DEF OnlyPrunes, Invoke
  <2> QED BY <1>1, <2>1 DEF DeletionWorks, DeletionActs, DeletionStep, Request, SaveEvidence, FindAttempt,
       FindAttemptFails, SaveAttempt, Upload, Return, Lost, DeleteLocal, RemoveLocal, ObserveLocal,
       ObserveRemote, SaveResult, Cleanup, RemoveStaging, Cancel, Crash, RetryCleanup
<1>2. ASSUME NEW b \in Backups PROVE ~(HelperStep(b) \/ HelperDies(b)) /\ ~HelperRemove(b)
  <2>1. helper[b] = "none"
    BY DEF HelpersIdle
  <2> QED BY <2>1 DEF HelperStep, HelperDies, HelperStart, HelperCheck, HelperRemove, HelperAnswer,
                      HelperEnds, RemoteRemoval
<1>3. EvidenceNext => UNCHANGED helper
  BY DEF EvidenceNext, ReconcileAgain, Execute, Resume, EvidenceStep, RemoveLink, StopHalfWay, Complete, Vanish,
         attemptVars
<1>4. ASSUME NEW d \in Deletions PROVE ~RemoveLocal(d)
  BY DEF OnlyPrunes, RemoveLocal, LocalRemoval
<1>5. UNCHANGED helper
  BY <1>1, <1>2, <1>3 DEF Next, DeletionNext, vars
<1> QED BY <1>2, <1>4, <1>5, OnlyRemovals DEF Removes

\* The protection changes by the user's hand, and is remembered.
LEMMA ProtectionSteps ==
    [Next]_vars => /\ "local" \notin changed' => "local" \notin changed /\ UNCHANGED protected
                   /\ "remote" \notin changed' => "remote" \notin changed /\ UNCHANGED held
<1> USE DEF copyVars, protection
<1>1. ASSUME NEW d \in Deletions, DeletionWorks(d) PROVE UNCHANGED protection
  BY <1>1 DEF DeletionWorks, DeletionActs, DeletionStep, Request, SaveEvidence, FindAttempt, FindAttemptFails,
       SaveAttempt, Upload, Invoke, Return, Lost, DeleteLocal, RemoveLocal, ObserveLocal, ObserveRemote,
       SaveResult, Cleanup, Cancel, Crash, RetryCleanup
<1>2. ASSUME NEW b \in Backups, HelperStep(b) \/ HelperDies(b) PROVE UNCHANGED protection
  BY <1>2 DEF HelperStep, HelperDies, HelperStart, HelperCheck, HelperRemove, HelperAnswer
<1>3. EvidenceNext => UNCHANGED protection
  BY DEF EvidenceNext, ReconcileAgain, Execute, Resume, EvidenceStep, RemoveLink, StopHalfWay, Complete, Vanish
<1>4. PruneNext => UNCHANGED protection
  BY DEF PruneNext, RunStep, RunDies, RunList, RunDecide, RunRemove, RunReport, ClientStep, ClientDies, Again,
         FindTry, SaveTry, InvokePrune, ReadReport, Tidy
<1>5. ASSUME NEW b \in Backups, SetProtected(b) \/ SetHeld(b)
      PROVE  /\ "local" \notin changed' => "local" \notin changed /\ UNCHANGED protected
             /\ "remote" \notin changed' => "remote" \notin changed /\ UNCHANGED held
  BY <1>5 DEF SetProtected, SetHeld
<1> QED BY <1>1, <1>2, <1>3, <1>4, <1>5 DEF Next, DeletionNext, vars

\* One phase of a prune: it concerns the oldest of its queue, in its store.
LEMMA RunRemoveIs ==
    ASSUME CopiesTyped, RunsTyped, NEW r \in Runs, RunRemove(r)
    PROVE  LET b == Oldest(queue[r]) IN
           /\ b \in queue[r] /\ b \in Backups /\ \A c \in queue[r] : CreatedAt[b] <= CreatedAt[c]
           /\ run[r] \in DOMAIN RemovalOf(r)
           /\ r \in LocalPrunes => UNCHANGED remote /\ \A c \in Backups \ {b} : local'[c] = local[c]
           /\ r \notin LocalPrunes => UNCHANGED local /\ \A c \in Backups \ {b} : remote'[c] = remote[c]
           /\ \/ queue'[r] = queue[r]
              \/ /\ queue'[r] = queue[r] \ {b}
                 /\ IF r \in LocalPrunes THEN local'[b] = "gone" ELSE remote'[b] = "gone"
           /\ \A s \in Runs \ {r} : run'[s] = run[s] /\ queue'[s] = queue[s]
           /\ RunsTyped'
<1> DEFINE b == Oldest(queue[r])
<1>1. queue[r] \in SUBSET Backups /\ queue[r] # {} /\ run[r] \in DOMAIN RemovalOf(r)
  BY DEF RunRemove, RunsTyped
<1>2. b \in queue[r] /\ b \in Backups /\ \A c \in queue[r] : CreatedAt[b] <= CreatedAt[c]
  BY <1>1, OldestIs
<1> HIDE DEF b
<1>3. /\ DOMAIN run' = Runs /\ \A s \in Runs \ {r} : run'[s] = run[s]
      /\ UNCHANGED queue \/ queue' = [queue EXCEPT ![r] = @ \ {b}]
  BY DEF RunRemove, RunsTyped, RunAt, b
<1>4. RunsTyped' /\ \A s \in Runs \ {r} : queue'[s] = queue[s]
  BY <1>1, <1>3 DEF RunsTyped
<1>5. CASE UNCHANGED <<copies, queue>>
  BY <1>1, <1>2, <1>3, <1>4, <1>5 DEF copies, b
<1>6. CASE r \in LocalPrunes /\ LocalPhase(b, run[r]) /\ UNCHANGED remote
  <2>1. run[r] \in DOMAIN LocalRemoval
    BY <1>1, <1>6 DEF RemovalOf
  <2>2. /\ \A c \in Backups \ {b} : local'[c] = local[c]
        /\ LocalRemoval[run[r]].next = "removed" => local'[b] = "gone"
    BY <1>2, <1>6, <2>1, LocalPhaseGoes
  <2>3. \/ UNCHANGED queue
        \/ queue'[r] = queue[r] \ {b} /\ (LocalRemoval[run[r]].next = "removed" \/ UNCHANGED queue)
    BY <1>6, <1>4 DEF RunRemove, RunsTyped, RemovalOf, b
  <2> QED BY <1>1, <1>2, <1>3, <1>4, <1>6, <2>2, <2>3 DEF b
<1>7. CASE r \notin LocalPrunes /\ RemotePhase(b, run[r]) /\ UNCHANGED local
  <2>1. run[r] \in DOMAIN RemoteRemoval
    BY <1>1, <1>7 DEF RemovalOf
  <2>2. /\ \A c \in Backups \ {b} : remote'[c] = remote[c]
        /\ RemoteRemoval[run[r]].next = "removed" => remote'[b] = "gone"
    BY <1>2, <1>7, <2>1, RemotePhaseGoes
  <2>3. \/ UNCHANGED queue
        \/ queue'[r] = queue[r] \ {b} /\ (RemoteRemoval[run[r]].next = "removed" \/ UNCHANGED queue)
    BY <1>7, <1>4 DEF RunRemove, RunsTyped, RemovalOf, b
  <2> QED BY <1>1, <1>2, <1>3, <1>4, <1>7, <2>2, <2>3 DEF b
<1> QED BY <1>5, <1>6, <1>7 DEF RunRemove, b

\* Every other step leaves what a run has decided, or is its decision.
LEMMA RunsGoOn ==
    ASSUME RunsTyped, [Next]_vars, ~ \E r \in Runs : RunRemove(r)
    PROVE  /\ RunsTyped'
           /\ \A r \in Runs : run'[r] \in DOMAIN RemovalOf(r) =>
                 \/ run[r] \in DOMAIN RemovalOf(r) /\ queue'[r] = queue[r]
                 \/ Listable(r) /\ queue'[r] = QueueOf(r)
<1> DEFINE Goal == /\ RunsTyped'
                   /\ \A r \in Runs : run'[r] \in DOMAIN RemovalOf(r) =>
                         \/ run[r] \in DOMAIN RemovalOf(r) /\ queue'[r] = queue[r]
                         \/ Listable(r) /\ queue'[r] = QueueOf(r)
<1>1. CASE UNCHANGED <<run, queue>>
  BY <1>1 DEF RunsTyped
<1>2. ASSUME NEW s \in Runs, NEW next, RunAt(s, next), next \notin DOMAIN RemovalOf(s), UNCHANGED queue
      PROVE  Goal
  <2>1. DOMAIN run' = Runs /\ run'[s] = next /\ \A r \in Runs \ {s} : run'[r] = run[r]
    BY <1>2 DEF RunsTyped, RunAt
  <2> QED BY <1>2, <2>1 DEF RunsTyped
<1>3. \A s \in Runs : {"list", "decide", "failed", "ended"} \intersect DOMAIN RemovalOf(s) = {}
  BY DEF RemovalOf, LocalRemoval, RemoteRemoval
<1> HIDE DEF Goal
<1>4. ASSUME NEW s \in Runs, RunList(s) \/ RunReport(s) \/ RunDies(s) PROVE Goal
  <2>1. UNCHANGED queue /\ (RunAt(s, "decide") \/ RunAt(s, "ended"))
    BY <1>4 DEF RunList, RunReport, RunDies, Save
  <2> QED BY <1>2, <1>3, <2>1
<1>5. ASSUME NEW s \in Runs, RunDecide(s) PROVE Goal
  <2>1. CASE UNCHANGED queue /\ RunAt(s, "failed")
    BY <1>2, <1>3, <2>1
  <2>2. CASE Listable(s) /\ queue' = [queue EXCEPT ![s] = QueueOf(s)] /\ RunAt(s, "items")
    <3>1. DOMAIN run' = Runs /\ \A r \in Runs \ {s} : run'[r] = run[r]
      BY <2>2 DEF RunsTyped, RunAt
    <3>2. QueueOf(s) \in SUBSET Backups
      BY DEF QueueOf, LocalQueue, RemoteQueue, Outdated, LocalList, RemoteList
    <3>3. /\ queue' \in [Runs -> SUBSET Backups] /\ queue'[s] = QueueOf(s)
          /\ \A r \in Runs \ {s} : queue'[r] = queue[r]
      BY <2>2, <3>2 DEF RunsTyped
    <3> QED BY <2>2, <3>1, <3>3 DEF Goal, RunsTyped
  <2> QED BY <1>5, <2>1, <2>2 DEF RunDecide
<1>6. ASSUME NEW q \in RemotePrunes, InvokePrune(q) PROVE Goal
  <2>1. q \in Runs /\ UNCHANGED queue /\ (RunAt(q, "list") \/ UNCHANGED run)
    BY <1>6 DEF InvokePrune, Runs
  <2> QED BY <1>1, <1>2, <1>3, <2>1 DEF Goal
<1>7. ASSUME NEW q \in RemotePrunes, FindTry(q) \/ SaveTry(q) \/ ReadReport(q) \/ Tidy(q) \/ ClientDies(q) \/ Again(q)
      PROVE  UNCHANGED <<run, queue>>
  BY <1>7 DEF FindTry, SaveTry, ReadReport, Tidy, ClientDies, Again, runVars
<1>8. CASE PruneNext
  BY <1>1, <1>4, <1>5, <1>6, <1>7, <1>8 DEF PruneNext, RunStep, ClientStep, Goal
<1> QED BY <1>1, <1>8 DEF Next, vars, retentionVars, runVars, Goal

\* The originals: a prune takes the oldest that is left, never one that lasts
\* and never the newest.
LEMMA LocalRemoveKeeps ==
    ASSUME CopiesTyped, RunsTyped, LocalKeeps, NEW r \in Runs, RunRemove(r)
    PROVE  LocalKept' /\ \A s \in LocalPrunes : LocalDecided(s)'
<1> DEFINE b == Oldest(queue[r])
<1>1. /\ b \in queue[r] /\ b \in Backups /\ \A c \in queue[r] : CreatedAt[b] <= CreatedAt[c]
      /\ run[r] \in DOMAIN RemovalOf(r)
      /\ r \in LocalPrunes => \A c \in Backups \ {b} : local'[c] = local[c]
      /\ r \notin LocalPrunes => UNCHANGED local
      /\ \/ queue'[r] = queue[r]
         \/ queue'[r] = queue[r] \ {b} /\ (r \in LocalPrunes => local'[b] = "gone")
      /\ \A s \in Runs \ {r} : run'[s] = run[s] /\ queue'[s] = queue[s]
  BY RunRemoveIs
<1>2. Goings /\ CreatedAt \in [Backups -> Nat] /\ LocalPrunes \subseteq Runs
  BY RunRemoveGoes, CopiesAssumption DEF Runs
<1>3. LocalKept /\ \A s \in LocalPrunes : LocalDecided(s)
  BY DEF LocalKeeps
<1>4. CASE r \in LocalPrunes
  <2>1. run[r] \in DOMAIN LocalRemoval /\ queue[r] \subseteq Backups
    BY <1>1, <1>4 DEF RemovalOf, RunsTyped
  <2>2. /\ b \notin Lasting
        /\ Lasting = {} => /\ ~LocalLast(b)
                           /\ \A c \in Backups \ queue[r] : LocalListed(c) => LocalLast(c)
    BY <1>1, <1>3, <1>4, <2>1 DEF LocalDecided
  <2>3. \A c \in Backups \ {b} : LocalListed(c)' <=> LocalListed(c)
    BY <1>1, <1>4 DEF LocalListed
  <2>4. \A c \in Backups : ~LocalListed(c) => ~LocalListed(c)'
    BY <1>2 DEF Goings, Goes
  <2>5. Lasting = {} => \A c \in Backups : CreatedAt[c] < CreatedAt[b] => ~LocalListed(c)
    <3> SUFFICES ASSUME Lasting = {}, NEW c \in Backups, CreatedAt[c] < CreatedAt[b], LocalListed(c) PROVE FALSE
      OBVIOUS
    <3>1. ~LocalLast(c)
      BY <1>1 DEF LocalLast, Newer
    <3>2. c \in queue[r]
      BY <2>2, <3>1
    <3> QED BY <1>1, <1>2, <3>2
  <2>6. LocalKept'
    <3>1. \A c \in Lasting : local'[c] = "whole"
      BY <1>1, <1>3, <1>4, <2>2 DEF LocalKept, Lasting
    <3>2. ASSUME Lasting = {}, NEW c \in Backups, LocalLast(c) PROVE local'[c] = "whole"
      BY <1>1, <1>3, <1>4, <2>2, <3>2 DEF LocalKept
    <3>3. ASSUME Lasting = {}, NEW c \in Backups, NEW e \in Backups, ~LocalListed(c)', CreatedAt[e] < CreatedAt[c]
          PROVE  ~LocalListed(e)'
      BY <1>3, <2>3, <2>4, <2>5, <3>3 DEF LocalKept
    <3> QED BY <3>1, <3>2, <3>3 DEF LocalKept, Lasting, LocalLast
  <2>7. ASSUME NEW s \in LocalPrunes PROVE LocalDecided(s)'
    <3>1. CASE s # r
      <4>1. run'[s] = run[s] /\ queue'[s] = queue[s]
        BY <1>1, <1>2, <3>1
      <4> QED BY <1>3, <2>4, <4>1 DEF LocalDecided, Lasting, LocalLast
    <3>2. CASE s = r
      <4>1. queue'[r] \subseteq queue[r] /\ \A c \in queue[r] \ queue'[r] : ~LocalListed(c)'
        BY <1>1, <1>4 DEF LocalListed
      <4> QED BY <1>3, <2>1, <2>4, <3>2, <4>1 DEF LocalDecided, Lasting, LocalLast
    <3> QED BY <3>1, <3>2
  <2> QED BY <2>6, <2>7
<1>5. CASE r \notin LocalPrunes
  <2>1. UNCHANGED local /\ \A s \in LocalPrunes : run'[s] = run[s] /\ queue'[s] = queue[s]
    BY <1>1, <1>2, <1>5
  <2> QED BY <1>3, <2>1 DEF LocalKept, LocalDecided, LocalListed, Lasting, LocalLast
<1> QED BY <1>4, <1>5

\* The copies: the same, but for the oldest, which is the one to keep.
LEMMA RemoteRemoveKeeps ==
    ASSUME CopiesTyped, RunsTyped, RemoteKeeps, NEW r \in Runs, RunRemove(r)
    PROVE  RemoteKept' /\ \A s \in Runs \ LocalPrunes : RemoteDecided(s)'
<1> DEFINE b == Oldest(queue[r])
<1>1. /\ b \in queue[r] /\ b \in Backups /\ \A c \in queue[r] : CreatedAt[b] <= CreatedAt[c]
      /\ run[r] \in DOMAIN RemovalOf(r)
      /\ r \notin LocalPrunes => \A c \in Backups \ {b} : remote'[c] = remote[c]
      /\ r \in LocalPrunes => UNCHANGED remote
      /\ \/ queue'[r] = queue[r]
         \/ queue'[r] = queue[r] \ {b} /\ (r \notin LocalPrunes => remote'[b] = "gone")
      /\ \A s \in Runs \ {r} : run'[s] = run[s] /\ queue'[s] = queue[s]
  BY RunRemoveIs
<1>2. Goings /\ CreatedAt \in [Backups -> Nat]
  BY RunRemoveGoes, CopiesAssumption
<1>3. RemoteKept /\ \A s \in Runs \ LocalPrunes : RemoteDecided(s)
  BY DEF RemoteKeeps
<1>4. CASE r \notin LocalPrunes
  <2>1. run[r] \in DOMAIN RemoteRemoval /\ queue[r] \subseteq Backups
    BY <1>1, <1>4 DEF RemovalOf, RunsTyped
  <2>2. /\ b \notin Lasting
        /\ Lasting = {} => /\ ~RemoteLast(b)
                           /\ \A c \in Backups \ queue[r] : ~RemoteGone(c) => RemoteLast(c)
    BY <1>1, <1>3, <1>4, <2>1 DEF RemoteDecided
  <2>3. \A c \in Backups \ {b} : RemoteGone(c)' <=> RemoteGone(c)
    BY <1>1, <1>4 DEF RemoteGone
  <2>4. \A c \in Backups : RemoteGone(c) => RemoteGone(c)'
    BY <1>2 DEF Goings, Goes
  <2>5. Lasting = {} => \A c \in Backups : CreatedAt[c] < CreatedAt[b] /\ ~RemoteLast(c) => RemoteGone(c)
    <3> SUFFICES ASSUME Lasting = {}, NEW c \in Backups, CreatedAt[c] < CreatedAt[b], ~RemoteLast(c), ~RemoteGone(c)
                 PROVE  FALSE
      OBVIOUS
    <3>1. c \in queue[r]
      BY <2>2
    <3> QED BY <1>1, <1>2, <3>1
  <2>6. RemoteKept'
    <3>1. \A c \in Lasting : remote'[c] = "whole"
      BY <1>1, <1>3, <1>4, <2>2 DEF RemoteKept, Lasting
    <3>2. ASSUME Lasting = {}, NEW c \in Backups, RemoteLast(c) PROVE remote'[c] = "whole"
      BY <1>1, <1>3, <1>4, <2>2, <3>2 DEF RemoteKept
    <3>3. ASSUME Lasting = {}, NEW c \in Backups, NEW e \in Backups, RemoteGone(c)', CreatedAt[e] < CreatedAt[c],
                 ~RemoteLast(e)
          PROVE  RemoteGone(e)'
      BY <1>3, <2>3, <2>4, <2>5, <3>3 DEF RemoteKept
    <3> QED BY <3>1, <3>2, <3>3 DEF RemoteKept, Lasting, RemoteLast
  <2>7. ASSUME NEW s \in Runs \ LocalPrunes PROVE RemoteDecided(s)'
    <3>1. CASE s # r
      <4>1. run'[s] = run[s] /\ queue'[s] = queue[s]
        BY <1>1, <3>1
      <4> QED BY <1>3, <2>4, <4>1 DEF RemoteDecided, Lasting, RemoteLast
    <3>2. CASE s = r
      <4>1. queue'[r] \subseteq queue[r] /\ \A c \in queue[r] \ queue'[r] : RemoteGone(c)'
        BY <1>1, <1>4 DEF RemoteGone
      <4> QED BY <1>3, <1>4, <2>1, <2>4, <3>2, <4>1 DEF RemoteDecided, Lasting, RemoteLast
    <3> QED BY <3>1, <3>2
  <2> QED BY <2>6, <2>7
<1>5. CASE r \in LocalPrunes
  <2>1. UNCHANGED remote /\ \A s \in Runs \ LocalPrunes : run'[s] = run[s] /\ queue'[s] = queue[s]
    BY <1>1, <1>5
  <2> QED BY <1>3, <2>1 DEF RemoteKept, RemoteDecided, RemoteGone, Lasting, RemoteLast
<1> QED BY <1>4, <1>5

LEMMA LocalKeepsStays ==
    ASSUME CopiesTyped, RunsTyped, LocalKeeps, OnlyPrunes, HelpersIdle, [Next]_vars, UNCHANGED protected
    PROVE  LocalKeeps'
<1>1. protected' = ProtectedFirst
  BY DEF LocalKeeps
<1>2. CASE \E r \in Runs : RunRemove(r)
  BY <1>1, <1>2, LocalRemoveKeeps DEF LocalKeeps
<1>3. CASE ~ \E r \in Runs : RunRemove(r)
  <2>1. UNCHANGED local
    BY <1>3, PrunesOnly DEF copies
  <2>2. LocalKept'
    BY <2>1 DEF LocalKeeps, LocalKept, LocalListed, Lasting, LocalLast
  <2>3. ASSUME NEW r \in LocalPrunes PROVE LocalDecided(r)'
    <3>1. r \in Runs /\ RemovalOf(r) = LocalRemoval /\ LocalDecided(r) /\ LocalKept /\ protected = ProtectedFirst
      BY DEF Runs, RemovalOf, LocalKeeps
    <3>2. run'[r] \in DOMAIN LocalRemoval =>
             \/ run[r] \in DOMAIN LocalRemoval /\ queue'[r] = queue[r]
             \/ queue'[r] = LocalQueue(LocalList)
      BY <1>3, <3>1, RunsGoOn DEF QueueOf
    <3>3. CASE run[r] \in DOMAIN LocalRemoval /\ queue'[r] = queue[r]
      BY <2>1, <3>1, <3>3 DEF LocalDecided, LocalListed, Lasting, LocalLast
    <3>4. CASE queue'[r] = LocalQueue(LocalList)
      <4>1. /\ LocalQueue(LocalList) \subseteq LocalList \ Lasting
            /\ Lasting = {} => LocalQueue(LocalList) = {b \in LocalList : ~LocalLast(b)}
        BY <3>1, LocalQueueIs
      <4>2. \A b \in Backups : LocalListed(b)' => b \in LocalList
        BY <2>1 DEF LocalListed, LocalList
      <4> QED BY <3>4, <4>1, <4>2 DEF LocalDecided, Lasting, LocalLast
    <3> QED BY <3>2, <3>3, <3>4 DEF LocalDecided
  <2> QED BY <1>1, <2>2, <2>3 DEF LocalKeeps
<1> QED BY <1>2, <1>3

LEMMA RemoteKeepsStays ==
    ASSUME CopiesTyped, RunsTyped, RemoteKeeps, OnlyPrunes, HelpersIdle, [Next]_vars, UNCHANGED held
    PROVE  RemoteKeeps'
<1>1. held' = ProtectedFirst
  BY DEF RemoteKeeps
<1>2. CASE \E r \in Runs : RunRemove(r)
  BY <1>1, <1>2, RemoteRemoveKeeps DEF RemoteKeeps
<1>3. CASE ~ \E r \in Runs : RunRemove(r)
  <2>1. UNCHANGED remote
    BY <1>3, PrunesOnly DEF copies
  <2>2. RemoteKept'
    BY <2>1 DEF RemoteKeeps, RemoteKept, RemoteGone, Lasting, RemoteLast
  <2>3. ASSUME NEW r \in Runs \ LocalPrunes PROVE RemoteDecided(r)'
    <3>1. r \in Runs /\ RemovalOf(r) = RemoteRemoval /\ RemoteDecided(r) /\ RemoteKept /\ held = ProtectedFirst
      BY DEF RemovalOf, RemoteKeeps
    <3>2. run'[r] \in DOMAIN RemoteRemoval =>
             \/ run[r] \in DOMAIN RemoteRemoval /\ queue'[r] = queue[r]
             \/ RemoteListable /\ queue'[r] = RemoteQueue(RemoteList)
      BY <1>3, <3>1, RunsGoOn DEF QueueOf, Listable
    <3>3. CASE run[r] \in DOMAIN RemoteRemoval /\ queue'[r] = queue[r]
      BY <2>1, <3>1, <3>3 DEF RemoteDecided, RemoteGone, Lasting, RemoteLast
    <3>4. CASE RemoteListable /\ queue'[r] = RemoteQueue(RemoteList)
      <4>1. /\ RemoteQueue(RemoteList) \subseteq RemoteList \ Lasting
            /\ Lasting = {} => RemoteQueue(RemoteList) = {b \in RemoteList : ~RemoteLast(b)}
        BY <3>1, <3>4, RemoteQueueIs
      <4>2. \A b \in Backups : ~RemoteGone(b)' => b \in RemoteList
        BY <2>1 DEF RemoteGone, RemoteListed, RemoteList
      <4> QED BY <3>4, <4>1, <4>2 DEF RemoteDecided, Lasting, RemoteLast
    <3> QED BY <3>2, <3>3, <3>4 DEF RemoteDecided
  <2> QED BY <1>1, <2>2, <2>3 DEF RemoteKeeps
<1> QED BY <1>2, <1>3

LEMMA PruneStays == DeletionInv /\ PruneInv /\ [Next]_vars => PruneInv'
<1> SUFFICES ASSUME DeletionInv, PruneInv, [Next]_vars PROVE PruneInv'
  OBVIOUS
<1>1. CopiesTyped /\ RunsTyped /\ HelpersIdle
  BY DEF PruneInv
<1>2. CopiesTyped'
  BY <1>1, StepGoes DEF Goings
<1>3. RunsTyped'
  BY <1>1, RunsGoOn, RunRemoveIs
<1>4. OnlyPrunes' => OnlyPrunes
  <2>1. ASSUME NEW d \in Deletions, Begun(d) PROVE Begun(d)'
    BY <2>1, StillBegun DEF DeletionInv
  <2> QED BY <2>1 DEF OnlyPrunes, Begun
<1>5. HelpersIdle'
  BY <1>1, <1>4, PrunesOnly DEF HelpersIdle
<1>6. OnlyPrunes' /\ "local" \notin changed' => LocalKeeps'
  BY <1>1, <1>4, ProtectionSteps, LocalKeepsStays DEF PruneInv
<1>7. OnlyPrunes' /\ "remote" \notin changed' => RemoteKeeps'
  BY <1>1, <1>4, ProtectionSteps, RemoteKeepsStays DEF PruneInv
<1> QED BY <1>2, <1>3, <1>5, <1>6, <1>7 DEF PruneInv

LEMMA PruneBegins == Init => PruneInv
<1> SUFFICES ASSUME Init PROVE PruneInv
  OBVIOUS
<1> USE DEF Init, CopiesInit, DualInit, RetentionInit
<1>1. CopiesTyped
  BY DEF CopiesTyped, LocalStates, RemoteStates
<1>2. RunsTyped /\ HelpersIdle
  BY DEF RunsTyped, HelpersIdle
<1>3. \A r \in Runs : run[r] \notin DOMAIN LocalRemoval /\ run[r] \notin DOMAIN RemoteRemoval
  BY DEF LocalRemoval, RemoteRemoval
<1>4. LocalKept /\ RemoteKept
  BY DEF LocalKept, RemoteKept, LocalListed, RemoteGone, Lasting
<1>5. LocalKeeps
  BY <1>3, <1>4 DEF LocalKeeps, LocalDecided, Runs
<1>6. RemoteKeeps
  BY <1>3, <1>4 DEF RemoteKeeps, RemoteDecided
<1> QED BY <1>1, <1>2, <1>5, <1>6 DEF PruneInv

\* Prunes alone never take the last backup of a store, however many of them
\* meet, overtake one another, fail or die, as long as no protection changes
\* between their decisions.
THEOREM PrunesLeaveOne == ASSUME Backups # {} PROVE Spec => []PrunesKeepOne
<1>1. PruneInv => PrunesKeepOne
  <2> SUFFICES ASSUME PruneInv, OnlyPrunes
               PROVE  /\ "local" \notin changed => \E b \in Backups : local[b] = "whole"
                      /\ "remote" \notin changed => \E b \in Backups : remote[b] = "whole"
    BY DEF PrunesKeepOne, OnlyPrunes
  <2>1. Lasting \subseteq Backups
    BY DEF Lasting
  <2>2. ASSUME LocalKept PROVE \E b \in Backups : local[b] = "whole"
    BY <2>1, <2>2, LocalLastExists DEF LocalKept
  <2>3. ASSUME RemoteKept PROVE \E b \in Backups : remote[b] = "whole"
    BY <2>1, <2>3, RemoteLastExists DEF RemoteKept
  <2> QED BY <2>2, <2>3 DEF PruneInv, LocalKeeps, RemoteKeeps
<1> QED BY <1>1, PruneBegins, PruneStays, DeletionsNoteWhatIs, PTL DEF Spec
=============================================================================
