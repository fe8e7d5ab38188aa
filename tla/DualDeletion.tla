---------------------------- MODULE DualDeletion ----------------------------
(***************************************************************************)
(* The deletion of both copies of a backup on the user's request:          *)
(* CoordinatedBackupDeletion.delete (infrastructure/backup_deletion.py),   *)
(* OpenSshRemoteDeletionPort with its attempts                             *)
(* (openssh_remote_deletion.py), RemoteDeletionHelperExecutor in the       *)
(* process on the remote host (remote_deletion.py), and the stores of      *)
(* manifest evidence and results.                                          *)
(*                                                                         *)
(* Several deletions may be asked for, also of one backup: the identity of *)
(* the remote request comes from the manifest, so all of them share one    *)
(* attempt, one staging directory and one helper.  The helper goes on when *)
(* the connection is lost.  "expired" requests and helpers that never      *)
(* start are one: no answer ever comes.                                    *)
(***************************************************************************)
EXTENDS BackupCopies

CONSTANTS Deletions,  \* requests of the user
          BackupOf    \* the backup of each

ASSUME DeletionsAssumption == BackupOf \in [Deletions -> Backups]

VARIABLES
    dpc,        \* per deletion: the call that comes next
    outcome,    \* its remote_outcome and local_outcome
    seen,       \* its BackupCopyReconciliation
    cancelled,  \* deletions whose CancellationToken is set
    evidence,   \* deletions whose manifest evidence is on the disk
    results,    \* the BackupDeletionResult on the disk, or NoResult
    attempts,   \* backups with a remote deletion attempt on the disk
    cleaned,    \* attempts marked cleaned
    staged,     \* backups with request.json in the remote staging directory
    answer,     \* result.json of each staging directory, or "none"
    helper,     \* per backup: where its deletion helper is
    sent        \* history: helper invocations per backup

deletionVars == <<dpc, outcome, seen, cancelled>>
deletionRecords == <<evidence, results>>
attemptVars == <<attempts, cleaned>>
helperVars == <<staged, answer, helper, sent>>
dualVars == <<deletionVars, deletionRecords, attemptVars, helperVars>>

NoResult == [state |-> "none"]
Untouched == [remote |-> "not_attempted", local |-> "not_attempted"]
Unseen == [local |-> "unknown", remote |-> "unknown"]
CopyOutcomes == {"deleted", "already_absent", "failed", "not_attempted", "unknown"}
Answers == {"deleted", "already_absent", "failed", "unknown"}
DeletionEnds == {"done", "raised", "refused", "crashed"}
HelperEnds == {"none", "ended"}

DualInit == /\ dpc = [d \in Deletions |-> "request"] /\ outcome = [d \in Deletions |-> Untouched]
            /\ seen = [d \in Deletions |-> Unseen] /\ cancelled = {}
            /\ evidence = {} /\ results = [d \in Deletions |-> NoResult]
            /\ attempts = {} /\ cleaned = {} /\ staged = {}
            /\ answer = [b \in Backups |-> "none"] /\ helper = [b \in Backups |-> "none"]
            /\ sent = [b \in Backups |-> 0]

Go(d, next) == dpc' = [dpc EXCEPT ![d] = next]
EndRemote(d, how) == /\ outcome' = [outcome EXCEPT ![d].remote = how]
                     /\ Go(d, IF how \in {"deleted", "already_absent"} THEN "local" ELSE "observe_local")
EndLocal(d, how) == /\ outcome' = [outcome EXCEPT ![d].local = how] /\ Go(d, "observe_local")

----------------------------------------------------------------------------
(* CoordinatedBackupDeletion.delete.                                       *)

\* _validate_request, then BackupManifestEvidenceStore.save: before anything
\* is removed.  The caller has the manifest from the list.
Request(d) == LET b == BackupOf[d] IN
    /\ dpc[d] = "request" /\ LocalListed(b)
    /\ \/ b \in protected \/ d \in cancelled
       \/ MayHappen
    /\ Go(d, "refused")
    /\ IF b \in protected \/ d \in cancelled THEN UNCHANGED events ELSE Happens
    /\ UNCHANGED <<outcome, seen, cancelled, deletionRecords, attemptVars, helperVars,
                   copies, protection>>

SaveEvidence(d) == LET b == BackupOf[d] IN
    /\ dpc[d] = "request" /\ LocalListed(b) /\ b \notin protected /\ d \notin cancelled
    /\ evidence' = evidence \union {d} /\ Go(d, "remote")
    /\ UNCHANGED <<outcome, seen, cancelled, results, attemptVars, helperVars, copyVars>>

\* Mutant of AcceptAnswer: any answer means that the helper has run.
AcceptAnyAnswer(d, a) == EndRemote(d, IF a = "none" THEN "failed" ELSE "deleted")

\* OpenSshRemoteDeletionPort.delete, up to the attempt: an attempt that is
\* there is only read again, and its loss of an answer is an AdapterError.
AcceptAnswer(d, a) == EndRemote(d, CASE a \in {"deleted", "already_absent"} -> "deleted"
                                     [] a = "unknown" -> "unknown"
                                     [] OTHER -> "failed")

FindAttempt(d) == LET b == BackupOf[d] IN
    /\ dpc[d] = "remote"
    /\ CASE d \in cancelled -> (Go(d, "raised") /\ UNCHANGED outcome) \/ EndRemote(d, "unknown")
         [] d \notin cancelled /\ b \in attempts -> AcceptAnswer(d, answer[b])
         [] d \notin cancelled /\ b \notin attempts ->
              CASE LoadReceipt(b) = "present" -> Go(d, "attempt") /\ UNCHANGED outcome
                [] LoadReceipt(b) = "absent" -> EndRemote(d, "already_absent")
                [] OTHER -> EndRemote(d, "failed")
    /\ UNCHANGED <<seen, cancelled, deletionRecords, attemptVars, helperVars, copyVars>>

\* The connection fails under the read of an answer or of the receipt.
FindAttemptFails(d) == /\ dpc[d] = "remote" /\ d \notin cancelled /\ MayHappen
                       /\ EndRemote(d, "failed") /\ Happens
                       /\ UNCHANGED <<seen, cancelled, deletionRecords, attemptVars, helperVars,
                                      copies, protection>>

\* RemoteDeletionAttemptStore.save refuses the attempt of another request.
SaveAttempt(d) == LET b == BackupOf[d] IN
    /\ dpc[d] = "attempt"
    /\ IF b \in attempts THEN EndRemote(d, "failed") /\ UNCHANGED attempts
       ELSE Go(d, "upload") /\ attempts' = attempts \union {b} /\ UNCHANGED outcome
    /\ UNCHANGED <<seen, cancelled, deletionRecords, cleaned, helperVars, copyVars>>

\* The request is put in the staging directory; the token is asked after it.
Upload(d) == LET b == BackupOf[d] IN
    /\ dpc[d] = "upload"
    /\ \/ /\ staged' = staged \union {b} /\ UNCHANGED events
          /\ IF d \in cancelled THEN EndRemote(d, "unknown") ELSE Go(d, "invoke") /\ UNCHANGED outcome
       \/ MayHappen /\ Happens /\ EndRemote(d, "failed") /\ UNCHANGED staged
    /\ UNCHANGED <<seen, cancelled, deletionRecords, attemptVars, answer, helper, sent,
                   copies, protection>>

\* OpenSshRemoteDeletionInvoker.invoke.
Invoke(d) == LET b == BackupOf[d] IN
    /\ dpc[d] = "invoke"
    /\ IF d \in cancelled THEN EndRemote(d, "unknown") /\ UNCHANGED <<helper, sent>>
       ELSE /\ helper' = [helper EXCEPT ![b] = "started"] /\ sent' = [sent EXCEPT ![b] = @ + 1]
            /\ Go(d, "wait") /\ UNCHANGED outcome
    /\ UNCHANGED <<seen, cancelled, deletionRecords, attemptVars, staged, answer, copyVars>>

\* The helper has come to its end.  An exit without an answer is an error
\* of the invocation and is raised: an AdapterError.
Return(d) == LET b == BackupOf[d] IN
    /\ dpc[d] = "wait" /\ helper[b] = "ended" /\ AcceptAnswer(d, answer[b])
    /\ UNCHANGED <<seen, cancelled, deletionRecords, attemptVars, helperVars, copyVars>>

\* invoke raises while the helper goes on, or the answer cannot be read:
\* a timeout or a lost connection is an AdapterError; a cancel, an OSError
\* and an unreadable answer of a helper that ended well are not.
Lost(d) == LET b == BackupOf[d] IN
    /\ dpc[d] = "wait"
    /\ \/ d \in cancelled /\ EndRemote(d, "unknown") /\ UNCHANGED events
       \/ MayHappen /\ Happens /\ AcceptAnswer(d, answer[b])
       \/ MayHappen /\ Happens /\ EndRemote(d, "unknown")
    /\ UNCHANGED <<seen, cancelled, deletionRecords, attemptVars, helperVars,
                   copies, protection>>

\* LocalBackupStore.delete, only after the remote copy.
DeleteLocal(d) == LET b == BackupOf[d] IN
    /\ dpc[d] = "local"
    /\ CASE d \in cancelled -> EndLocal(d, "not_attempted")
         [] d \notin cancelled /\ local[b] = "gone" -> EndLocal(d, "already_absent")
         [] d \notin cancelled /\ local[b] # "gone" /\ ~LocalVerifies(b) -> EndLocal(d, "failed")
         [] d \notin cancelled /\ LocalVerifies(b) -> Go(d, "items") /\ UNCHANGED outcome
    /\ UNCHANGED <<seen, cancelled, deletionRecords, attemptVars, helperVars, copyVars>>

RemoveLocal(d) == LET b == BackupOf[d] IN
    /\ dpc[d] \in DOMAIN LocalRemoval
    /\ \/ /\ LocalPhase(b, dpc[d]) /\ UNCHANGED events
          /\ LET next == LocalRemoval[dpc[d]].next
             IN  IF next = "removed" THEN EndLocal(d, "deleted") ELSE Go(d, next) /\ UNCHANGED outcome
       \/ /\ LocalPhaseRaises(b, dpc[d])
          /\ EndLocal(d, IF dpc[d] = "items" THEN "failed" ELSE "unknown")
          /\ UNCHANGED <<local, events>>
       \/ MayHappen /\ Happens /\ EndLocal(d, "unknown") /\ UNCHANGED local
    /\ UNCHANGED <<seen, cancelled, deletionRecords, attemptVars, helperVars,
                   remote, protection>>

\* _reconcile: DualCopyDeletionReconciler looks at the original first.
ObserveLocal(d) == LET b == BackupOf[d] IN
    /\ dpc[d] = "observe_local"
    /\ IF d \in cancelled THEN Go(d, "save") /\ UNCHANGED seen
       ELSE Go(d, "observe_remote") /\ seen' = [seen EXCEPT ![d].local = ObservedLocal(b)]
    /\ UNCHANGED <<outcome, cancelled, deletionRecords, attemptVars, helperVars, copyVars>>

\* OperationCancelled passes both except clauses and leaves delete.
ObserveRemote(d) == LET b == BackupOf[d] IN
    /\ dpc[d] = "observe_remote"
    /\ \/ d \in cancelled /\ Go(d, "raised") /\ UNCHANGED <<seen, events>>
       \/ /\ d \notin cancelled /\ Go(d, "save")
          /\ \/ seen' = [seen EXCEPT ![d].remote = LoadReceipt(b)] /\ UNCHANGED events
             \/ MayHappen /\ Happens /\ UNCHANGED seen
    /\ UNCHANGED <<outcome, cancelled, deletionRecords, attemptVars, helperVars,
                   copies, protection>>

\* requires_attention of the result.
Attention(o, state) == \/ state \notin {"both_available", "both_deleted"}
                       \/ o.remote \in {"failed", "unknown"}
                       \/ o.local \in {"failed", "not_attempted", "unknown"}

ResultOf(d) == LET state == CombinedState(seen[d].local, seen[d].remote)
               IN  [state |-> state, remote |-> outcome[d].remote, local |-> outcome[d].local,
                    attention |-> Attention(outcome[d], state)]

\* _validate_result.
ValidResult(r) == /\ r.remote \in CopyOutcomes \ {"not_attempted"} /\ r.local \in CopyOutcomes
                  /\ r.attention = Attention(r, r.state)

SaveResult(d) ==
    /\ dpc[d] = "save"
    /\ \/ /\ ValidResult(ResultOf(d)) /\ results' = [results EXCEPT ![d] = ResultOf(d)]
          /\ Go(d, IF outcome[d].remote = "unknown" THEN "done" ELSE "cleanup") /\ UNCHANGED events
       \/ MayHappen /\ Happens /\ Go(d, "raised") /\ UNCHANGED results
    /\ UNCHANGED <<outcome, seen, cancelled, evidence, attemptVars, helperVars,
                   copies, protection>>

\* OpenSshRemoteDeletionPort.cleanup: the answer must still be readable.
\* remove_private_tree and mark_cleaned can each fail.
RemoveStaging(b) == /\ b \in attempts /\ answer[b] # "none"
                    /\ staged' = staged \ {b} /\ answer' = [answer EXCEPT ![b] = "none"]
                    /\ \/ cleaned' = cleaned \union {b} /\ UNCHANGED events
                       \/ MayHappen /\ Happens /\ UNCHANGED cleaned
                    /\ UNCHANGED <<attempts, helper, sent>>

Cleanup(d) == LET b == BackupOf[d] IN
    /\ dpc[d] = "cleanup" /\ Go(d, "done")
    /\ \/ d \notin cancelled /\ RemoveStaging(b)
       \/ /\ d \in cancelled \/ b \notin attempts \/ answer[b] = "none"
          /\ UNCHANGED <<attemptVars, helperVars, events>>
       \/ MayHappen /\ Happens /\ UNCHANGED <<attemptVars, helperVars>>
    /\ UNCHANGED <<outcome, seen, cancelled, deletionRecords, copies, protection>>

----------------------------------------------------------------------------
(* RemoteDeletionHelperExecutor.execute and delete_bound, as root.         *)

HelperAt(b, next) == helper' = [helper EXCEPT ![b] = next]
HelperEnd(b, a) == /\ answer' = [answer EXCEPT ![b] = a] /\ HelperAt(b, "ended")

HelperStart(b) == /\ helper[b] = "started"
                  /\ HelperAt(b, IF b \in staged /\ answer[b] = "none" THEN "check" ELSE "ended")
                  /\ UNCHANGED <<deletionVars, deletionRecords, attemptVars, staged, answer, sent, copyVars>>

\* Receipt, retention record and every item are read before the first unlink.
HelperCheck(b) ==
    /\ helper[b] = "check"
    /\ CASE remote[b] \in {"husk", "gone"} -> HelperEnd(b, "already_absent")
         [] remote[b] = "stripped" -> HelperEnd(b, "failed")
         [] remote[b] = "damaged" -> HelperEnd(b, IF b \in held THEN "failed" ELSE "unknown")
         [] remote[b] = "whole" -> IF b \in held THEN HelperEnd(b, "failed")
                                   ELSE HelperAt(b, "items") /\ UNCHANGED answer
    /\ UNCHANGED <<deletionVars, deletionRecords, attemptVars, staged, sent, copyVars>>

HelperRemove(b) ==
    /\ helper[b] \in DOMAIN RemoteRemoval
    /\ \/ /\ RemotePhase(b, helper[b]) /\ HelperAt(b, RemoteRemoval[helper[b]].next)
          /\ UNCHANGED <<answer, events>>
       \/ /\ RemotePhaseRaises(b, helper[b])
          /\ HelperEnd(b, IF helper[b] = "items" THEN "failed" ELSE "unknown")
          /\ UNCHANGED <<remote, events>>
       \/ MayHappen /\ Happens /\ HelperEnd(b, "unknown") /\ UNCHANGED remote
    /\ UNCHANGED <<deletionVars, deletionRecords, attemptVars, staged, sent, local, protection>>

HelperAnswer(b) == /\ helper[b] = "removed" /\ HelperEnd(b, "deleted")
                   /\ UNCHANGED <<deletionVars, deletionRecords, attemptVars, staged, sent, copyVars>>

HelperDies(b) == /\ MayHappen /\ helper[b] \notin HelperEnds /\ HelperAt(b, "ended") /\ Happens
                 /\ UNCHANGED <<deletionVars, deletionRecords, attemptVars, staged, answer, sent,
                                copies, protection>>

HelperStep(b) == HelperStart(b) \/ HelperCheck(b) \/ HelperRemove(b) \/ HelperAnswer(b)

----------------------------------------------------------------------------
Cancel(d) == /\ MayHappen /\ d \notin cancelled /\ dpc[d] \notin DeletionEnds \union {"request"}
             /\ cancelled' = cancelled \union {d} /\ Happens
             /\ UNCHANGED <<dpc, outcome, seen, deletionRecords, attemptVars, helperVars,
                            copies, protection>>

Crash(d) == /\ MayHappen /\ dpc[d] \notin DeletionEnds \union {"request"}
            /\ Go(d, "crashed") /\ Happens
            /\ UNCHANGED <<outcome, seen, cancelled, deletionRecords, attemptVars, helperVars,
                           copies, protection>>

\* The steps after the request, which the user does not start.
DeletionStep(d) == \/ FindAttempt(d) \/ FindAttemptFails(d) \/ SaveAttempt(d) \/ Upload(d)
                   \/ Invoke(d) \/ Return(d) \/ Lost(d) \/ DeleteLocal(d) \/ RemoveLocal(d)
                   \/ ObserveLocal(d) \/ ObserveRemote(d) \/ SaveResult(d) \/ Cleanup(d)
=============================================================================
