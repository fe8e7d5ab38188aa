------------------------ MODULE PrivilegedApplyProofs -----------------------
(***************************************************************************)
(* Theorems about PrivilegedApply, for any contents, any number of edits   *)
(* and reloads by an administrator, and whatever fails: recovery is always *)
(* prepared before a helper writes.  As long as a helper's write does not  *)
(* fail after it replaced the file (LateReplace is FALSE), what the user   *)
(* is told is so, also afterwards, and the route implements ApplyContract. *)
(*                                                                         *)
(* The argument: only the apply helper gives the file the approved content *)
(* (EditsAssumption), and it does so once.  The rollback helper writes     *)
(* only when it finds that content under the lock; by then the apply       *)
(* helper has written and let go of the lock, so it writes no more.        *)
(***************************************************************************)
EXTENDS PrivilegedApply, TLAPS

----------------------------------------------------------------------------
(* Where the coordinator is.                                               *)

Unsaved  == {"approved_audit", "ready", "create_backup"}
Unopened == Unsaved \union {"verify_backup", "unverified_audit", "verified_audit", "ready_again",
                            "prepare", "open_journal"}
Uninvoked == Unopened \union {"invoke"}
Refused   == {"not_started", "not_started_audit", "not_started_close", "not_applied",
              "not_applied_close"}
Passed    == {"mark_validating", "validate", "commit_audit", "commit_journal"}
Forward   == Uninvoked \union {"wait"} \union Refused \union Passed
             \union {"rb_journal", "rb_prepare", "rb_bind", "rb_invoke"}

----------------------------------------------------------------------------
(* The inductive invariant, by concern.                                    *)

LockedStages == {"locked", "verified", "captured", "reverified", "written", "reloaded"}
Rewritten == {"written", "reloaded", "reporting", "exited"}
Unwritten == {"none", "auth", "started", "claimed", "locked", "verified", "captured", "reverified"}

\* The lock is held exactly in the steps between flock and the results.
LockInv == \A k \in Requests : helper[k].at \in LockedStages <=> lock = k

\* Results and receipts follow the steps of a helper.
StageInv ==
    /\ helper["rollback"].at \notin {"captured", "reverified"}
    /\ \A k \in Requests :
        /\ helper[k].result # "none" => helper[k].at \in {"reporting", "exited"}
        /\ helper[k].at = "reporting" => helper[k].result \in {"first", "later", "passed"}
        /\ helper[k].at \in {"none", "auth", "started"} => receipt[k] = "none"
        /\ helper[k].at = "exited" /\ helper[k].result = "passed" => receipt[k] = "completed"

\* The approved content is in the file exactly while the apply wrote it last.
FileInv ==
    /\ snap # After
    /\ file = After <=> writer = "apply"
    /\ writer = "restore" => file = snap
    /\ writer = "editor" => edits # 0
    /\ writer = "none" => file = Before
    /\ edits = 0 => snap = Before
    /\ writer = "apply" => helper["apply"].at \in Rewritten
    /\ writer = "restore" => helper["rollback"].at \in Rewritten

\* The rollback has come past its check of the file.
Restoring == \/ helper["rollback"].at \in {"verified", "written", "reloaded"}
             \/ helper["rollback"].result \in {"later", "passed"}
             \/ writer = "restore"

\* Who can have written, by the steps of the helpers.
WroteInv ==
    /\ helper["apply"].at \in Unwritten \/ helper["apply"].result \in {"first", "denied"} =>
           writer \in {"none", "editor"}
    /\ helper["apply"].at \in {"written", "reloaded"} \/ helper["apply"].result \in {"later", "passed"} =>
           writer # "none"
    /\ Restoring => /\ helper["apply"].at \in {"reporting", "exited"}
                    /\ helper["apply"].result \notin {"first", "denied"}
    /\ helper["rollback"].at \in {"written", "reloaded"} \/ helper["rollback"].result \in {"later", "passed"} =>
           writer \in {"restore", "editor"}

\* While nobody interferes, systemd and the service follow the file.
ServiceInv ==
    edits = 0 =>
        /\ writer = "none" => loaded = Before /\ running = Before
        /\ writer = "apply" =>
               /\ helper["apply"].at = "reloaded" => loaded = After
               /\ helper["apply"].result = "passed" => loaded = After /\ running = After
        /\ writer = "restore" =>
               /\ helper["rollback"].at = "reloaded" => loaded = snap
               /\ helper["rollback"].result = "passed" => loaded = snap /\ running = snap

\* What is on the disk before a helper is started, and before it writes.
RecordInv ==
    /\ pc \notin Unsaved \union {"done", "crashed"} => backup = "complete"
    /\ pc \notin Unopened \union {"done", "crashed"} => journal # "none"
    /\ \A k \in Requests : helper[k].at # "none" => backup = "complete" /\ journal # "none"
    /\ helper["apply"].at \in {"captured", "reverified", "written", "reloaded"} \/ writer = "apply" =>
           rootCopy = Before
    /\ pc = "rb_invoke" \/ helper["rollback"].at # "none" => bound

ControlInv ==
    /\ pc \in Uninvoked => helper["apply"].at = "none"
    /\ pc \in Forward => helper["rollback"].at = "none" /\ status = "none"
    /\ pc \in Passed => helper["apply"] = [at |-> "exited", result |-> "passed"]
    /\ pc \in Refused => /\ helper["apply"].at = "exited"
                         /\ helper["apply"].result \in {"first", "denied"}
    /\ pc = "commit_journal" => lastEvent = "apply.committed"
    /\ pc \in {"rb_audit", "rb_close"} => status # "none"
    /\ pc \in {"rb_audit", "rb_close"} /\ status = "rolled_back" =>
           helper["rollback"] = [at |-> "exited", result |-> "passed"]
    /\ pc = "rb_close" /\ status = "rolled_back" => lastEvent = "rollback.completed"

RolledBackBy ==
    \/ /\ helper["rollback"] = [at |-> "exited", result |-> "passed"]
       /\ lastEvent = "rollback.completed"
    \/ /\ helper["apply"].at = "exited" /\ helper["apply"].result \in {"first", "denied"}
       /\ helper["rollback"].at = "none"
OutcomeInv ==
    /\ pc = "done" <=> outcome # "none"
    /\ outcome = "approved" => helper["apply"].at = "none" /\ helper["rollback"].at = "none"
    /\ outcome = "committed" =>
           /\ helper["apply"] = [at |-> "exited", result |-> "passed"]
           /\ helper["rollback"].at = "none"
           /\ lastEvent = "apply.committed" /\ journal = "committed"
    /\ outcome = "rolled_back" => RolledBackBy

\* WroteInv and ServiceInv need that a failed write left the file alone.
IInv == /\ TypeOK /\ LockInv /\ StageInv /\ FileInv /\ RecordInv /\ ControlInv /\ OutcomeInv
        /\ LateReplace = FALSE => WroteInv /\ ServiceInv

----------------------------------------------------------------------------
(* The coordinator.                                                        *)

\* The calls of the coordinator that leave the helpers alone.
Quiet == \/ AuditApproved \/ AssertReady \/ CreateBackup \/ VerifyBackup
         \/ AuditUnverified \/ AuditVerified \/ AssertReadyAgain \/ Prepare \/ OpenJournal
         \/ NotStarted \/ AuditNotStarted \/ NotStartedCloses \/ NotApplied \/ NotAppliedCloses
         \/ MarkValidating \/ Validate \/ AuditCommitted \/ CommitJournal
         \/ RollbackJournal \/ PrepareRollback \/ BindRollback \/ AuditRollback \/ RollbackClose

\* execute and _rollback between the helpers keep the invariant.
LEMMA QuietKeeps == ASSUME IInv, Quiet PROVE IInv'
<1> USE DEF IInv, TypeOK, LockInv, StageInv, FileInv, WroteInv, ServiceInv, RecordInv, ControlInv,
    OutcomeInv, RolledBackBy, Restoring, LockedStages, Rewritten, Unwritten, Unsaved, Unopened, Uninvoked,
    Refused, Passed, Forward
<1> USE DEF Requests, Contents, Stages, Results, Outcomes, PCs, JournalStatus, JournalTransitions,
    control, records, helpers, disk, service, Goto, Return
<1> USE DEF AuditAppends, AuditRaises, JournalUpdates, JournalRaises, RaiseUnsaved,
    RaiseUnprepared, Raise, ExecuteUpdates, ExecuteCloses, RollbackFails, RollbackEvent
<1>1. CASE AuditApproved
  BY <1>1 DEF AuditApproved
<1>2. CASE AssertReady
  BY <1>2 DEF AssertReady
<1>3. CASE CreateBackup
  BY <1>3 DEF CreateBackup
<1>4. CASE VerifyBackup
  BY <1>4 DEF VerifyBackup
<1>5. CASE AuditUnverified
  BY <1>5 DEF AuditUnverified
<1>6. CASE AuditVerified
  BY <1>6 DEF AuditVerified
<1>7. CASE AssertReadyAgain
  BY <1>7 DEF AssertReadyAgain
<1>8. CASE Prepare
  BY <1>8 DEF Prepare
<1>9. CASE OpenJournal
  BY <1>9 DEF OpenJournal
<1>10. CASE NotStarted
  BY <1>10 DEF NotStarted
<1>11. CASE AuditNotStarted
  BY <1>11 DEF AuditNotStarted
<1>12. CASE NotStartedCloses
  BY <1>12 DEF NotStartedCloses
<1>13. CASE NotApplied
  BY <1>13 DEF NotApplied
<1>14. CASE NotAppliedCloses
  BY <1>14 DEF NotAppliedCloses
<1>15. CASE MarkValidating
  BY <1>15 DEF MarkValidating
<1>16. CASE Validate
  BY <1>16 DEF Validate
<1>17. CASE AuditCommitted
  BY <1>17 DEF AuditCommitted
<1>18. CASE CommitJournal
  BY <1>18 DEF CommitJournal
<1>19. CASE RollbackJournal
  BY <1>19 DEF RollbackJournal
<1>20. CASE PrepareRollback
  BY <1>20 DEF PrepareRollback
<1>21. CASE BindRollback
  <2>1. bound' \in BOOLEAN
    BY <1>21, Zenon DEF BindRollback
  <2>2. (Goto("rb_invoke") /\ bound' /\ UNCHANGED status) \/ RollbackFails
    BY <1>21, Zenon DEF BindRollback
  <2>3. pc = "rb_bind" /\ (bound => bound')
    BY <1>21 DEF BindRollback
  <2>4. UNCHANGED <<outcome, cancelled, expired, backup, snap, journal, lastEvent, auditOk,
                    helpers, disk, service>>
    BY <1>21 DEF BindRollback
  <2> QED BY <2>1, <2>2, <2>3, <2>4
<1>22. CASE AuditRollback
  BY <1>22 DEF AuditRollback
<1>23. CASE RollbackClose
  BY <1>23 DEF RollbackClose
<1> QED BY <1>1, <1>2, <1>3, <1>4, <1>5, <1>6, <1>7, <1>8, <1>9, <1>10, <1>11, <1>12, <1>13, <1>14, <1>15, <1>16, <1>17, <1>18, <1>19, <1>20, <1>21, <1>22, <1>23 DEF Quiet

----------------------------------------------------------------------------
(* What one helper's step does to `helper`.                                *)

Helpers == [Requests -> [at : Stages, result : Results]]

Moved(k, at, result) ==
    /\ helper' \in Helpers
    /\ helper'[k] = [at |-> at, result |-> result]
    /\ \A j \in Requests \ {k} : helper'[j] = helper[j]

\* A helper goes one step on...
LEMMA StageMoves ==
    ASSUME helper \in Helpers, NEW k \in Requests, NEW to \in Stages,
           helper' = [helper EXCEPT ![k].at = to]
    PROVE  Moved(k, to, helper[k].result)
<1>1. /\ helper = [j \in Requests |-> helper[j]]
      /\ helper[k] = [at |-> helper[k].at, result |-> helper[k].result]
      /\ helper[k].result \in Results
  BY DEF Helpers
<1>2. helper' = [j \in Requests |-> IF j = k THEN [helper[k] EXCEPT !.at = to] ELSE helper[j]]
  BY <1>1
<1>3. helper'[k] = [at |-> to, result |-> helper[k].result]
  BY <1>1, <1>2
<1>4. \A j \in Requests \ {k} : helper'[j] = helper[j]
  BY <1>2
<1>5. [at |-> to, result |-> helper[k].result] \in [at : Stages, result : Results]
  BY <1>1
<1>6. \A j \in Requests : helper'[j] \in [at : Stages, result : Results]
  BY <1>3, <1>4, <1>5 DEF Helpers
<1> QED BY <1>2, <1>3, <1>4, <1>6 DEF Moved, Helpers

\* ...or ends with a result; the other one is not touched.
LEMMA ResultMoves ==
    ASSUME helper \in Helpers, NEW k \in Requests, NEW to \in Stages, NEW result \in Results,
           helper' = [helper EXCEPT ![k] = [at |-> to, result |-> result]]
    PROVE  Moved(k, to, result)
  BY DEF Moved, Helpers

\* An operation of a helper that succeeds.
LEMMA AtMoves ==
    ASSUME helper \in Helpers, NEW k \in Requests, NEW from, NEW to \in Stages, At(k, from, to)
    PROVE  helper[k].at = from /\ Moved(k, to, helper[k].result)
  BY StageMoves DEF At

\* An operation that raises: the results name it and the lock is dropped.
LEMMA FailsMoves ==
    ASSUME helper \in Helpers, NEW k \in Requests, NEW result \in Results, Fails(k, result)
    PROVE  Moved(k, "reporting", result) /\ Unlock(k)
<1>1. "reporting" \in Stages
  BY DEF Stages
<1> QED BY <1>1, ResultMoves DEF Fails

\* The process ends and the kernel drops the lock.
LEMMA ExitsMoves ==
    ASSUME helper \in Helpers, NEW k \in Requests, NEW result \in Results, Exits(k, result)
    PROVE  Moved(k, "exited", result) /\ Unlock(k)
<1>1. "exited" \in Stages
  BY DEF Stages
<1> QED BY <1>1, ResultMoves DEF Exits

----------------------------------------------------------------------------
(* The calls of the coordinator that start a helper or wait for one.       *)

\* The coordinator starts pkexec.
LEMMA StartsMoves ==
    ASSUME helper \in Helpers, NEW k \in Requests, Starts(k)
    PROVE  Moved(k, "auth", helper[k].result) /\ UNCHANGED <<receipt, lock, rootCopy>>
<1>1. "auth" \in Stages
  BY DEF Stages
<1> QED BY <1>1, StageMoves DEF Starts

\* The coordinator gives up waiting; only pkexec's dialog can be killed.
LEMMA GivesUpMoves ==
    ASSUME helper \in Helpers, NEW k \in Requests, GivesUp(k)
    PROVE  /\ helper[k].at # "exited" /\ UNCHANGED <<receipt, lock, rootCopy>>
           /\ \/ helper[k].at = "auth" /\ Moved(k, "exited", helper[k].result)
              \/ UNCHANGED helper
<1>1. "exited" \in Stages
  BY DEF Stages
<1>2. CASE helper[k].at = "auth"
  BY <1>1, <1>2, StageMoves DEF GivesUp
<1>3. CASE helper[k].at # "auth"
  BY <1>3 DEF GivesUp
<1> QED BY <1>2, <1>3

\* execute and _rollback starting, awaiting and abandoning a helper keep the invariant.
LEMMA StartingKeeps ==
    ASSUME IInv, Invoke \/ Wait \/ InvokeRollback \/ WaitRollback
    PROVE  IInv'
<1>1. helper \in Helpers
  BY DEF IInv, TypeOK, Helpers
<1>2. \A k \in Requests : Starts(k) =>
         Moved(k, "auth", helper[k].result) /\ UNCHANGED <<receipt, lock, rootCopy>>
  BY <1>1, StartsMoves
<1>3. \A k \in Requests : GivesUp(k) =>
         /\ helper[k].at # "exited" /\ UNCHANGED <<receipt, lock, rootCopy>>
         /\ \/ helper[k].at = "auth" /\ Moved(k, "exited", helper[k].result)
            \/ UNCHANGED helper
  BY <1>1, GivesUpMoves
<1> USE DEF IInv, TypeOK, LockInv, StageInv, FileInv, WroteInv, ServiceInv, RecordInv, ControlInv,
    OutcomeInv, RolledBackBy, Restoring, LockedStages, Rewritten, Unwritten, Unsaved, Unopened, Uninvoked,
    Refused, Passed, Forward
<1> USE DEF Requests, Contents, Stages, Results, Outcomes, PCs, JournalStatus, JournalTransitions,
    control, records, helpers, disk, service, Goto, Return
<1> USE DEF RaiseUnprepared, Raise, RollbackFails, CannotStart, Answers, Moved, Helpers
<1>4. CASE Invoke
  BY <1>2, <1>4 DEF Invoke
<1>5. CASE Wait
  BY <1>3, <1>5 DEF Wait
<1>6. CASE InvokeRollback
  BY <1>2, <1>6 DEF InvokeRollback
<1>7. CASE WaitRollback
  BY <1>3, <1>7 DEF WaitRollback
<1> QED BY <1>4, <1>5, <1>6, <1>7

----------------------------------------------------------------------------
(* The helpers.                                                            *)

\* Helper steps up to the one that replaces the file.
LEMMA CheckingKeeps ==
    ASSUME IInv, NEW k \in Requests,
           \/ Authenticate(k) \/ Claim(k) \/ Lock(k) \/ VerifyBefore(k)
           \/ (k = "apply" /\ (Capture \/ VerifyAgain))
    PROVE  IInv'
<1>1. helper \in Helpers
  BY DEF IInv, TypeOK, Helpers
<1>2. \A from, to \in Stages : At(k, from, to) =>
         helper[k].at = from /\ Moved(k, to, helper[k].result)
  BY <1>1, AtMoves
<1>3. \A result \in Results : Fails(k, result) => Moved(k, "reporting", result) /\ Unlock(k)
  BY <1>1, FailsMoves
<1>4. \A result \in Results : Exits(k, result) => Moved(k, "exited", result) /\ Unlock(k)
  BY <1>1, ExitsMoves
<1> USE DEF IInv, TypeOK, LockInv, StageInv, FileInv, WroteInv, ServiceInv, RecordInv, ControlInv,
    OutcomeInv, RolledBackBy, Restoring, LockedStages, Rewritten, Unwritten, Unsaved, Unopened, Uninvoked,
    Refused, Passed, Forward
<1> USE DEF Requests, Contents, Stages, Results, Outcomes, PCs, JournalStatus, JournalTransitions,
    control, records, helpers, disk, service, Goto, Return
<1> USE DEF Moved, Helpers, Unlock
<1>5. CASE Authenticate(k)
  <2>1. \/ helper[k].at = "auth" /\ Moved(k, "started", helper[k].result) /\ UNCHANGED lock
        \/ helper[k].at = "auth" /\ Moved(k, "exited", "denied") /\ Unlock(k)
    BY <1>2, <1>4, <1>5 DEF Authenticate
  <2>2. CASE helper[k].at = "auth" /\ Moved(k, "started", helper[k].result) /\ UNCHANGED lock
    BY <1>5, <2>2 DEF Authenticate
  <2>3. CASE helper[k].at = "auth" /\ Moved(k, "exited", "denied") /\ Unlock(k)
    BY <1>5, <2>3 DEF Authenticate
  <2> QED BY <2>1, <2>2, <2>3
<1>6. CASE Claim(k)
  <2>1. \/ /\ helper[k].at = "started" /\ Moved(k, "claimed", helper[k].result) /\ UNCHANGED lock
           /\ receipt' = [receipt EXCEPT ![k] = "executing"]
        \/ /\ helper[k].at = "started" /\ Moved(k, "exited", "unknown") /\ Unlock(k)
           /\ UNCHANGED receipt
    BY <1>2, <1>4, <1>6 DEF Claim
  <2>2. CASE /\ helper[k].at = "started" /\ Moved(k, "claimed", helper[k].result) /\ UNCHANGED lock
             /\ receipt' = [receipt EXCEPT ![k] = "executing"]
    BY <1>6, <2>2 DEF Claim
  <2>3. CASE /\ helper[k].at = "started" /\ Moved(k, "exited", "unknown") /\ Unlock(k)
             /\ UNCHANGED receipt
    BY <1>6, <2>3 DEF Claim
  <2> QED BY <2>1, <2>2, <2>3
<1>7. CASE Lock(k)
  BY <1>2, <1>3, <1>4, <1>7 DEF Lock
<1>8. CASE VerifyBefore(k)
  BY <1>2, <1>3, <1>8 DEF VerifyBefore, Unchanged, Expected
<1>9. CASE k = "apply" /\ Capture
  BY <1>2, <1>3, <1>9 DEF Capture
<1>10. CASE k = "apply" /\ VerifyAgain
  BY <1>2, <1>3, <1>10 DEF VerifyAgain, Unchanged, Expected
<1> QED BY <1>5, <1>6, <1>7, <1>8, <1>9, <1>10

\* The step that replaces the file, and those after it.
LEMMA WritingKeeps ==
    ASSUME IInv, NEW k \in Requests,
           Replace(k) \/ Reload(k) \/ Restart(k) \/ Report(k) \/ Dies(k)
    PROVE  IInv'
<1>1. helper \in Helpers
  BY DEF IInv, TypeOK, Helpers
<1>2. \A from, to \in Stages : At(k, from, to) =>
         helper[k].at = from /\ Moved(k, to, helper[k].result)
  BY <1>1, AtMoves
<1>3. \A result \in Results : Fails(k, result) => Moved(k, "reporting", result) /\ Unlock(k)
  BY <1>1, FailsMoves
<1>4. \A result \in Results : Exits(k, result) => Moved(k, "exited", result) /\ Unlock(k)
  BY <1>1, ExitsMoves
<1> USE DEF IInv, TypeOK, LockInv, StageInv, FileInv, WroteInv, ServiceInv, RecordInv, ControlInv,
    OutcomeInv, RolledBackBy, Restoring, LockedStages, Rewritten, Unwritten, Unsaved, Unopened, Uninvoked,
    Refused, Passed, Forward
<1> USE DEF Requests, Contents, Stages, Results, Outcomes, PCs, JournalStatus, JournalTransitions,
    control, records, helpers, disk, service, Goto, Return
<1> USE DEF Moved, Helpers, Unlock
<1>5. CASE Replace(k)
  BY <1>2, <1>3, <1>5, ContentAssumption DEF Replace, Replaces, Approved
<1>6. CASE Reload(k)
  BY <1>2, <1>3, <1>4, <1>6 DEF Reload
<1>7. CASE Restart(k)
  BY <1>3, <1>4, <1>7 DEF Restart
<1>8. CASE Report(k)
  BY <1>4, <1>8 DEF Report
<1>9. CASE Dies(k)
  BY <1>4, <1>9 DEF Dies
<1> QED BY <1>5, <1>6, <1>7, <1>8, <1>9

----------------------------------------------------------------------------
(* The environment, the start, and every step.                             *)

\* Cancelling, expiry, the application's death and the administrator keep it.
LEMMA EnvironmentKeeps == ASSUME IInv, Environment PROVE IInv'
<1> USE DEF IInv, TypeOK, LockInv, StageInv, FileInv, WroteInv, ServiceInv, RecordInv, ControlInv,
    OutcomeInv, RolledBackBy, Restoring, LockedStages, Rewritten, Unwritten, Unsaved, Unopened, Uninvoked,
    Refused, Passed, Forward
<1> USE DEF Requests, Contents, Stages, Results, Outcomes, PCs, JournalStatus, JournalTransitions,
    control, records, helpers, disk, service, Goto, Return
<1> USE ContentAssumption, BoundsAssumption, EditsAssumption
<1>1. CASE Cancel
  BY <1>1 DEF Cancel, Ended
<1>2. CASE Expire
  BY <1>2 DEF Expire
<1>3. CASE Crash
  BY <1>3 DEF Crash, Ended
<1>4. CASE SystemReload
  BY <1>4 DEF SystemReload
<1>5. ASSUME NEW content \in Edits, Edit(content) PROVE IInv'
  BY <1>5 DEF Edit
<1> QED BY <1>1, <1>2, <1>3, <1>4, <1>5 DEF Environment

\* It holds when execute is called.
LEMMA Initially == ASSUME Init PROVE IInv
<1> USE DEF IInv, TypeOK, LockInv, StageInv, FileInv, WroteInv, ServiceInv, RecordInv, ControlInv,
    OutcomeInv, RolledBackBy, Restoring, LockedStages, Rewritten, Unwritten, Unsaved, Unopened, Uninvoked,
    Refused, Passed, Forward
<1> USE DEF Requests, Contents, Stages, Results, Outcomes, PCs, JournalStatus, JournalTransitions,
    control, records, helpers, disk, service, Goto, Return
<1> USE ContentAssumption, BoundsAssumption DEF Init
<1>1. TypeOK
  <2>1. helper \in [Requests -> [at : Stages, result : Results]]
    OBVIOUS
  <2>2. receipt \in [Requests -> {"none", "executing", "completed", "failed"}]
    OBVIOUS
  <2>3. edits \in 0..MaxEdits
    OBVIOUS
  <2> QED BY <2>1, <2>2, <2>3
<1>2. LockInv OBVIOUS
<1>3. StageInv OBVIOUS
<1>4. FileInv OBVIOUS
<1>5. WroteInv OBVIOUS
<1>6. ServiceInv OBVIOUS
<1>7. RecordInv OBVIOUS
<1>8. ControlInv OBVIOUS
<1>9. OutcomeInv OBVIOUS
<1> QED BY <1>1, <1>2, <1>3, <1>4, <1>5, <1>6, <1>7, <1>8, <1>9

\* Every step keeps it.
LEMMA NextKeeps == IInv /\ [Next]_vars => IInv'
<1> SUFFICES ASSUME IInv, [Next]_vars PROVE IInv'
  OBVIOUS
<1>1. CASE Coordinator
  BY <1>1, QuietKeeps, StartingKeeps DEF Coordinator, Quiet
<1>2. ASSUME NEW k \in Requests, Helper(k) PROVE IInv'
  BY <1>2, CheckingKeeps, WritingKeeps DEF Helper
<1>3. CASE Capture \/ VerifyAgain
  <2>1. "apply" \in Requests BY DEF Requests
  <2> QED BY <1>3, <2>1, CheckingKeeps
<1>4. CASE Environment
  BY <1>4, EnvironmentKeeps
<1>5. CASE UNCHANGED vars
  <2>1. UNCHANGED <<pc, outcome, status, cancelled, expired, backup, snap, journal, bound,
                    lastEvent, auditOk, helper, receipt, lock, rootCopy, file, writer, edits,
                    loaded, running>>
    BY <1>5 DEF vars, control, records, helpers, disk, service
  <2> USE <2>1 DEF IInv
  <2>2. TypeOK' BY DEF TypeOK
  <2>3. LockInv' BY DEF LockInv
  <2>4. StageInv' BY DEF StageInv
  <2>5. FileInv' BY DEF FileInv
  <2>6. LateReplace = FALSE => WroteInv' BY DEF WroteInv, Restoring
  <2>7. LateReplace = FALSE => ServiceInv' BY DEF ServiceInv
  <2>8. RecordInv' BY DEF RecordInv
  <2>9. ControlInv' BY DEF ControlInv
  <2>10. OutcomeInv' BY DEF OutcomeInv, RolledBackBy
  <2> QED BY <2>2, <2>3, <2>4, <2>5, <2>6, <2>7, <2>8, <2>9, <2>10
<1> QED BY <1>1, <1>2, <1>3, <1>4, <1>5 DEF Next

\* The invariant holds in every reachable state.
THEOREM Invariance == Spec => []IInv
<1>1. Init => IInv
  BY Initially
<1> QED BY <1>1, NextKeeps, PTL DEF Spec

\* Every variable keeps its type.
THEOREM TypeCorrectness == Spec => []TypeOK
<1>1. IInv => TypeOK
  BY DEF IInv
<1> QED BY <1>1, Invariance, PTL

\* What recovery needs is on the disk before any helper writes, also one that
\* outlived the coordinator.
THEOREM BackupsComeFirst == Spec => []Recoverable
<1>1. IInv => Recoverable
  BY DEF IInv, Recoverable, RecordInv, FileInv, Rewritten, Requests
<1> QED BY <1>1, Invariance, PTL

\* After "rolled back" no late helper puts the change back.
THEOREM RollbackStays ==
    ASSUME LateReplace = FALSE
    PROVE  Spec => []RolledBackIsRestored
<1>1. ASSUME LateReplace = FALSE, IInv, outcome = "rolled_back"
      PROVE  /\ writer \in {"none", "editor"} \/ (writer = "restore" /\ file = snap)
             /\ edits = 0 => file = Before /\ loaded = Before /\ running = Before
  <2>1. writer # "editor" \/ edits # 0
    BY <1>1 DEF IInv, FileInv
  <2>2. CASE helper["rollback"] = [at |-> "exited", result |-> "passed"]
    <3>1. writer \in {"restore", "editor"}
      BY <1>1, <2>2 DEF IInv, WroteInv
    <3> QED BY <1>1, <2>1, <2>2, <3>1 DEF IInv, FileInv, ServiceInv
  <2>3. CASE helper["apply"].at = "exited" /\ helper["apply"].result \in {"first", "denied"}
    <3>1. writer \in {"none", "editor"}
      BY <1>1, <2>3 DEF IInv, WroteInv
    <3> QED BY <1>1, <2>1, <3>1 DEF IInv, FileInv, ServiceInv
  <2> QED BY <1>1, <2>2, <2>3 DEF IInv, OutcomeInv, RolledBackBy
<1>2. IInv => RolledBackIsRestored
  BY <1>1 DEF RolledBackIsRestored
<1> QED BY <1>2, Invariance, PTL

\* What the user is told agrees with the audit log, the journal, the receipts,
\* the file, systemd and the service.
THEOREM VerdictIsTrue ==
    ASSUME LateReplace = FALSE
    PROVE  Spec => []OutcomeIsTrue
<1> USE DEF Requests
<1>1. ASSUME LateReplace = FALSE, IInv, outcome = "committed"
      PROVE  /\ lastEvent = "apply.committed" /\ journal = "committed"
             /\ receipt["apply"] = "completed" /\ helper["rollback"].at = "none"
             /\ edits = 0 => file = After /\ loaded = After /\ running = After
  <2>1. /\ helper["apply"] = [at |-> "exited", result |-> "passed"]
        /\ helper["rollback"].at = "none"
        /\ lastEvent = "apply.committed" /\ journal = "committed"
    BY <1>1 DEF IInv, OutcomeInv
  <2>2. receipt["apply"] = "completed"
    BY <1>1, <2>1 DEF IInv, StageInv
  <2>3. edits = 0 => writer = "apply"
    BY <1>1, <2>1 DEF IInv, TypeOK, WroteInv, FileInv, Rewritten
  <2>4. edits = 0 => file = After /\ loaded = After /\ running = After
    BY <1>1, <2>1, <2>3 DEF IInv, FileInv, ServiceInv
  <2> QED BY <2>1, <2>2, <2>4
<1>2. ASSUME LateReplace = FALSE, IInv, outcome = "rolled_back"
      PROVE  \/ lastEvent = "rollback.completed" /\ receipt["rollback"] = "completed"
             \/ receipt["rollback"] = "none" /\ writer \in {"none", "editor"}
  BY <1>2 DEF IInv, OutcomeInv, RolledBackBy, StageInv, WroteInv
<1>3. IInv => OutcomeIsTrue
  BY <1>1, <1>2 DEF OutcomeIsTrue
<1> QED BY <1>3, Invariance, PTL

----------------------------------------------------------------------------
(* The refinement of the contract.                                         *)

\* A step that leaves the file alone closes the contract, or stutters.
LEMMA ClosingRefines ==
    ASSUME LateReplace = FALSE, IInv, IInv', UNCHANGED writer, outcome = "none" \/ UNCHANGED outcome
    PROVE  [Contract!Next]_Contract!vars
<1>1. UNCHANGED holds
  BY DEF holds
<1>2. CASE UNCHANGED outcome
  BY <1>1, <1>2 DEF Contract!vars, phase
<1>3. CASE outcome = "none" /\ outcome' # "none"
  <2>1. phase = "open" /\ holds["drop_in"] = Holding[writer] /\ outcome' \in Outcomes
    BY <1>3 DEF phase, holds, IInv, TypeOK
  <2>2. /\ writer' \in {"none", "apply", "restore", "editor"}
        /\ outcome' = "approved" => writer' \in {"none", "editor"}
        /\ outcome' = "committed" => writer' \in {"apply", "editor"}
        /\ outcome' = "rolled_back" => writer' \in {"none", "restore", "editor"}
    <3>1. writer' \in {"none", "apply", "restore", "editor"}
      BY DEF IInv, TypeOK
    <3>2. outcome' = "approved" => writer' \in {"none", "editor"}
      BY DEF IInv, OutcomeInv, WroteInv, Unwritten
    <3>3. outcome' = "committed" => writer' \in {"apply", "editor"}
      BY <3>1 DEF IInv, OutcomeInv, WroteInv, FileInv, Rewritten
    <3>4. outcome' = "rolled_back" => writer' \in {"none", "restore", "editor"}
      BY DEF IInv, OutcomeInv, RolledBackBy, WroteInv
    <3> QED BY <3>1, <3>2, <3>3, <3>4
  <2>3. Holding[writer] \in Contract!Holdings
    BY <2>2 DEF Holding, Contract!Holdings
  <2>4. CASE outcome' = "approved"
    <3>1. phase' = "untouched" /\ Holding[writer] \in {"original", "foreign"}
      BY <2>2, <2>4 DEF phase, Holding
    <3> QED BY <1>1, <2>1, <3>1 DEF Contract!Next, Contract!Close
  <2>5. CASE outcome' = "committed"
    <3>1. phase' = "committed" /\ Holding[writer] \in {"changed", "foreign"}
      BY <2>2, <2>5 DEF phase, Holding
    <3> QED BY <1>1, <2>1, <3>1 DEF Contract!Next, Contract!Close
  <2>6. CASE outcome' = "rolled_back"
    <3>1. phase' = "restored" /\ Holding[writer] \in {"original", "restored", "foreign"}
      BY <2>2, <2>6 DEF phase, Holding
    <3> QED BY <1>1, <2>1, <3>1 DEF Contract!Next, Contract!Close
  <2>7. CASE outcome' = "recovery_required"
    <3>1. phase' = "attention"
      BY <2>7 DEF phase
    <3> QED BY <1>1, <2>1, <2>3, <3>1 DEF Contract!Next, Contract!Close
  <2> QED BY <2>1, <2>4, <2>5, <2>6, <2>7 DEF Outcomes
<1> QED BY <1>2, <1>3

\* Only an operation that is open, or asks for attention, has a helper that
\* can still write.
LEMMA WritersAreAwaited ==
    ASSUME LateReplace = FALSE, IInv, NEW k \in Requests,
           helper[k].at = (IF k = "apply" THEN "reverified" ELSE "verified")
    PROVE  phase = "open" \/ phase = "attention"
<1>1. k = "apply" => helper["apply"].at = "reverified"
  OBVIOUS
<1>2. k = "rollback" => helper["rollback"].at = "verified"
  OBVIOUS
<1>3. outcome # "approved" /\ outcome # "committed"
  BY <1>1, <1>2 DEF IInv, OutcomeInv, Requests
<1>4. outcome # "rolled_back"
  BY <1>1, <1>2 DEF IInv, OutcomeInv, RolledBackBy, WroteInv, Restoring, Requests
<1>5. outcome \in {"none", "recovery_required"}
  BY <1>3, <1>4 DEF IInv, TypeOK, Outcomes
<1> QED BY <1>5 DEF phase

\* A write of a helper is a write of the operation.
LEMMA WritingRefines ==
    ASSUME UNCHANGED outcome, phase = "open" \/ phase = "attention",
           writer' \in {"apply", "restore"}
    PROVE  Contract!Next
<1>1. UNCHANGED phase
  BY DEF phase
<1>2. holds' = [holds EXCEPT !["drop_in"] = Holding[writer']]
  BY DEF holds
<1>3. Holding[writer'] \in {"changed", "restored"}
  BY DEF Holding
<1>4. Contract!Write("drop_in")
  BY <1>1, <1>2, <1>3 DEF Contract!Write
<1> QED BY <1>4 DEF Contract!Next

\* A write of the administrator is foreign.
LEMMA EditingRefines ==
    ASSUME UNCHANGED outcome, writer' = "editor"
    PROVE  Contract!Next
<1>1. UNCHANGED phase
  BY DEF phase
<1>2. holds' = [holds EXCEPT !["drop_in"] = "foreign"]
  BY DEF holds, Holding
<1>3. Contract!ForeignWrite("drop_in")
  BY <1>1, <1>2 DEF Contract!ForeignWrite
<1> QED BY <1>3 DEF Contract!Next

\* The coordinator does not write the file, and decides the outcome once.
LEMMA CoordinatorDecides ==
    ASSUME IInv, Coordinator
    PROVE  UNCHANGED writer /\ outcome = "none"
<1> USE DEF Coordinator, AuditApproved, AssertReady, CreateBackup, VerifyBackup,
    AuditUnverified, AuditVerified, AssertReadyAgain, Prepare, OpenJournal, Invoke, Wait,
    NotStarted, AuditNotStarted, NotStartedCloses, NotApplied, NotAppliedCloses,
    MarkValidating, Validate, AuditCommitted, CommitJournal, RollbackJournal, PrepareRollback,
    BindRollback, InvokeRollback, WaitRollback, AuditRollback, RollbackClose, ExecuteUpdates,
    ExecuteCloses
<1>1. UNCHANGED writer
  BY DEF disk
<1>2. pc # "done"
  OBVIOUS
<1> QED BY <1>1, <1>2 DEF IInv, OutcomeInv

\* A helper decides no outcome, and writes the file only in Replace.
LEMMA HelpersWrite ==
    ASSUME NEW k \in Requests, Helper(k) \/ Capture \/ VerifyAgain
    PROVE  UNCHANGED outcome /\ (Replace(k) \/ UNCHANGED writer)
  BY DEF Helper, Authenticate, Claim, Lock, VerifyBefore, Capture, VerifyAgain, Replace, Reload,
     Restart, Report, Dies, control, disk

\* The root route keeps the contract of all apply routes.
THEOREM RouteImplementsContract ==
    ASSUME LateReplace = FALSE
    PROVE  Spec => ImplementsContract
<1>1. Init => Contract!Init
  <2> SUFFICES ASSUME Init PROVE Contract!Init
    OBVIOUS
  <2>1. phase = "open" BY DEF Init, phase
  <2>2. holds = [t \in {"drop_in"} |-> "original"] BY DEF Init, holds, Holding
  <2> QED BY <2>1, <2>2 DEF Contract!Init
<1>2. ASSUME IInv, IInv', [Next]_vars PROVE [Contract!Next]_Contract!vars
  <2>1. CASE Coordinator
    BY <1>2, <2>1, CoordinatorDecides, ClosingRefines
  <2>2. ASSUME NEW k \in Requests, Helper(k) \/ Capture \/ VerifyAgain
        PROVE  [Contract!Next]_Contract!vars
    <3>1. UNCHANGED outcome /\ (Replace(k) \/ UNCHANGED writer)
      BY <2>2, HelpersWrite
    <3>2. CASE UNCHANGED writer
      BY <1>2, <3>1, <3>2, ClosingRefines
    <3>3. CASE Replace(k) /\ ~UNCHANGED writer
      <4>1. writer' \in {"apply", "restore"}
        BY <3>3 DEF Replace, Replaces, disk
      <4>2. helper[k].at = (IF k = "apply" THEN "reverified" ELSE "verified")
        BY <3>3 DEF Replace
      <4> QED BY <1>2, <3>1, <4>1, <4>2, WritersAreAwaited, WritingRefines
    <3> QED BY <3>1, <3>2, <3>3
  <2>3. CASE Environment
    <3>1. UNCHANGED outcome /\ (UNCHANGED writer \/ writer' = "editor")
      BY <2>3 DEF Environment, Cancel, Expire, Crash, SystemReload, Edit, disk, control
    <3> QED BY <1>2, <3>1, ClosingRefines, EditingRefines
  <2>4. CASE UNCHANGED vars
    BY <1>2, <2>4, ClosingRefines DEF vars, disk, control
  <2>5. "apply" \in Requests BY DEF Requests
  <2> QED BY <1>2, <2>1, <2>2, <2>3, <2>4, <2>5 DEF Next
<1> QED BY <1>1, <1>2, Invariance, PTL DEF Spec, ImplementsContract, Contract!Spec
=============================================================================
