--------------------------- MODULE SafeApplyProofs --------------------------
(***************************************************************************)
(* Theorems about SafeApply, for any number of targets, any contents and   *)
(* any number of edits.                                                    *)
(***************************************************************************)
EXTENDS SafeApply, TLAPS

----------------------------------------------------------------------------
(* The inductive invariant, by concern.                                    *)

Captures == {"approved_audit", "capture", "persist"}
Prepares == {"verify", "unverified_audit", "verified_audit", "prepare", "open_journal"}
Applies == {"begin", "recheck", "read", "replace", "mark_validating"}
Validates == {"validate", "runtime", "commit_audit", "commit_journal"}
RollsBack == {"rb_journal", "rb_verify", "rb_restore", "rb_audit", "rb_close"}
Stopped == {"done", "crashed"}

\* The machine follows the program counter, and execute has returned exactly
\* when there is an outcome.
StatusInv ==
    /\ pc \in Captures \union Prepares \union {"report_failure"} => status = "approved"
    /\ pc = "begin" => status = "backed_up"
    /\ pc \in Applies \ {"begin"} => status = "applying"
    /\ pc \in Validates => status = "validating"
    /\ pc \in RollsBack => status = "rolling_back"
    /\ pc = "done" <=> outcome # "none"
    /\ outcome \in {"approved", "raised"} => status = "approved"

\* Backup and journal are on the disk before the first write and stay.
DurableInv ==
    /\ pc \in Prepares => backup = "complete"
    /\ pc \in Applies \union Validates \union RollsBack =>
           backup = "complete" /\ journal # "none"
    /\ pc \notin Stopped => journal # "rolled_back"
    /\ Recoverable

\* What the last writer of a target left in it.
WriterInv ==
    \A t \in Targets :
        /\ writer[t] = "none" => file[t] = Before
        /\ writer[t] = "apply" => file[t] = After
        /\ writer[t] = "restore" /\ t \notin damaged => file[t] = snap[t]

\* How far apply has come.
ApplyInv ==
    /\ status \in {"approved", "backed_up"} =>
           \A t \in Targets : writer[t] \in {"none", "editor"}
    /\ pc \in {"begin", "recheck"} =>
           \A t \in Targets : writer[t] \in {"none", "editor"}
    /\ pc \in {"read", "replace"} =>
           \A t \in Targets : t < i => writer[t] \in {"apply", "editor"}
    /\ pc \in {"mark_validating"} \union Validates \/ outcome = "committed" =>
           \A t \in Targets : writer[t] \in {"apply", "editor"}
    /\ outcome = "committed" => journal = "committed"

\* How far restore has come.
RestoreInv ==
    /\ pc = "rb_restore" /\ ok =>
           \A t \in Targets : t > i => writer[t] \in {"restore", "editor"}
    /\ pc \in {"rb_audit", "rb_close"} /\ ok =>
           \A t \in Targets : writer[t] \in {"restore", "editor"}
    /\ outcome = "rolled_back" \/ journal = "rolled_back" =>
           \A t \in Targets : writer[t] \in {"restore", "editor"}

IInv == TypeOK /\ StatusInv /\ DurableInv /\ WriterInv /\ ApplyInv /\ RestoreInv

----------------------------------------------------------------------------
(* The invariant holds initially and every step preserves it.              *)

LEMMA InitialState == Init => IInv
<1> SUFFICES ASSUME Init PROVE IInv
    OBVIOUS
<1>1. 1 \in Targets /\ 0 \in 0..MaxEdits
    BY NTargetsAssumption, BoundsAssumption DEF Targets
<1>2. TypeOK
    BY <1>1 DEF Init, TypeOK, Contents, Writers, Outcomes, Events, PCs, JournalStatus
<1>3. StatusInv /\ DurableInv
    BY DEF Init, StatusInv, DurableInv, Recoverable, Captures, Prepares, Applies,
           Validates, RollsBack, Stopped
<1>4. WriterInv /\ ApplyInv /\ RestoreInv
    BY DEF Init, WriterInv, ApplyInv, RestoreInv, Validates
<1> QED
    BY <1>2, <1>3, <1>4 DEF IInv

\* Type correctness of the steps that move the loop index or a Boolean.
LEMMA CheckTargetType ==
    ASSUME NEW here \in PCs, NEW after \in PCs, TypeOK, CheckTarget(here, after)
    PROVE  TypeOK'
<1> USE NTargetsAssumption DEF TypeOK, CheckTarget, NextTarget, Raise, EnterRollback,
            Goto, Targets, disk, store, log
<1>0. pc' \in PCs
    BY DEF PCs
<1>1. i' \in Targets
    OBVIOUS
<1>2. status' \in JournalStatus \union {"approved", "backed_up"}
    BY DEF JournalStatus
<1>3. stale' \subseteq Targets
    OBVIOUS
<1>4. UNCHANGED <<ok, journalOk, outcome, cancelled, file, writer, edits, backup,
                  snap, damaged, journal, lastEvent, auditOk>>
    OBVIOUS
<1> QED
    BY <1>0, <1>1, <1>2, <1>3, <1>4

LEMMA PrepareType == TypeOK /\ Prepare => TypeOK'
    BY CheckTargetType DEF Prepare, PCs

LEMMA RecheckType == TypeOK /\ Recheck => TypeOK'
    BY CheckTargetType DEF Recheck, PCs

LEMMA ReadTargetType == TypeOK /\ ReadTarget => TypeOK'
<1> SUFFICES ASSUME TypeOK, ReadTarget PROVE TypeOK'
    OBVIOUS
<1> USE DEF TypeOK, ReadTarget, Raise, EnterRollback, Goto, disk, store, log
<1>1. pc' \in PCs /\ status' \in JournalStatus \union {"approved", "backed_up"}
    BY DEF PCs, JournalStatus
<1>2. stale' \subseteq Targets
    OBVIOUS
<1>3. UNCHANGED <<i, ok, journalOk, outcome, cancelled, file, writer, edits, backup,
                  snap, damaged, journal, lastEvent, auditOk>>
    OBVIOUS
<1> QED
    BY <1>1, <1>2, <1>3

LEMMA ValidateTargetType == TypeOK /\ ValidateTarget => TypeOK'
<1> SUFFICES ASSUME TypeOK, ValidateTarget PROVE TypeOK'
    OBVIOUS
<1> USE NTargetsAssumption DEF TypeOK, ValidateTarget, NextTarget, Raise, EnterRollback,
            Goto, Targets, disk, store, log
<1>0. pc' \in PCs
    BY DEF PCs
<1>1. i' \in Targets
    OBVIOUS
<1>2. status' \in JournalStatus \union {"approved", "backed_up"}
    BY DEF JournalStatus
<1>3. ok' \in BOOLEAN
    OBVIOUS
<1>4. UNCHANGED <<journalOk, outcome, cancelled, file, writer, edits, stale, backup,
                  snap, damaged, journal, lastEvent, auditOk>>
    OBVIOUS
<1> QED
    BY <1>0, <1>1, <1>2, <1>3, <1>4

LEMMA RollbackVerifyType == TypeOK /\ RollbackVerify => TypeOK'
<1> SUFFICES ASSUME TypeOK, RollbackVerify PROVE TypeOK'
    OBVIOUS
<1> USE NTargetsAssumption DEF TypeOK, RollbackVerify, Goto, Targets, disk, store, log
<1>0. pc' \in PCs
    BY DEF PCs
<1>a. i' \in Targets
    OBVIOUS
<1>b. ok' \in BOOLEAN
    OBVIOUS
<1>1. i' \in Targets /\ ok' \in BOOLEAN
    BY <1>a, <1>b
<1>2. UNCHANGED <<status, journalOk, outcome, cancelled, file, writer, edits, stale,
                  backup, snap, damaged, journal, lastEvent, auditOk>>
    OBVIOUS
<1> QED
    BY <1>0, <1>1, <1>2

LEMMA RestoreTargetType == TypeOK /\ RestoreTarget => TypeOK'
<1> SUFFICES ASSUME TypeOK, RestoreTarget PROVE TypeOK'
    OBVIOUS
<1> USE NTargetsAssumption DEF TypeOK, RestoreTarget, Writes, WriteRaises, Goto, Targets,
            disk, store, log
<1>0. pc' \in PCs
    BY DEF PCs
<1>a. i' \in Targets
    OBVIOUS
<1>b. ok' \in BOOLEAN
    OBVIOUS
<1>1. i' \in Targets /\ ok' \in BOOLEAN
    BY <1>a, <1>b
<1>2. file' \in [Targets -> Contents] /\ writer' \in [Targets -> Writers]
    BY DEF Contents, Writers
<1>3. UNCHANGED <<status, journalOk, outcome, cancelled, edits, stale, backup, snap,
                  damaged, journal, lastEvent, auditOk>>
    OBVIOUS
<1> QED
    BY <1>0, <1>1, <1>2, <1>3

LEMMA CoordinatorStep == IInv /\ Coordinator => IInv'
<1> SUFFICES ASSUME IInv, Coordinator PROVE IInv'
    OBVIOUS
<1> USE NTargetsAssumption, BoundsAssumption
<1> USE DEF IInv, TypeOK, StatusInv, DurableInv, WriterInv, ApplyInv, RestoreInv,
            Recoverable, Targets, Contents, Writers, Outcomes, Events, PCs,
            JournalStatus, Captures, Prepares, Applies, Validates, RollsBack,
            Stopped, disk, store, log, Goto
<1>1. CASE AuditApproved
    BY <1>1 DEF AuditApproved, AuditAppends, AuditRaises, Return
<1>2. CASE CaptureTarget
    BY <1>2 DEF CaptureTarget, Raise, EnterRollback, NextTarget
<1>3. CASE PersistBackup
    BY <1>3 DEF PersistBackup, Raise, EnterRollback
<1>4. CASE VerifyBackup
    BY <1>4 DEF VerifyBackup, Raise, EnterRollback
<1>5. CASE AuditUnverified
    BY <1>5 DEF AuditUnverified, AuditAppends, AuditRaises, Return, Raise, EnterRollback
<1>6. CASE AuditVerified
    BY <1>6 DEF AuditVerified, AuditAppends, AuditRaises, Raise, EnterRollback
<1>7. CASE Prepare
  <2>1. TypeOK'
      BY <1>7, PrepareType
  <2>2. StatusInv' /\ DurableInv'
      BY <1>7 DEF Prepare, CheckTarget, NextTarget, Raise, EnterRollback
  <2>3. WriterInv'
      BY <1>7 DEF Prepare, CheckTarget, NextTarget, Raise, EnterRollback
  <2>4. ApplyInv'
      BY <1>7 DEF Prepare, CheckTarget, NextTarget, Raise, EnterRollback
  <2>5. RestoreInv'
      BY <1>7 DEF Prepare, CheckTarget, NextTarget, Raise, EnterRollback
  <2> QED
      BY <2>1, <2>2, <2>3, <2>4, <2>5
<1>8. CASE OpenJournal
    BY <1>8 DEF OpenJournal, Raise, EnterRollback
<1>9. CASE Begin
    BY <1>9 DEF Begin
<1>10. CASE Recheck
  <2>1. TypeOK'
      BY <1>10, RecheckType
  <2>2. StatusInv' /\ DurableInv'
      BY <1>10 DEF Recheck, CheckTarget, NextTarget, Raise, EnterRollback
  <2>3. WriterInv'
      BY <1>10 DEF Recheck, CheckTarget, NextTarget, Raise, EnterRollback
  <2>4. ApplyInv'
      BY <1>10 DEF Recheck, CheckTarget, NextTarget, Raise, EnterRollback
  <2>5. RestoreInv'
      BY <1>10 DEF Recheck, CheckTarget, NextTarget, Raise, EnterRollback
  <2> QED
      BY <2>1, <2>2, <2>3, <2>4, <2>5
<1>11. CASE ReadTarget
  <2>1. TypeOK'
      BY <1>11, ReadTargetType
  <2>2. StatusInv' /\ DurableInv'
      BY <1>11 DEF ReadTarget, Raise, EnterRollback
  <2>3. WriterInv'
      BY <1>11 DEF ReadTarget, Raise, EnterRollback
  <2>4. ApplyInv'
      BY <1>11 DEF ReadTarget, Raise, EnterRollback
  <2>5. RestoreInv'
      BY <1>11 DEF ReadTarget, Raise, EnterRollback
  <2> QED
      BY <2>1, <2>2, <2>3, <2>4, <2>5
<1>12. CASE ReplaceTarget
    BY <1>12, SMTT(30) DEF ReplaceTarget, Raise, EnterRollback, NextTarget, Writes, WriteRaises
<1>13. CASE MarkValidating
    BY <1>13 DEF MarkValidating, JournalUpdates, JournalRefuses, JournalTransitions, Raise, EnterRollback
<1>14. CASE ValidateTarget
  <2>1. TypeOK'
      BY <1>14, ValidateTargetType
  <2>2. StatusInv' /\ DurableInv'
      BY <1>14 DEF ValidateTarget, Raise, EnterRollback, NextTarget
  <2>3. WriterInv'
      BY <1>14 DEF ValidateTarget, Raise, EnterRollback, NextTarget
  <2>4. ApplyInv'
      BY <1>14 DEF ValidateTarget, Raise, EnterRollback, NextTarget
  <2>5. RestoreInv'
      BY <1>14 DEF ValidateTarget, Raise, EnterRollback, NextTarget
  <2> QED
      BY <2>1, <2>2, <2>3, <2>4, <2>5
<1>15. CASE ValidateRuntime
    BY <1>15 DEF ValidateRuntime, Raise, EnterRollback
<1>16. CASE AuditCommitted
    BY <1>16 DEF AuditCommitted, AuditAppends, AuditRaises, Raise, EnterRollback
<1>17. CASE CommitJournal
    BY <1>17 DEF CommitJournal, JournalUpdates, JournalRefuses, JournalTransitions, Raise, EnterRollback, Return
<1>18. CASE ReportFailure
    BY <1>18 DEF ReportFailure, AuditAppends, AuditRaises, Return
<1>19. CASE RollbackJournal
  <2>4. journalOk' \in BOOLEAN
      BY <1>19 DEF RollbackJournal
  <2>5. pc' \in PCs /\ journal' \in JournalStatus \union {"none"}
      BY <1>19 DEF RollbackJournal, JournalUpdates, JournalRefuses, JournalTransitions
  <2>6. UNCHANGED <<i, status, ok, outcome, cancelled, disk, stale, store, log>>
      BY <1>19 DEF RollbackJournal
  <2>1. TypeOK'
      BY <2>4, <2>5, <2>6
  <2>7. StatusInv'
      BY <1>19 DEF RollbackJournal, JournalUpdates, JournalRefuses, JournalTransitions
  <2>2. DurableInv' /\ WriterInv'
      BY <1>19 DEF RollbackJournal, JournalUpdates, JournalRefuses, JournalTransitions
  <2>3. ApplyInv' /\ RestoreInv'
      BY <1>19 DEF RollbackJournal, JournalUpdates, JournalRefuses, JournalTransitions
  <2> QED
      BY <2>1, <2>2, <2>3, <2>7
<1>20. CASE RollbackVerify
  <2>1. TypeOK'
      BY <1>20, RollbackVerifyType
  <2>2. StatusInv' /\ DurableInv'
      BY <1>20 DEF RollbackVerify
  <2>3. WriterInv'
      BY <1>20 DEF RollbackVerify
  <2>4. ApplyInv'
      BY <1>20 DEF RollbackVerify
  <2>5. RestoreInv'
      BY <1>20 DEF RollbackVerify
  <2> QED
      BY <2>1, <2>2, <2>3, <2>4, <2>5
<1>21. CASE RestoreTarget
  <2>1. TypeOK'
      BY <1>21, RestoreTargetType
  <2>2. StatusInv' /\ DurableInv'
      BY <1>21 DEF RestoreTarget, Writes, WriteRaises
  <2>3. WriterInv'
      BY <1>21 DEF RestoreTarget, Writes, WriteRaises
  <2>4. ApplyInv'
      BY <1>21 DEF RestoreTarget, Writes, WriteRaises
  <2>5. RestoreInv'
      BY <1>21 DEF RestoreTarget, Writes, WriteRaises
  <2> QED
      BY <2>1, <2>2, <2>3, <2>4, <2>5
<1>22. CASE RollbackAudit
  <2>1. StatusInv'
      BY <1>22 DEF RollbackAudit, AuditAppends, AuditRaises, RollbackStatus
  <2>4. ok' \in BOOLEAN /\ auditOk' \in BOOLEAN
      BY <1>22 DEF RollbackAudit, AuditAppends, AuditRaises
  <2>5. lastEvent' \in Events \union {"none"} /\ pc' \in PCs
      BY <1>22 DEF RollbackAudit, AuditAppends, AuditRaises, RollbackStatus
  <2>6. UNCHANGED <<i, status, journalOk, outcome, cancelled, disk, stale, store, journal>>
      BY <1>22 DEF RollbackAudit
  <2>2. DurableInv' /\ WriterInv'
      BY <1>22 DEF RollbackAudit, AuditAppends, AuditRaises, RollbackStatus
  <2>3. ApplyInv' /\ RestoreInv'
      BY <1>22 DEF RollbackAudit, AuditAppends, AuditRaises, RollbackStatus
  <2> QED
      BY <2>1, <2>2, <2>3, <2>4, <2>5, <2>6
<1>23. CASE RollbackClose
    BY <1>23 DEF RollbackClose, JournalUpdates, JournalRefuses, JournalTransitions, Return, RollbackStatus
<1> QED
    BY <1>1, <1>2, <1>3, <1>4, <1>5, <1>6, <1>7, <1>8, <1>9, <1>10, <1>11, <1>12, <1>13, <1>14, <1>15, <1>16, <1>17, <1>18, <1>19, <1>20, <1>21, <1>22, <1>23 DEF Coordinator

LEMMA EnvironmentStep == IInv /\ Environment => IInv'
<1> SUFFICES ASSUME IInv, Environment PROVE IInv'
    OBVIOUS
<1> USE NTargetsAssumption, BoundsAssumption
<1> USE DEF IInv, TypeOK, StatusInv, DurableInv, WriterInv, ApplyInv, RestoreInv,
            Recoverable, Targets, Contents, Writers, Outcomes, Events, PCs,
            JournalStatus, Captures, Prepares, Applies, Validates, RollsBack,
            Stopped, control, disk, store, log, Goto
<1>1. CASE Cancel
    BY <1>1 DEF Cancel
<1>2. ASSUME NEW t \in Targets, NEW c \in {Before, After} \union Foreign, Edit(t, c)
      PROVE  IInv'
    BY <1>2 DEF Edit
<1>3. ASSUME NEW t \in Targets, DamageItem(t)
      PROVE  IInv'
    BY <1>3 DEF DamageItem
<1>4. CASE Crash
    BY <1>4 DEF Crash
<1> QED
    BY <1>1, <1>2, <1>3, <1>4 DEF Environment

LEMMA StutteringStep == IInv /\ UNCHANGED vars => IInv'
    BY DEF IInv, TypeOK, StatusInv, DurableInv, WriterInv, ApplyInv, RestoreInv,
           Recoverable, vars, control, disk, store, log

\* The inductive invariant holds in every reachable state.
THEOREM Invariance == Spec => []IInv
<1>1. IInv /\ [Next]_vars => IInv'
    BY CoordinatorStep, EnvironmentStep, StutteringStep DEF Next
<1> QED
    BY InitialState, <1>1, PTL DEF Spec

----------------------------------------------------------------------------
(* The properties follow from the invariant.                               *)

\* Every variable keeps its type.
THEOREM TypeCorrectness == Spec => []TypeOK
<1>1. IInv => TypeOK
    BY DEF IInv
<1> QED
    BY Invariance, <1>1, PTL

\* No write of the coordinator is ever on the disk without the complete backup
\* and the journal that lead back from it, whenever the process dies.
THEOREM RecoverableAlways == Spec => []Recoverable
<1>1. IInv => Recoverable
    BY DEF IInv, DurableInv
<1> QED
    BY Invariance, <1>1, PTL

\* A COMMITTED outcome has a COMMITTED journal and every target changed.
THEOREM CommittedAlwaysApplied == Spec => []CommittedIsApplied
<1>1. IInv => CommittedIsApplied
  <2> SUFFICES ASSUME IInv, outcome = "committed" PROVE CommittedIsApplied
      BY DEF CommittedIsApplied
  <2>1. journal = "committed" /\ \A t \in Targets : writer[t] \in {"apply", "editor"}
      BY DEF IInv, ApplyInv
  <2>2. \A t \in Targets : writer[t] = "apply" => file[t] = After
      BY DEF IInv, WriterInv
  <2> QED
      BY <2>1, <2>2 DEF CommittedIsApplied
<1> QED
    BY Invariance, <1>1, PTL

\* ROLLED_BACK, as outcome or in the journal, is only said of restored targets.
THEOREM RolledBackAlwaysRestored == Spec => []RolledBackIsRestored
<1>1. IInv => RolledBackIsRestored
  <2> SUFFICES ASSUME IInv, outcome = "rolled_back" \/ journal = "rolled_back",
                      NEW t \in Targets \ damaged
               PROVE  writer[t] = "editor" \/ Restored(t)
      BY DEF RolledBackIsRestored
  <2>1. writer[t] \in {"restore", "editor"}
      BY DEF IInv, RestoreInv
  <2> QED
      BY <2>1 DEF IInv, WriterInv, Restored
<1> QED
    BY Invariance, <1>1, PTL

\* A run that ends APPROVED or raises has written nothing.
THEOREM UnstartedAlwaysUntouched == Spec => []UnstartedIsUntouched
<1>1. IInv => UnstartedIsUntouched
    BY DEF IInv, StatusInv, ApplyInv, UnstartedIsUntouched
<1> QED
    BY Invariance, <1>1, PTL

\* What is in the audit log when execute, or _rollback, makes its last call.
AuditInv ==
    /\ pc = "commit_journal" => lastEvent = "apply.committed"
    /\ pc = "rb_close" /\ ok /\ journalOk => lastEvent = "rollback.completed"
    /\ AuditAgrees

LEMMA AuditStep == IInv /\ AuditInv /\ [Next]_vars => AuditInv'
<1> SUFFICES ASSUME IInv, AuditInv, [Next]_vars PROVE AuditInv'
    OBVIOUS
<1> USE DEF AuditInv, AuditAgrees
<1>0. pc = "done" <=> outcome # "none"
    BY DEF IInv, StatusInv
<1>1. CASE AuditApproved
    BY <1>0, <1>1 DEF AuditApproved, AuditAppends, AuditRaises, Return, Goto
<1>2. CASE AuditUnverified
    BY <1>0, <1>2 DEF AuditUnverified, AuditAppends, AuditRaises, Return, Raise, EnterRollback, Goto
<1>3. CASE AuditVerified
    BY <1>0, <1>3 DEF AuditVerified, AuditAppends, AuditRaises, Raise, EnterRollback, Goto
<1>4. CASE AuditCommitted
    BY <1>0, <1>4 DEF AuditCommitted, AuditAppends, AuditRaises, Raise, EnterRollback, Goto
<1>5. CASE CommitJournal
    BY <1>0, <1>5 DEF CommitJournal, Return, EnterRollback, Goto, log
<1>6. CASE ReportFailure
    BY <1>0, <1>6 DEF ReportFailure, AuditAppends, AuditRaises, Return, Goto
<1>7. CASE RollbackAudit
    BY <1>0, <1>7 DEF RollbackAudit, RollbackStatus, AuditAppends, AuditRaises, Goto
<1>8. CASE RollbackClose
    BY <1>0, <1>8 DEF RollbackClose, RollbackStatus, Return, log
<1>9. CASE \/ CaptureTarget \/ PersistBackup \/ VerifyBackup \/ Prepare \/ OpenJournal \/ Begin
           \/ Recheck \/ ReadTarget \/ ReplaceTarget \/ MarkValidating \/ ValidateTarget
           \/ ValidateRuntime \/ RollbackJournal \/ RollbackVerify \/ RestoreTarget
  <2>1. UNCHANGED <<outcome, log>> /\ pc' \notin {"commit_journal", "rb_close"}
      BY <1>9 DEF CaptureTarget, PersistBackup, VerifyBackup, Prepare, CheckTarget, OpenJournal,
           Begin, Recheck, ReadTarget, ReplaceTarget, MarkValidating, ValidateTarget, ValidateRuntime,
           RollbackJournal, RollbackVerify, RestoreTarget, NextTarget, Raise, EnterRollback, Goto, log
  <2> QED
      BY <2>1 DEF log
<1>10. CASE Environment
    BY <1>10 DEF Environment, Cancel, Edit, DamageItem, Crash, control, log, Goto
<1>11. CASE UNCHANGED vars
    BY <1>11 DEF vars, control, log
<1> QED
    BY <1>1, <1>2, <1>3, <1>4, <1>5, <1>6, <1>7, <1>8, <1>9, <1>10, <1>11 DEF Next, Coordinator

\* The newest audit event agrees with the outcome, whichever append failed.
THEOREM AuditAlwaysAgrees == Spec => []AuditAgrees
<1>1. Init => AuditInv
    BY DEF Init, AuditInv, AuditAgrees
<1>2. AuditInv => AuditAgrees
    BY DEF AuditInv
<1> QED
    BY Invariance, <1>1, <1>2, AuditStep, PTL DEF Spec

----------------------------------------------------------------------------
(* The route implements the abstract specifications.                       *)

\* phase and holds, as the contract sees them, after a step that writes at
\* most target t.
LEMMA OpenWhileRunning == IInv /\ pc # "done" => phase = "open"
    BY DEF IInv, StatusInv, phase

\* A write of one target by the coordinator is a Write of the contract, one by
\* another program a ForeignWrite.
LEMMA WriteMapsToWrite ==
    ASSUME TypeOK, phase = "open", phase' = phase, NEW t \in Targets,
           NEW content, NEW who \in {"apply", "restore"}, Writes(t, content, who)
    PROVE  Contract!Write(t)
<1>1. writer' = [writer EXCEPT ![t] = who]
    BY DEF Writes
<1>2. holds' = [holds EXCEPT ![t] = Holding[who]]
    BY <1>1 DEF holds, TypeOK
<1>3. Holding[who] \in {"changed", "restored"}
    BY DEF Holding
<1> QED
    BY <1>2, <1>3 DEF Contract!Write

LEMMA EditMapsToForeignWrite ==
    ASSUME TypeOK, NEW t \in Targets, NEW content, Edit(t, content)
    PROVE  Contract!ForeignWrite(t)
<1>1. writer' = [writer EXCEPT ![t] = "editor"]
    BY DEF Edit
<1>2. holds' = [holds EXCEPT ![t] = "foreign"]
    BY <1>1 DEF holds, TypeOK, Holding
<1>3. phase' = phase
    BY DEF Edit, control, phase
<1> QED
    BY <1>2, <1>3 DEF Contract!ForeignWrite

\* A step that leaves writer and outcome alone is a stutter of the contract.
LEMMA QuietStep ==
    UNCHANGED <<writer, outcome>> => UNCHANGED Contract!vars
    BY DEF Contract!vars, phase, holds

\* The step in which execute returns closes the contract in the right phase.
LEMMA ReturnMapsToClose ==
    ASSUME IInv, IInv', outcome = "none", outcome' # "none", writer' = writer
    PROVE  Contract!Next
<1>1. phase = "open" /\ holds' = holds
    BY DEF phase, holds
<1>2. outcome' \in Outcomes
    BY DEF IInv, TypeOK
<1>3. \A t \in Targets : writer[t] \in Writers
    BY DEF IInv, TypeOK
<1>4. CASE outcome' \in {"approved", "raised"}
  <2>1. \A t \in Targets : writer[t] \in {"none", "editor"}
      BY <1>4 DEF IInv, StatusInv, ApplyInv
  <2>2. \A t \in Targets : holds[t] \in {"original", "foreign"}
      BY <2>1 DEF holds, Holding
  <2>3. phase' = "untouched"
      BY <1>4 DEF phase
  <2> QED
      BY <1>1, <2>2, <2>3 DEF Contract!Next, Contract!Close
<1>5. CASE outcome' = "committed"
  <2>1. \A t \in Targets : writer[t] \in {"apply", "editor"}
      BY <1>5 DEF IInv, ApplyInv
  <2>2. \A t \in Targets : holds[t] \in {"changed", "foreign"}
      BY <2>1 DEF holds, Holding
  <2>3. phase' = "committed"
      BY <1>5 DEF phase
  <2> QED
      BY <1>1, <2>2, <2>3 DEF Contract!Next, Contract!Close
<1>6. CASE outcome' = "rolled_back"
  <2>1. \A t \in Targets : writer[t] \in {"restore", "editor"}
      BY <1>6 DEF IInv, RestoreInv
  <2>2. \A t \in Targets : holds[t] \in {"original", "restored", "foreign"}
      BY <2>1 DEF holds, Holding
  <2>3. phase' = "restored"
      BY <1>6 DEF phase
  <2> QED
      BY <1>1, <2>2, <2>3 DEF Contract!Next, Contract!Close
<1>7. CASE outcome' = "recovery_required"
  <2>1. \A t \in Targets : holds[t] \in Contract!Holdings
      BY <1>3 DEF holds, Holding, Writers, Contract!Holdings
  <2>2. phase' = "attention"
      BY <1>7 DEF phase
  <2> QED
      BY <1>1, <2>1, <2>2 DEF Contract!Next, Contract!Close
<1> QED
    BY <1>2, <1>4, <1>5, <1>6, <1>7 DEF Outcomes

LEMMA ContractStep ==
    IInv /\ IInv' /\ [Next]_vars => [Contract!Next]_(Contract!vars)
<1> SUFFICES ASSUME IInv, IInv', [Next]_vars PROVE [Contract!Next]_(Contract!vars)
    OBVIOUS
<1>1. \/ UNCHANGED <<writer, outcome>>
      \/ outcome = "none" /\ outcome' # "none" /\ writer' = writer
      \/ /\ pc # "done" /\ UNCHANGED outcome
         /\ \E t \in Targets, who \in {"apply", "restore"}, content \in Contents :
               Writes(t, content, who)
      \/ \E t \in Targets, content \in Contents : Edit(t, content)
  <2>1. CASE ReplaceTarget
      BY <2>1 DEF ReplaceTarget, WriteRaises, disk, IInv, TypeOK, Contents
  <2>2. CASE RestoreTarget
    <3> DEFINE content == IF i \in damaged THEN Garbage ELSE snap[i]
    <3>1. content \in Contents /\ i \in Targets
        BY DEF IInv, TypeOK, Contents
    <3>2. /\ pc # "done" /\ UNCHANGED outcome
          /\ Writes(i, content, "restore") \/ UNCHANGED disk
        BY <2>2 DEF RestoreTarget, WriteRaises
    <3> QED
        BY <3>1, <3>2 DEF disk
  <2>3. CASE AuditApproved \/ AuditUnverified \/ ReportFailure \/ CommitJournal \/ RollbackClose
      BY <2>3 DEF AuditApproved, AuditUnverified, ReportFailure, CommitJournal,
                  RollbackClose, RollbackStatus, Return, EnterRollback, disk, IInv, StatusInv
  <2>4. CASE CaptureTarget \/ PersistBackup \/ VerifyBackup \/ AuditVerified \/ Prepare
             \/ OpenJournal \/ Begin \/ Recheck \/ ReadTarget
      BY <2>4 DEF CaptureTarget, PersistBackup, VerifyBackup, AuditVerified, Prepare,
                  OpenJournal, Begin, Recheck, CheckTarget, ReadTarget, disk
  <2>5. CASE MarkValidating \/ ValidateTarget \/ ValidateRuntime \/ AuditCommitted
             \/ RollbackJournal \/ RollbackVerify \/ RollbackAudit
      BY <2>5 DEF MarkValidating, ValidateTarget, ValidateRuntime, AuditCommitted,
                  RollbackJournal, RollbackVerify, RollbackAudit, disk
  <2>6. CASE Environment
      BY <2>6 DEF Environment, Cancel, DamageItem, Crash, control, disk, Contents
  <2>7. CASE UNCHANGED vars
      BY <2>7 DEF vars, control, disk
  <2> QED
      BY <2>1, <2>2, <2>3, <2>4, <2>5, <2>6, <2>7 DEF Next, Coordinator
<1>2. CASE \E t \in Targets, who \in {"apply", "restore"}, content \in Contents :
             pc # "done" /\ UNCHANGED outcome /\ Writes(t, content, who)
  <2>1. phase = "open" /\ phase' = phase
      BY <1>2, OpenWhileRunning DEF phase
  <2> QED
      BY <1>2, <2>1, WriteMapsToWrite DEF Contract!Next, IInv
<1>3. CASE \E t \in Targets, content \in Contents : Edit(t, content)
    BY <1>3, EditMapsToForeignWrite DEF Contract!Next, IInv
<1> QED
    BY <1>1, <1>2, <1>3, QuietStep, ReturnMapsToClose

\* The local apply route keeps the contract of all apply routes.
THEOREM ContractImplemented == Spec => ImplementsContract
<1>1. Init => Contract!Init
    BY DEF Init, Contract!Init, phase, holds, Holding
<1> QED
    BY Invariance, <1>1, ContractStep, PTL DEF Spec, ImplementsContract, Contract!Spec

\* The steps of the plan state machine: every other action leaves it alone.
LEMMA WorkflowStep ==
    IInv /\ [Next]_vars => [Workflow!Next]_status
<1> SUFFICES ASSUME IInv, [Next]_vars, status' # status
             PROVE  \E s \in Workflow!PlanStatus : s \in Workflow!Allowed[status] /\ status' = s
    BY DEF Workflow!Next, Workflow!TransitionTo
<1> USE DEF Workflow!PlanStatus, Workflow!Allowed
<1>1. CASE EnterRollback /\ status \in {"applying", "validating"}
    BY <1>1 DEF EnterRollback
<1>2. CASE status = "approved" /\ status' = "backed_up"
    BY <1>2
<1>3. CASE status = "backed_up" /\ status' = "applying"
    BY <1>3
<1>4. CASE status = "applying" /\ status' = "validating"
    BY <1>4
<1>5. CASE status = "validating" /\ status' = "committed"
    BY <1>5
<1>6. CASE status = "rolling_back" /\ status' \in {"rolled_back", "recovery_required"}
    BY <1>6
<1>7. \/ EnterRollback /\ status \in {"applying", "validating"}
      \/ status = "approved" /\ status' = "backed_up"
      \/ status = "backed_up" /\ status' = "applying"
      \/ status = "applying" /\ status' = "validating"
      \/ status = "validating" /\ status' = "committed"
      \/ status = "rolling_back" /\ status' \in {"rolled_back", "recovery_required"}
  <2> USE DEF IInv, StatusInv, Captures, Prepares, Applies, Validates, RollsBack
  <2>1. CASE AuditApproved \/ CaptureTarget \/ PersistBackup \/ VerifyBackup
             \/ AuditUnverified \/ AuditVerified \/ Prepare
      BY <2>1 DEF AuditApproved, CaptureTarget, PersistBackup, VerifyBackup,
                  AuditUnverified, AuditVerified, Prepare, CheckTarget, Raise
  <2>2. CASE OpenJournal \/ Begin \/ Recheck \/ ReadTarget \/ ReplaceTarget
      BY <2>2 DEF OpenJournal, Begin, Recheck, CheckTarget, ReadTarget, ReplaceTarget, Raise
  <2>3. CASE MarkValidating \/ ValidateTarget \/ ValidateRuntime \/ AuditCommitted
             \/ CommitJournal \/ ReportFailure
      BY <2>3 DEF MarkValidating, ValidateTarget, ValidateRuntime, AuditCommitted,
                  CommitJournal, ReportFailure, Raise
  <2>4. CASE RollbackJournal \/ RollbackVerify \/ RestoreTarget \/ RollbackAudit
             \/ RollbackClose
      BY <2>4 DEF RollbackJournal, RollbackVerify, RestoreTarget, RollbackAudit,
                  RollbackClose, RollbackStatus
  <2>5. CASE Environment \/ UNCHANGED vars
      BY <2>5 DEF Environment, Cancel, Edit, DamageItem, Crash, control, vars
  <2> QED
      BY <2>1, <2>2, <2>3, <2>4, <2>5 DEF Next, Coordinator
<1> QED
    BY <1>1, <1>2, <1>3, <1>4, <1>5, <1>6, <1>7

\* execute and _rollback drive the plan state machine only along its table.
THEOREM WorkflowImplemented == Spec => ImplementsWorkflow
<1>1. Init => Workflow!Init
    BY DEF Init, Workflow!Init
<1> QED
    BY Invariance, <1>1, WorkflowStep, PTL DEF Spec, ImplementsWorkflow, Workflow!Spec
=============================================================================
