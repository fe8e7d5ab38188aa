------------------------------ MODULE SafeApply -----------------------------
(***************************************************************************)
(* The local user-level apply route: SafeApplyCoordinator.execute and its  *)
(* _rollback (infrastructure/safe_apply.py) with the parts they drive:     *)
(* AtomicFileExecutor, FileValidator, LocalBackupStore (create, verify,    *)
(* restore), LocalOperationJournal (create, update) and LocalAuditLog      *)
(* (append).  One action per call the coordinator makes, one per target    *)
(* where that call loops over targets, so that other programs' edits, a    *)
(* cancel request, a storage fault or the death of the process can fall    *)
(* between any two of them.                                                *)
(*                                                                         *)
(* A file is its content: Before is the content the plan was made from     *)
(* (its hash is Change.before_hash), After the rendered one.  The content  *)
(* may stand for an absent file.  A failing _atomic_write either leaves    *)
(* the path as it was or has already replaced it (the fsync of the         *)
(* directory comes after os.replace), and raises in both cases.            *)
(***************************************************************************)
EXTENDS Integers

CONSTANTS NTargets,   \* number of distinct targets of the change set
          Before,     \* content the plan was computed from
          After,      \* content rendered from the approved changes
          Foreign,    \* other contents an editor may write
          Garbage,    \* what a damaged backup item decodes to
          MayFail,    \* whether storage operations can fail
          MaxEdits,   \* bound: writes by other programs
          MaxDamage   \* bound: 1 if one stored backup item can go bad, else 0

ASSUME NTargetsAssumption == NTargets \in Nat \ {0}
ASSUME ContentAssumption == /\ Before # After
                            /\ Garbage \notin {Before, After} \union Foreign
ASSUME BoundsAssumption == /\ MayFail \in BOOLEAN
                           /\ MaxEdits \in Nat
                           /\ MaxDamage \in {0, 1}

VARIABLES
    pc,         \* the call of execute or _rollback that comes next
    i,          \* the target that call has reached
    status,     \* PlanStateMachine.status
    ok,         \* _passed of the results collected so far
    journalOk,  \* journal_ok of _rollback
    outcome,    \* ApplyOutcome.status, "raised" if execute raises, or "none"
    cancelled,  \* CancellationToken.cancelled
    file,       \* content of each target
    writer,     \* history: who wrote each target last
    edits,      \* number of writes by other programs
    stale,      \* history: targets found to differ from before_hash
    backup,     \* the backup directory: "none", "partial" or "complete" (has its manifest)
    snap,       \* content captured for each target, as the manifest's sha256 names it
    damaged,    \* stored items that no longer match the manifest
    journal,    \* status in the operation journal file, or "none"
    lastEvent,  \* newest event file of the audit log, or "none"
    auditOk     \* HEAD of the audit log matches its event files

control == <<pc, i, status, ok, journalOk, outcome>>
disk    == <<file, writer, edits>>
store   == <<backup, snap, damaged>>
log     == <<lastEvent, auditOk>>
vars    == <<control, cancelled, disk, stale, store, journal, log>>

Targets  == 1..NTargets
Contents == {Before, After, Garbage} \union Foreign
Writers  == {"none", "apply", "restore", "editor"}
Outcomes == {"raised", "approved", "committed", "rolled_back", "recovery_required"}
Events   == {"apply.approved", "backup.failed", "backup.verified", "apply.committed",
             "rollback.completed", "rollback.recovery_required"}
PCs == {"approved_audit", "capture", "persist", "verify", "unverified_audit",
        "verified_audit", "prepare", "open_journal", "begin", "recheck", "read",
        "replace", "mark_validating", "validate", "runtime", "commit_audit",
        "commit_journal", "report_failure", "rb_journal", "rb_verify", "rb_restore",
        "rb_audit", "rb_close", "done", "crashed"}

\* _TRANSITIONS of journal.py.
JournalStatus == {"applying", "validating", "rolling_back", "committed",
                  "rolled_back", "recovery_required"}
JournalTransitions ==
    [none              |-> {},
     applying          |-> {"validating", "rolling_back"},
     validating        |-> {"committed", "rolling_back"},
     rolling_back      |-> {"rolled_back", "recovery_required"},
     committed         |-> {},
     rolled_back       |-> {},
     recovery_required |-> {}]

Init ==
    /\ pc = "approved_audit" /\ i = 1 /\ status = "approved"
    /\ ok = TRUE /\ journalOk = TRUE /\ outcome = "none" /\ cancelled = FALSE
    /\ file = [t \in Targets |-> Before] /\ writer = [t \in Targets |-> "none"]
    /\ edits = 0 /\ stale = {}
    /\ backup = "none" /\ snap = [t \in Targets |-> Before] /\ damaged = {}
    /\ journal = "none" /\ lastEvent = "none" /\ auditOk = TRUE

----------------------------------------------------------------------------
(* The calls the coordinator makes, by what they leave behind.             *)

\* LocalAuditLog.append: it validates the chain, writes the event file, then
\* HEAD.  A failure in between leaves a chain every later append refuses.
AuditAppends(e) == auditOk /\ lastEvent' = e /\ UNCHANGED auditOk
AuditRaises(e) == \/ (MayFail \/ ~auditOk) /\ UNCHANGED log
                  \/ MayFail /\ auditOk /\ lastEvent' = e /\ auditOk' \in BOOLEAN

\* LocalOperationJournal.update under _journal_update: TRUE or FALSE.
JournalUpdates(s) == s \in JournalTransitions[journal] /\ journal' = s
JournalRefuses(s) == \/ (MayFail \/ s \notin JournalTransitions[journal]) /\ UNCHANGED journal
                     \/ MayFail /\ s \in JournalTransitions[journal] /\ journal' = s

\* _atomic_write of a target.
Writes(t, content, who) == /\ file' = [file EXCEPT ![t] = content]
                           /\ writer' = [writer EXCEPT ![t] = who]
                           /\ UNCHANGED edits
WriteRaises(t, content, who) ==
    MayFail /\ (UNCHANGED disk \/ Writes(t, content, who))

Goto(label) == pc' = label
Return(verdict) == pc' = "done" /\ outcome' = verdict

\* execute calls _rollback, which first moves the machine to ROLLING_BACK.
EnterRollback == Goto("rb_journal") /\ status' = "rolling_back"

\* The except clause of execute.
Raise == \/ status = "approved" /\ Goto("report_failure") /\ UNCHANGED status
         \/ status # "approved" /\ EnterRollback

\* What the loops over targets do next.
NextTarget(loop, after) ==
    \/ i < NTargets /\ Goto(loop) /\ i' = i + 1
    \/ i = NTargets /\ Goto(after) /\ i' = 1

----------------------------------------------------------------------------
(* execute, up to the first write.                                         *)

AuditApproved ==
    /\ pc = "approved_audit"
    /\ \/ AuditAppends("apply.approved") /\ Goto("capture") /\ UNCHANGED outcome
       \/ AuditRaises("apply.approved") /\ Return("raised")
    /\ UNCHANGED <<i, status, ok, journalOk, cancelled, disk, stale, store, journal>>

\* LocalBackupStore.create reads each target as it is now: the hash the
\* plan was made from is not required here.
CaptureTarget ==
    /\ pc = "capture"
    /\ \/ /\ ~cancelled
          /\ snap' = [snap EXCEPT ![i] = file[i]]
          /\ NextTarget("capture", "persist")
          /\ UNCHANGED status
       \/ (cancelled \/ MayFail) /\ Raise /\ UNCHANGED <<i, snap>>
    /\ UNCHANGED <<ok, journalOk, outcome, cancelled, disk, stale, backup, damaged, journal, log>>

\* _persist_captured: items first, manifest.json last.
PersistBackup ==
    /\ pc = "persist"
    /\ \/ ~cancelled /\ backup' = "complete" /\ Goto("verify") /\ UNCHANGED status
       \/ (cancelled \/ MayFail) /\ backup' \in {"none", "partial"} /\ Raise
       \/ MayFail /\ ~cancelled /\ backup' = "complete" /\ Raise
    /\ UNCHANGED <<i, ok, journalOk, outcome, cancelled, disk, stale, snap, damaged, journal, log>>

VerifyBackup ==
    /\ pc = "verify"
    /\ \/ ~cancelled /\ damaged = {} /\ Goto("verified_audit") /\ UNCHANGED status
       \/ ~cancelled /\ damaged # {} /\ Goto("unverified_audit") /\ UNCHANGED status
       \/ (cancelled \/ MayFail) /\ Raise
    /\ UNCHANGED <<i, ok, journalOk, outcome, cancelled, disk, stale, store, journal, log>>

AuditUnverified ==
    /\ pc = "unverified_audit"
    /\ \/ AuditAppends("backup.failed") /\ Return("approved") /\ UNCHANGED status
       \/ AuditRaises("backup.failed") /\ Raise /\ UNCHANGED outcome
    /\ UNCHANGED <<i, ok, journalOk, cancelled, disk, stale, store, journal>>

AuditVerified ==
    /\ pc = "verified_audit"
    /\ \/ AuditAppends("backup.verified") /\ Goto("prepare") /\ UNCHANGED status
       \/ AuditRaises("backup.verified") /\ Raise
    /\ UNCHANGED <<i, ok, journalOk, outcome, cancelled, disk, stale, store, journal>>

\* One target of AtomicFileExecutor.prepare: _current compares its hash with
\* before_hash.  apply runs the whole of prepare once more.
CheckTarget(here, after) ==
    /\ pc = here
    /\ \/ ~cancelled /\ file[i] = Before /\ NextTarget(here, after) /\ UNCHANGED <<status, stale>>
       \/ ~cancelled /\ file[i] # Before /\ stale' = stale \union {i} /\ Raise /\ UNCHANGED i
       \/ (cancelled \/ MayFail) /\ Raise /\ UNCHANGED <<i, stale>>
    /\ UNCHANGED <<ok, journalOk, outcome, cancelled, disk, store, journal, log>>

Prepare == CheckTarget("prepare", "open_journal")

\* (mutant: a journal that cannot be created is not an error)
OpenJournalIfPossible ==
    /\ pc = "open_journal"
    /\ journal' \in {"none", "applying"} /\ status' = "backed_up" /\ Goto("begin")
    /\ UNCHANGED <<i, ok, journalOk, outcome, cancelled, disk, stale, store, log>>

OpenJournal ==
    /\ pc = "open_journal"
    /\ \/ journal' = "applying" /\ status' = "backed_up" /\ Goto("begin")
       \/ MayFail /\ journal' \in {"none", "applying"} /\ Raise
    /\ UNCHANGED <<i, ok, journalOk, outcome, cancelled, disk, stale, store, log>>

Begin ==
    /\ pc = "begin"
    /\ status' = "applying" /\ Goto("recheck")
    /\ UNCHANGED <<i, ok, journalOk, outcome, cancelled, disk, stale, store, journal, log>>

----------------------------------------------------------------------------
(* AtomicFileExecutor.apply.                                               *)

Recheck == CheckTarget("recheck", "read")

\* _current reads and compares the target once more...
ReadTarget ==
    /\ pc = "read"
    /\ \/ ~cancelled /\ file[i] = Before /\ Goto("replace") /\ UNCHANGED <<status, stale>>
       \/ ~cancelled /\ file[i] # Before /\ stale' = stale \union {i} /\ Raise
       \/ (cancelled \/ MayFail) /\ Raise /\ UNCHANGED stale
    /\ UNCHANGED <<i, ok, journalOk, outcome, cancelled, disk, store, journal, log>>

\* ...and _atomic_write replaces it by the content rendered from that read.
ReplaceTarget ==
    /\ pc = "replace"
    /\ \/ Writes(i, After, "apply") /\ NextTarget("read", "mark_validating") /\ UNCHANGED status
       \/ WriteRaises(i, After, "apply") /\ Raise /\ UNCHANGED i
    /\ UNCHANGED <<ok, journalOk, outcome, cancelled, stale, store, journal, log>>

----------------------------------------------------------------------------
(* execute, from the last write to COMMITTED.                              *)

\* (mutant: the machine stays behind the journal)
MarkJournalOnly ==
    /\ pc = "mark_validating"
    /\ \/ JournalUpdates("validating") /\ UNCHANGED status /\ Goto("validate")
       \/ JournalRefuses("validating") /\ EnterRollback
    /\ UNCHANGED <<i, ok, journalOk, outcome, cancelled, disk, stale, store, log>>

MarkValidating ==
    /\ pc = "mark_validating"
    /\ \/ JournalUpdates("validating") /\ status' = "validating" /\ Goto("validate")
       \/ JournalRefuses("validating") /\ EnterRollback
    /\ UNCHANGED <<i, ok, journalOk, outcome, cancelled, disk, stale, store, log>>

\* One target of FileValidator.validate; a failed check does not end the loop.
ValidateTarget ==
    /\ pc = "validate"
    /\ \/ /\ ~cancelled
          /\ \/ file[i] = After /\ UNCHANGED ok
             \/ ok' = FALSE
          /\ NextTarget("validate", "runtime")
          /\ UNCHANGED status
       \/ (cancelled \/ MayFail) /\ Raise /\ UNCHANGED <<i, ok>>
    /\ UNCHANGED <<journalOk, outcome, cancelled, disk, stale, store, journal, log>>

\* The runtime validator observes services and APIs: any answer is possible.
ValidateRuntime ==
    /\ pc = "runtime"
    /\ \/ ok /\ ~cancelled /\ Goto("commit_audit") /\ UNCHANGED status
       \/ EnterRollback
    /\ UNCHANGED <<i, ok, journalOk, outcome, cancelled, disk, stale, store, journal, log>>

AuditCommitted ==
    /\ pc = "commit_audit"
    /\ \/ AuditAppends("apply.committed") /\ Goto("commit_journal") /\ UNCHANGED status
       \/ AuditRaises("apply.committed") /\ Raise
    /\ UNCHANGED <<i, ok, journalOk, outcome, cancelled, disk, stale, store, journal>>

\* The last journal update of a commit; it may still be refused.
CommitJournal ==
    /\ pc = "commit_journal"
    /\ \/ JournalUpdates("committed") /\ status' = "committed" /\ Return("committed")
       \/ JournalRefuses("committed") /\ EnterRollback /\ UNCHANGED outcome
    /\ UNCHANGED <<i, ok, journalOk, cancelled, disk, stale, store, log>>

\* The except clause with the machine still APPROVED.
ReportFailure ==
    /\ pc = "report_failure"
    /\ \/ AuditAppends("backup.failed") /\ Return("approved")
       \/ AuditRaises("backup.failed") /\ Return("raised")
    /\ UNCHANGED <<i, status, ok, journalOk, cancelled, disk, stale, store, journal>>

----------------------------------------------------------------------------
(* _rollback, with the same cancellation token.                            *)

RollbackJournal ==
    /\ pc = "rb_journal"
    /\ \/ JournalUpdates("rolling_back") /\ journalOk' = TRUE
       \/ JournalRefuses("rolling_back") /\ journalOk' = FALSE
    /\ Goto("rb_verify")
    /\ UNCHANGED <<i, status, ok, outcome, cancelled, disk, stale, store, log>>

\* (mutants: an unusable backup counts as restored; is tried for ever)
RollbackVerifyLenient ==
    /\ pc = "rb_verify"
    /\ \/ ~cancelled /\ damaged = {} /\ ok' = TRUE /\ i' = NTargets /\ Goto("rb_restore")
       \/ (cancelled \/ damaged # {} \/ MayFail) /\ ok' = TRUE /\ Goto("rb_audit") /\ UNCHANGED i
    /\ UNCHANGED <<status, journalOk, outcome, cancelled, disk, stale, store, journal, log>>
RollbackVerifyRetried ==
    /\ pc = "rb_verify"
    /\ \/ ~cancelled /\ damaged = {} /\ ok' = TRUE /\ i' = NTargets /\ Goto("rb_restore")
       \/ (cancelled \/ damaged # {} \/ MayFail) /\ ok' = FALSE /\ Goto("rb_journal") /\ UNCHANGED i
    /\ UNCHANGED <<status, journalOk, outcome, cancelled, disk, stale, store, journal, log>>

\* restore verifies the backup and restores nothing from a damaged one.
RollbackVerify ==
    /\ pc = "rb_verify"
    /\ \/ ~cancelled /\ damaged = {} /\ ok' = TRUE /\ i' = NTargets /\ Goto("rb_restore")
       \/ (cancelled \/ damaged # {} \/ MayFail) /\ ok' = FALSE /\ Goto("rb_audit") /\ UNCHANGED i
    /\ UNCHANGED <<status, journalOk, outcome, cancelled, disk, stale, store, journal, log>>

\* One item, in reverse order, read from the backup now and written without
\* looking at the target.  An item that fails does not end the loop.
RestoreTarget ==
    LET content == IF i \in damaged THEN Garbage ELSE snap[i]
    IN  /\ pc = "rb_restore"
        /\ \/ /\ ~cancelled
              /\ \/ Writes(i, content, "restore") /\ UNCHANGED ok
                 \/ WriteRaises(i, content, "restore") /\ ok' = FALSE
              /\ \/ i > 1 /\ Goto("rb_restore") /\ i' = i - 1
                 \/ i = 1 /\ Goto("rb_audit") /\ UNCHANGED i
           \/ cancelled /\ ok' = FALSE /\ Goto("rb_audit") /\ UNCHANGED <<i, disk>>
        /\ UNCHANGED <<status, journalOk, outcome, cancelled, stale, store, journal, log>>

\* (mutant: the item results are forgotten)
RollbackStatusByJournal == IF journalOk THEN "rolled_back" ELSE "recovery_required"
RollbackStatus == IF ok /\ journalOk THEN "rolled_back" ELSE "recovery_required"

\* (mutant: the answer of _try_audit is ignored)
RollbackAuditUnchecked ==
    LET event == IF RollbackStatus = "rolled_back" THEN "rollback.completed"
                                                   ELSE "rollback.recovery_required"
    IN  /\ pc = "rb_audit"
        /\ AuditAppends(event) \/ AuditRaises(event)
        /\ Goto("rb_close")
        /\ UNCHANGED <<i, status, ok, journalOk, outcome, cancelled, disk, stale, store, journal>>

RollbackAudit ==
    LET event == IF RollbackStatus = "rolled_back" THEN "rollback.completed"
                                                   ELSE "rollback.recovery_required"
    IN  /\ pc = "rb_audit"
        /\ \/ AuditAppends(event) /\ UNCHANGED ok
           \/ AuditRaises(event) /\ ok' = FALSE
        /\ Goto("rb_close")
        /\ UNCHANGED <<i, status, journalOk, outcome, cancelled, disk, stale, store, journal>>

RollbackClose ==
    /\ pc = "rb_close"
    /\ JournalUpdates(RollbackStatus) \/ JournalRefuses(RollbackStatus)
    /\ status' = RollbackStatus /\ Return(RollbackStatus)
    /\ UNCHANGED <<i, ok, journalOk, cancelled, disk, stale, store, log>>

----------------------------------------------------------------------------
(* The environment.                                                        *)

\* The Cancel button, or closing the window.
Cancel == /\ pc \notin {"done", "crashed"} /\ ~cancelled
          /\ cancelled' = TRUE
          /\ UNCHANGED <<control, disk, stale, store, journal, log>>

Edit(t, content) ==
    /\ edits < MaxEdits /\ content # file[t]
    /\ file' = [file EXCEPT ![t] = content]
    /\ writer' = [writer EXCEPT ![t] = "editor"]
    /\ edits' = edits + 1
    /\ UNCHANGED <<control, cancelled, stale, store, journal, log>>

DamageItem(t) == /\ MaxDamage = 1 /\ backup = "complete" /\ damaged = {}
                 /\ damaged' = {t}
                 /\ UNCHANGED <<control, cancelled, disk, stale, backup, snap, journal, log>>

\* The process dies: only the disk is left.
Crash == /\ pc \notin {"done", "crashed"}
         /\ Goto("crashed")
         /\ UNCHANGED <<i, status, ok, journalOk, outcome, cancelled, disk, stale, store, journal, log>>

Coordinator ==
    \/ AuditApproved \/ CaptureTarget \/ PersistBackup \/ VerifyBackup
    \/ AuditUnverified \/ AuditVerified \/ Prepare \/ OpenJournal \/ Begin
    \/ Recheck \/ ReadTarget \/ ReplaceTarget \/ MarkValidating \/ ValidateTarget
    \/ ValidateRuntime \/ AuditCommitted \/ CommitJournal \/ ReportFailure
    \/ RollbackJournal \/ RollbackVerify \/ RestoreTarget \/ RollbackAudit
    \/ RollbackClose

Environment ==
    \/ Cancel
    \/ \E t \in Targets, c \in {Before, After} \union Foreign : Edit(t, c)
    \/ \E t \in Targets : DamageItem(t)
    \/ Crash

Next == Coordinator \/ Environment

Spec == Init /\ [][Next]_vars

\* The worker thread runs execute to its end unless the process dies.
FairSpec == Spec /\ WF_vars(Coordinator)

----------------------------------------------------------------------------
(* Properties.                                                             *)

\* Every variable has its type; the loop index stays a target.
TypeOK ==
    /\ pc \in PCs /\ i \in Targets /\ ok \in BOOLEAN /\ journalOk \in BOOLEAN
    /\ status \in JournalStatus \union {"approved", "backed_up"}
    /\ outcome \in Outcomes \union {"none"}
    /\ cancelled \in BOOLEAN
    /\ file \in [Targets -> Contents] /\ writer \in [Targets -> Writers]
    /\ edits \in 0..MaxEdits /\ stale \subseteq Targets
    /\ backup \in {"none", "partial", "complete"}
    /\ snap \in [Targets -> Contents] /\ damaged \subseteq Targets
    /\ journal \in JournalStatus \union {"none"}
    /\ lastEvent \in Events \union {"none"} /\ auditOk \in BOOLEAN

\* Whenever a target holds a write of the coordinator - also after the
\* process died in the middle - the disk has both the complete backup and the
\* journal that lead a person back (the order of execute's try block).
Recoverable ==
    (\E t \in Targets : writer[t] \in {"apply", "restore"})
        => backup = "complete" /\ journal # "none"

\* COMMITTED is returned only with a journal that says so, and then every
\* target was replaced by the approved content unless another program has
\* written it since (apply, validate and _journal_update in execute).
CommittedIsApplied ==
    outcome = "committed" =>
        /\ journal = "committed"
        /\ \A t \in Targets : \/ writer[t] = "editor"
                              \/ writer[t] = "apply" /\ file[t] = After

\* "Rolled back", returned or in the journal, means every target was put back
\* to the captured content (an item damaged after restore's own verification
\* apart), unless another program has written it since.
Restored(t) == writer[t] = "restore" /\ file[t] = snap[t]
RolledBackIsRestored ==
    (outcome = "rolled_back" \/ journal = "rolled_back") =>
        \A t \in Targets \ damaged : writer[t] = "editor" \/ Restored(t)

\* A run that ends APPROVED, or that raises, wrote no target.
UnstartedIsUntouched ==
    outcome \in {"approved", "raised"} =>
        \A t \in Targets : writer[t] \in {"none", "editor"}

\* The newest audit event agrees with the outcome the user is shown, even
\* though "apply.committed" is logged before the journal says COMMITTED and
\* the log can be refused at any append.  (It says nothing of the journal,
\* which may be left COMMITTED, or APPLYING, by a run that is rolled back.)
AuditAgrees ==
    /\ outcome = "committed" => lastEvent = "apply.committed"
    /\ outcome = "rolled_back" => lastEvent = "rollback.completed"
    /\ outcome = "approved" => lastEvent = "backup.failed"

\* The coordinator's view of each target, and how its run closes, in the
\* terms of the abstract contract.
phase == CASE outcome = "none"                       -> "open"
           [] outcome \in {"approved", "raised"}     -> "untouched"
           [] outcome = "committed"                  -> "committed"
           [] outcome = "rolled_back"                -> "restored"
           [] outcome = "recovery_required"          -> "attention"
Holding == [none |-> "original", apply |-> "changed",
            restore |-> "restored", editor |-> "foreign"]
holds == [t \in Targets |-> Holding[writer[t]]]

Contract == INSTANCE ApplyContract WITH MayOutlive <- FALSE
Workflow == INSTANCE PlanWorkflow WITH InitialStatus <- "approved"

\* The route implements the contract of all apply routes: it closes untouched,
\* committed or restored only when that is true of every target, and writes
\* nothing once it has closed.
ImplementsContract == Contract!Spec

\* The coordinator moves its PlanStateMachine only along the table _ALLOWED:
\* no path through execute and _rollback raises InvalidTransition.
ImplementsWorkflow == Workflow!Spec

\* Whatever fails, is cancelled or edited, execute comes to an end.
Termination == <>(pc \in {"done", "crashed"})
=============================================================================
