--------------------------- MODULE PrivilegedApply --------------------------
(***************************************************************************)
(* The local root apply route: PrivilegedSafeApplyCoordinator of the       *)
(* application (infrastructure/privileged_apply.py) and the helper it      *)
(* starts through pkexec (policykit.py, helper_cli.py, helper_executor.py, *)
(* helper_backend.py, helper_receipts.py, root_apply_capture.py), a root   *)
(* process of its own, once to apply and perhaps once more to roll back.   *)
(*                                                                         *)
(* The coordinator waits for a helper until it times out or is cancelled.  *)
(* It can then kill pkexec while that still asks for the password, but not *)
(* the helper, which runs as root: that goes on, also when the coordinator *)
(* starts the second helper, has returned, or is dead.  The advisory lock  *)
(* on the drop-in directory and the before-hashes are all that keeps the   *)
(* two helpers apart.                                                      *)
(*                                                                         *)
(* There is one target, the drop-in file of the Ollama unit.  systemd      *)
(* holds the content it last loaded, the service the one it last started   *)
(* with.  An approval and the helper requests made under it expire.        *)
(***************************************************************************)
EXTENDS Integers

CONSTANTS Before,       \* content the plan was made from (it may be: no file)
          After,        \* content rendered from the approved change
          Foreign,      \* other contents
          MayFail,      \* whether storage, commands and processes can fail
          LateReplace,  \* whether the helper's write can fail after os.replace
          MayCancel,    \* whether the user cancels
          Edits,        \* contents an administrator may write
          MaxEdits      \* bound: writes and reloads by the administrator

ASSUME ContentAssumption == Before # After /\ {Before, After} \intersect Foreign = {}
ASSUME BoundsAssumption ==
    /\ {MayFail, LateReplace, MayCancel} \subseteq BOOLEAN /\ MaxEdits \in Nat
\* Nobody else writes the very content that was approved: a rollback would take
\* it for the helper's and a helper that is late could then apply after it.
ASSUME EditsAssumption == Edits \subseteq {Before} \union Foreign

VARIABLES
    pc,         \* the call of execute or _rollback that comes next
    outcome,    \* ApplyOutcome.status, or "none"
    status,     \* status of _rollback
    cancelled,  \* CancellationToken.cancelled
    expired,    \* the clock has passed the expiry of approval and requests
    backup,     \* the user's backup directory: "none", "partial" or "complete"
    snap,       \* content it holds
    journal,    \* status in the operation journal file, or "none"
    bound,      \* rollback_request_hash of the journal is set
    lastEvent,  \* newest event of the audit log
    auditOk,    \* HEAD of the audit log matches its events
    helper,     \* the helper process of each request: [at, result]
    receipt,    \* its receipt: "none", "executing", "completed" or "failed"
    lock,       \* who holds the lock on the drop-in directory
    rootCopy,   \* root-owned backup: the content captured, or "none"
    file,       \* content of the drop-in file
    writer,     \* history: who wrote it last
    edits,      \* writes and reloads by the administrator so far
    loaded,     \* content systemd has loaded
    running     \* content the service was started with

control == <<pc, outcome, status, cancelled, expired>>
records == <<backup, snap, journal, bound, lastEvent, auditOk>>
helpers == <<helper, receipt, lock, rootCopy>>
disk    == <<file, writer, edits>>
service == <<loaded, running>>
vars    == <<control, records, helpers, disk, service>>

Requests == {"apply", "rollback"}
Contents == {Before, After} \union Foreign
Stages   == {"none", "auth", "started", "claimed", "locked", "verified", "captured",
             "reverified", "written", "reloaded", "reporting", "exited"}
\* What the coordinator makes of a helper's end.  "first": the first operation
\* is reported as not completed; "later": another one is; "denied": exit 126
\* or 127 of pkexec; "unknown": no valid result.
Results  == {"none", "passed", "first", "later", "denied", "unknown"}
Outcomes == {"approved", "committed", "rolled_back", "recovery_required"}
PCs == {"approved_audit", "ready", "create_backup", "verify_backup", "unverified_audit",
        "verified_audit", "ready_again", "prepare", "open_journal", "invoke", "wait",
        "not_started", "not_started_audit", "not_started_close", "not_applied",
        "not_applied_close", "mark_validating", "validate", "commit_audit",
        "commit_journal", "rb_journal", "rb_prepare", "rb_bind", "rb_invoke", "rb_wait",
        "rb_audit", "rb_close", "done", "crashed"}

\* _TRANSITIONS of journal.py.
JournalStatus == {"applying", "validating", "rolling_back", "committed", "rolled_back",
                  "recovery_required"}
JournalTransitions ==
    [none              |-> {},
     applying          |-> {"validating", "rolling_back"},
     validating        |-> {"committed", "rolling_back"},
     rolling_back      |-> {"rolled_back", "recovery_required"},
     committed         |-> {},
     rolled_back       |-> {},
     recovery_required |-> {}]

Init ==
    /\ pc = "approved_audit" /\ outcome = "none" /\ status = "none"
    /\ cancelled = FALSE /\ expired = FALSE
    /\ backup = "none" /\ snap = Before /\ journal = "none" /\ bound = FALSE
    /\ lastEvent = "none" /\ auditOk = TRUE
    /\ helper = [k \in Requests |-> [at |-> "none", result |-> "none"]]
    /\ receipt = [k \in Requests |-> "none"] /\ lock = "free" /\ rootCopy = "none"
    /\ file = Before /\ writer = "none" /\ edits = 0
    /\ loaded = Before /\ running = Before

----------------------------------------------------------------------------
(* The calls the coordinator makes, by what they leave behind.             *)

Goto(label) == pc' = label
Return(verdict) == pc' = "done" /\ outcome' = verdict

\* LocalAuditLog.append.
AuditAppends(e) == auditOk /\ lastEvent' = e /\ UNCHANGED auditOk
AuditRaises(e) == \/ (MayFail \/ ~auditOk) /\ UNCHANGED <<lastEvent, auditOk>>
                  \/ MayFail /\ auditOk /\ lastEvent' = e /\ auditOk' \in BOOLEAN

\* LocalOperationJournal.update; one that raises may have replaced the file.
JournalUpdates(s) == s \in JournalTransitions[journal] /\ journal' = s
JournalRaises(s) == \/ (MayFail \/ s \notin JournalTransitions[journal]) /\ UNCHANGED journal
                    \/ MayFail /\ s \in JournalTransitions[journal] /\ journal' = s

\* The except clause of execute: before the manifest...
RaiseUnsaved == Return("approved")
\* ...without an apply request or without a journal...
RaiseUnprepared == Return("recovery_required")
\* ...and with both, when the journal can be loaded.
Raise == \/ journal' # "none" /\ Goto("rb_journal") /\ UNCHANGED outcome
         \/ (journal' = "none" \/ MayFail) /\ RaiseUnprepared

----------------------------------------------------------------------------
(* execute, up to the first helper.                                        *)

AuditApproved ==
    /\ pc = "approved_audit"
    /\ \/ AuditAppends("apply.approved") /\ Goto("ready") /\ UNCHANGED outcome
       \/ AuditRaises("apply.approved") /\ RaiseUnsaved
    /\ UNCHANGED <<status, cancelled, expired, backup, snap, journal, bound, helpers, disk,
                   service>>

\* readiness.assert_ready runs commands and looks at the cancellation token.
AssertReady ==
    /\ pc = "ready"
    /\ \/ ~cancelled /\ Goto("create_backup") /\ UNCHANGED outcome
       \/ (cancelled \/ MayFail) /\ RaiseUnsaved
    /\ UNCHANGED <<status, cancelled, expired, records, helpers, disk, service>>

\* LocalBackupStore.create stores the file as it is now.
CreateBackup ==
    /\ pc = "create_backup"
    /\ snap' = file
    /\ \/ ~cancelled /\ backup' = "complete" /\ Goto("verify_backup") /\ UNCHANGED outcome
       \/ (cancelled \/ MayFail) /\ backup' \in {"none", "partial"} /\ RaiseUnsaved
       \/ MayFail /\ ~cancelled /\ backup' = "complete" /\ RaiseUnsaved
    /\ UNCHANGED <<status, cancelled, expired, journal, bound, lastEvent, auditOk, helpers,
                   disk, service>>

VerifyBackup ==
    /\ pc = "verify_backup"
    /\ \/ ~cancelled /\ Goto("verified_audit") /\ UNCHANGED outcome
       \/ ~cancelled /\ MayFail /\ Goto("unverified_audit") /\ UNCHANGED outcome
       \/ (cancelled \/ MayFail) /\ RaiseUnprepared
    /\ UNCHANGED <<status, cancelled, expired, records, helpers, disk, service>>

AuditUnverified ==
    /\ pc = "unverified_audit"
    /\ \/ AuditAppends("backup.failed") /\ Return("approved")
       \/ AuditRaises("backup.failed") /\ RaiseUnprepared
    /\ UNCHANGED <<status, cancelled, expired, backup, snap, journal, bound, helpers, disk,
                   service>>

AuditVerified ==
    /\ pc = "verified_audit"
    /\ \/ AuditAppends("backup.verified") /\ Goto("ready_again") /\ UNCHANGED outcome
       \/ AuditRaises("backup.verified") /\ RaiseUnprepared
    /\ UNCHANGED <<status, cancelled, expired, backup, snap, journal, bound, helpers, disk,
                   service>>

AssertReadyAgain ==
    /\ pc = "ready_again"
    /\ \/ ~cancelled /\ Goto("prepare") /\ UNCHANGED outcome
       \/ (cancelled \/ MayFail) /\ Return("approved")
    /\ UNCHANGED <<status, cancelled, expired, records, helpers, disk, service>>

\* ApprovedHelperRequestFactory.prepare asks whether the approval is valid now.
Prepare ==
    /\ pc = "prepare"
    /\ \/ ~expired /\ Goto("open_journal") /\ UNCHANGED outcome
       \/ expired /\ RaiseUnprepared
    /\ UNCHANGED <<status, cancelled, expired, records, helpers, disk, service>>

\* (mutant: a journal that cannot be written is not an error)
OpenJournalIfPossible ==
    /\ pc = "open_journal"
    /\ journal' \in {"none", "applying"} /\ Goto("invoke")
    /\ UNCHANGED <<outcome, status, cancelled, expired, backup, snap, bound, lastEvent,
                   auditOk, helpers, disk, service>>

OpenJournal ==
    /\ pc = "open_journal"
    /\ \/ journal' = "applying" /\ Goto("invoke") /\ UNCHANGED outcome
       \/ MayFail /\ journal' \in {"none", "applying"} /\ Raise
    /\ UNCHANGED <<status, cancelled, expired, backup, snap, bound, lastEvent, auditOk,
                   helpers, disk, service>>

----------------------------------------------------------------------------
(* execute, from the helper's start to its end.                            *)

\* LocalPolicyKitInvoker.invoke stages the request and starts pkexec.
Starts(k) == /\ ~cancelled
             /\ helper' = [helper EXCEPT ![k].at = "auth"]
             /\ UNCHANGED <<receipt, lock, rootCopy>>
CannotStart == (cancelled \/ MayFail) /\ UNCHANGED helpers

Invoke ==
    /\ pc = "invoke"
    /\ UNCHANGED records
    /\ \/ Starts("apply") /\ Goto("wait") /\ UNCHANGED outcome
       \/ CannotStart /\ Raise
    /\ UNCHANGED <<status, cancelled, expired, disk, service>>

\* The timeout, the cancel request or too much output: SubprocessRunner kills
\* pkexec, or raises because it may not kill a root process.
GivesUp(k) ==
    /\ helper[k].at # "exited"
    /\ helper' = IF helper[k].at = "auth" THEN [helper EXCEPT ![k].at = "exited"] ELSE helper
    /\ UNCHANGED <<receipt, lock, rootCopy>>

\* The helper has exited, and its output and exit status are read.
Answers(k, results) ==
    /\ helper[k].at = "exited"
    /\ helper[k].result \in results
    /\ UNCHANGED helpers

\* (mutant: a later operation is taken for the first)
WaitForAny ==
    /\ pc = "wait"
    /\ UNCHANGED records
    /\ \/ Answers("apply", {"passed"}) /\ Goto("mark_validating") /\ UNCHANGED outcome
       \/ Answers("apply", {"first", "later"}) /\ Goto("not_applied") /\ UNCHANGED outcome
       \/ Answers("apply", {"denied"}) /\ Goto("not_started") /\ UNCHANGED outcome
       \/ Answers("apply", {"unknown"}) /\ Raise
       \/ GivesUp("apply") /\ Raise
    /\ UNCHANGED <<status, cancelled, expired, disk, service>>

Wait ==
    /\ pc = "wait"
    /\ UNCHANGED records
    /\ \/ Answers("apply", {"passed"}) /\ Goto("mark_validating") /\ UNCHANGED outcome
       \/ Answers("apply", {"first"}) /\ Goto("not_applied") /\ UNCHANGED outcome
       \/ Answers("apply", {"later"}) /\ Goto("rb_journal") /\ UNCHANGED outcome
       \/ Answers("apply", {"denied"}) /\ Goto("not_started") /\ UNCHANGED outcome
       \/ Answers("apply", {"unknown"}) /\ Raise
       \/ GivesUp("apply") /\ Raise
    /\ UNCHANGED <<status, cancelled, expired, disk, service>>

\* A journal update of execute, after which comes `then`; one that raises ends
\* in the except clause.
ExecuteUpdates(here, s, then) ==
    /\ pc = here
    /\ \/ JournalUpdates(s) /\ Goto(then) /\ UNCHANGED outcome
       \/ JournalRaises(s) /\ Raise
    /\ UNCHANGED <<status, cancelled, expired, backup, snap, bound, lastEvent, auditOk,
                   helpers, disk, service>>

\* The one after which execute returns.
ExecuteCloses(here, s) ==
    /\ pc = here
    /\ \/ JournalUpdates(s) /\ Return(s)
       \/ JournalRaises(s) /\ Raise
    /\ UNCHANGED <<status, cancelled, expired, backup, snap, bound, lastEvent, auditOk,
                   helpers, disk, service>>

\* pkexec was refused or could not start the helper.
NotStarted == ExecuteUpdates("not_started", "rolling_back", "not_started_audit")

AuditNotStarted ==
    /\ pc = "not_started_audit"
    /\ \/ AuditAppends("apply.not_started") /\ Goto("not_started_close")
          /\ UNCHANGED <<outcome, journal>>
       \/ /\ AuditRaises("apply.not_started")
          /\ \/ JournalUpdates("recovery_required") /\ Return("recovery_required")
             \/ JournalRaises("recovery_required") /\ Raise
    /\ UNCHANGED <<status, cancelled, expired, backup, snap, bound, helpers, disk, service>>

NotStartedCloses == ExecuteCloses("not_started_close", "rolled_back")

\* results[0] is not completed: nothing is rolled back, nothing audited.
NotApplied == ExecuteUpdates("not_applied", "rolling_back", "not_applied_close")
NotAppliedCloses == ExecuteCloses("not_applied_close", "rolled_back")

MarkValidating == ExecuteUpdates("mark_validating", "validating", "validate")

\* ProductRuntimeValidator asks systemd and the API; the original environment
\* cannot pass for the approved one.
Validate ==
    /\ pc = "validate"
    /\ UNCHANGED records
    /\ \/ ~cancelled /\ loaded # Before /\ Goto("commit_audit") /\ UNCHANGED outcome
       \/ Goto("rb_journal") /\ UNCHANGED outcome
       \/ (cancelled \/ MayFail) /\ Raise
    /\ UNCHANGED <<status, cancelled, expired, helpers, disk, service>>

AuditCommitted ==
    /\ pc = "commit_audit"
    /\ UNCHANGED <<backup, snap, journal, bound>>
    /\ \/ AuditAppends("apply.committed") /\ Goto("commit_journal") /\ UNCHANGED outcome
       \/ AuditRaises("apply.committed") /\ Raise
    /\ UNCHANGED <<status, cancelled, expired, helpers, disk, service>>

CommitJournal == ExecuteCloses("commit_journal", "committed")

----------------------------------------------------------------------------
(* _rollback, with the same cancellation token and the same approval.      *)

RollbackFails == status' = "recovery_required" /\ Goto("rb_audit")

RollbackJournal ==
    /\ pc = "rb_journal"
    /\ \/ /\ journal \in {"applying", "validating"} /\ JournalUpdates("rolling_back")
          /\ Goto("rb_prepare") /\ UNCHANGED status
       \/ /\ journal \notin {"applying", "validating"} /\ UNCHANGED journal
          /\ Goto("rb_prepare") /\ UNCHANGED status
       \/ MayFail /\ RollbackFails
          /\ journal' \in {journal, IF journal \in {"applying", "validating"}
                                    THEN "rolling_back" ELSE journal}
    /\ UNCHANGED <<outcome, cancelled, expired, backup, snap, bound, lastEvent, auditOk,
                   helpers, disk, service>>

\* PrivilegedRollbackRequestFactory.prepare with restore_items.
PrepareRollback ==
    /\ pc = "rb_prepare"
    /\ \/ ~expired /\ ~cancelled /\ Goto("rb_bind") /\ UNCHANGED status
       \/ (expired \/ cancelled \/ MayFail) /\ RollbackFails
    /\ UNCHANGED <<outcome, cancelled, expired, records, helpers, disk, service>>

BindRollback ==
    /\ pc = "rb_bind"
    /\ \/ /\ journal = "rolling_back" /\ ~bound
          /\ bound' = TRUE /\ Goto("rb_invoke") /\ UNCHANGED status
       \/ /\ journal # "rolling_back" \/ bound \/ MayFail
          /\ RollbackFails
          /\ bound' \in {bound, bound \/ journal = "rolling_back"}
    /\ UNCHANGED <<outcome, cancelled, expired, backup, snap, journal, lastEvent, auditOk,
                   helpers, disk, service>>

InvokeRollback ==
    /\ pc = "rb_invoke"
    /\ \/ Starts("rollback") /\ Goto("rb_wait") /\ UNCHANGED status
       \/ CannotStart /\ RollbackFails
    /\ UNCHANGED <<outcome, cancelled, expired, records, disk, service>>

\* (mutant: waits for the helper without a limit)
WaitRollbackForever ==
    /\ pc = "rb_wait"
    /\ \/ Answers("rollback", {"passed"}) /\ status' = "rolled_back" /\ Goto("rb_audit")
       \/ Answers("rollback", Results \ {"passed"}) /\ RollbackFails
    /\ UNCHANGED <<outcome, cancelled, expired, records, disk, service>>

WaitRollback ==
    /\ pc = "rb_wait"
    /\ \/ Answers("rollback", {"passed"}) /\ status' = "rolled_back" /\ Goto("rb_audit")
       \/ (Answers("rollback", Results \ {"passed"}) \/ GivesUp("rollback")) /\ RollbackFails
    /\ UNCHANGED <<outcome, cancelled, expired, records, disk, service>>

RollbackEvent == IF status = "rolled_back" THEN "rollback.completed"
                                           ELSE "rollback.recovery_required"

\* (mutant: the rollback counts though it is not in the audit log)
AuditRollbackUnchecked ==
    /\ pc = "rb_audit" /\ Goto("rb_close")
    /\ AuditAppends(RollbackEvent) \/ AuditRaises(RollbackEvent)
    /\ UNCHANGED <<outcome, status, cancelled, expired, backup, snap, journal, bound, helpers,
                   disk, service>>

AuditRollback ==
    /\ pc = "rb_audit" /\ Goto("rb_close")
    /\ \/ AuditAppends(RollbackEvent) /\ UNCHANGED status
       \/ AuditRaises(RollbackEvent) /\ status' = "recovery_required"
    /\ UNCHANGED <<outcome, cancelled, expired, backup, snap, journal, bound, helpers, disk,
                   service>>

RollbackClose ==
    /\ pc = "rb_close"
    /\ \/ JournalUpdates(status) /\ Return(status)
       \/ JournalRaises(status) /\ Return("recovery_required")
    /\ UNCHANGED <<status, cancelled, expired, backup, snap, bound, lastEvent, auditOk,
                   helpers, disk, service>>

----------------------------------------------------------------------------
(* The helper of request k, a process of its own.                          *)

Expected(k) == IF k = "apply" THEN Before ELSE After
Approved(k) == IF k = "apply" THEN After ELSE snap

At(k, from, to) == helper[k].at = from /\ helper' = [helper EXCEPT ![k].at = to]
Unlock(k) == lock' = IF lock = k THEN "free" ELSE lock

\* An operation raises: the results name it, the executor drops the lock.
Fails(k, result) ==
    /\ helper' = [helper EXCEPT ![k] = [at |-> "reporting", result |-> result]]
    /\ Unlock(k)
\* run_helper itself raises, or the process dies: no valid result, and the
\* kernel drops the lock.
Exits(k, result) ==
    /\ helper' = [helper EXCEPT ![k] = [at |-> "exited", result |-> result]]
    /\ Unlock(k)

\* The user answers, or dismisses, the password dialog.
Authenticate(k) ==
    /\ \/ At(k, "auth", "started") /\ UNCHANGED lock
       \/ helper[k].at = "auth" /\ Exits(k, "denied")
    /\ UNCHANGED <<control, records, receipt, rootCopy, disk, service>>

\* run_helper validates the request and claims the receipt of its id.
Claim(k) ==
    /\ \/ /\ ~expired /\ At(k, "started", "claimed")
          /\ receipt' = [receipt EXCEPT ![k] = "executing"] /\ UNCHANGED lock
       \/ /\ (expired \/ MayFail) /\ helper[k].at = "started" /\ Exits(k, "unknown")
          /\ UNCHANGED receipt
    /\ UNCHANGED <<control, records, rootCopy, disk, service>>

\* flock of the drop-in directory, without waiting; then the request must
\* still be valid.
Lock(k) ==
    /\ helper[k].at = "claimed"
    /\ \/ ~expired /\ lock = "free" /\ At(k, "claimed", "locked") /\ lock' = k
       \/ (expired \/ lock # "free" \/ MayFail) /\ Fails(k, "first")
       \/ expired /\ Exits(k, "unknown")
    /\ UNCHANGED <<control, records, receipt, rootCopy, disk, service>>

\* _verify_before: the file must have the hash the operation names.
\* (mutant: a restore does not ask)
Unverified(k) == file = Before \/ k = "rollback"
Unchanged(k) == file = Expected(k)

VerifyBefore(k) ==
    /\ helper[k].at = "locked"
    /\ \/ Unchanged(k) /\ At(k, "locked", "verified") /\ UNCHANGED lock
       \/ (~Unchanged(k) \/ MayFail) /\ Fails(k, "first")
    /\ UNCHANGED <<control, records, receipt, rootCopy, disk, service>>

\* capture_before_replace: root's own backup of the file, made once for each
\* backup id.
Capture ==
    /\ helper["apply"].at = "verified"
    /\ \/ /\ ~expired /\ file = Before
          /\ rootCopy' = file
          /\ At("apply", "verified", "captured") /\ UNCHANGED lock
       \/ /\ expired \/ file # Before \/ MayFail
          /\ rootCopy' \in {rootCopy} \union (IF file = Before THEN {file} ELSE {})
          /\ Fails("apply", "first")
    /\ UNCHANGED <<control, records, receipt, disk, service>>

VerifyAgain ==
    /\ helper["apply"].at = "captured"
    /\ \/ ~expired /\ Unchanged("apply") /\ At("apply", "captured", "reverified")
          /\ UNCHANGED lock
       \/ (expired \/ ~Unchanged("apply") \/ MayFail) /\ Fails("apply", "first")
    /\ UNCHANGED <<control, records, receipt, rootCopy, disk, service>>

\* atomic_write or remove_file; what follows os.replace or unlink (chown,
\* fsync, fsync of the directory) can still raise.
Replaces(k) == /\ file' = Approved(k) /\ UNCHANGED edits
               /\ writer' = IF k = "apply" THEN "apply" ELSE "restore"

Replace(k) ==
    LET before == IF k = "apply" THEN "reverified" ELSE "verified"
    IN  /\ helper[k].at = before
        /\ \/ Replaces(k) /\ At(k, before, "written") /\ UNCHANGED lock
           \/ LateReplace /\ Replaces(k) /\ Fails(k, "first")
           \/ MayFail /\ UNCHANGED disk /\ Fails(k, "first")
    /\ UNCHANGED <<control, records, receipt, rootCopy, service>>

\* systemctl daemon-reload; its timeout is an exception nothing catches.
Reload(k) ==
    /\ helper[k].at = "written"
    /\ \/ loaded' = file /\ At(k, "written", "reloaded") /\ UNCHANGED lock
       \/ /\ MayFail /\ loaded' \in {loaded, file}
          /\ Fails(k, "later") \/ Exits(k, "unknown")
    /\ UNCHANGED <<control, records, receipt, rootCopy, disk, running>>

\* systemctl restart.
Restart(k) ==
    /\ helper[k].at = "reloaded"
    /\ \/ running' = loaded /\ Fails(k, "passed")
       \/ /\ MayFail /\ running' \in {running, loaded}
          /\ Fails(k, "later") \/ Exits(k, "unknown")
    /\ UNCHANGED <<control, records, receipt, rootCopy, disk, loaded>>

\* The receipt is finished and the results are printed.
Report(k) ==
    LET verdict == IF helper[k].result = "passed" THEN "completed" ELSE "failed"
    IN  /\ helper[k].at = "reporting"
        /\ \/ receipt' = [receipt EXCEPT ![k] = verdict] /\ Exits(k, helper[k].result)
           \/ /\ MayFail /\ receipt' \in {receipt, [receipt EXCEPT ![k] = verdict]}
              /\ Exits(k, "unknown")
        /\ UNCHANGED <<control, records, rootCopy, disk, service>>

\* The helper's process dies: only what it wrote is left.
Dies(k) ==
    /\ MayFail /\ helper[k].at \notin {"none", "auth", "exited"}
    /\ Exits(k, "unknown")
    /\ UNCHANGED <<control, records, receipt, rootCopy, disk, service>>

----------------------------------------------------------------------------
(* The environment.                                                        *)

Ended == pc \in {"done", "crashed"}

Cancel == /\ MayCancel /\ ~Ended /\ ~cancelled
          /\ cancelled' = TRUE
          /\ UNCHANGED <<pc, outcome, status, expired, records, helpers, disk, service>>

Expire == /\ ~expired
          /\ expired' = TRUE
          /\ UNCHANGED <<pc, outcome, status, cancelled, records, helpers, disk, service>>

\* The application dies; a helper that is running goes on.
Crash == /\ MayFail /\ ~Ended
         /\ Goto("crashed")
         /\ UNCHANGED <<outcome, status, cancelled, expired, records, helpers, disk, service>>

\* An administrator edits the file, or reloads systemd and restarts the
\* service: neither asks for the lock.
Edit(content) == /\ edits < MaxEdits /\ content # file
                 /\ file' = content /\ writer' = "editor" /\ edits' = edits + 1
                 /\ UNCHANGED <<control, records, helpers, service>>

SystemReload == /\ edits < MaxEdits
                /\ edits' = edits + 1
                /\ loaded' = file /\ running' \in {running, file}
                /\ UNCHANGED <<control, records, helpers, file, writer>>

Coordinator ==
    \/ AuditApproved \/ AssertReady \/ CreateBackup \/ VerifyBackup
    \/ AuditUnverified \/ AuditVerified \/ AssertReadyAgain \/ Prepare \/ OpenJournal
    \/ Invoke \/ Wait
    \/ NotStarted \/ AuditNotStarted \/ NotStartedCloses
    \/ NotApplied \/ NotAppliedCloses
    \/ MarkValidating \/ Validate \/ AuditCommitted \/ CommitJournal
    \/ RollbackJournal \/ PrepareRollback \/ BindRollback \/ InvokeRollback
    \/ WaitRollback \/ AuditRollback \/ RollbackClose

Helper(k) ==
    \/ Authenticate(k) \/ Claim(k) \/ Lock(k) \/ VerifyBefore(k)
    \/ Replace(k) \/ Reload(k) \/ Restart(k) \/ Report(k) \/ Dies(k)

Environment == \/ Cancel \/ Expire \/ Crash \/ SystemReload
               \/ \E content \in Edits : Edit(content)

Next == \/ Coordinator
        \/ \E k \in Requests : Helper(k)
        \/ Capture \/ VerifyAgain
        \/ Environment

Spec == Init /\ [][Next]_vars

\* The worker thread runs; a helper may hang for ever.
FairSpec == Spec /\ WF_vars(Coordinator)

----------------------------------------------------------------------------
(* Properties.                                                             *)

\* Every variable has its type.
TypeOK ==
    /\ pc \in PCs /\ outcome \in Outcomes \union {"none"}
    /\ status \in {"none", "rolled_back", "recovery_required"}
    /\ cancelled \in BOOLEAN /\ expired \in BOOLEAN
    /\ backup \in {"none", "partial", "complete"} /\ snap \in Contents
    /\ journal \in JournalStatus \union {"none"} /\ bound \in BOOLEAN
    /\ auditOk \in BOOLEAN
    /\ helper \in [Requests -> [at : Stages, result : Results]]
    /\ receipt \in [Requests -> {"none", "executing", "completed", "failed"}]
    /\ lock \in Requests \union {"free"} /\ rootCopy \in Contents \union {"none"}
    /\ file \in Contents /\ writer \in {"none", "apply", "restore", "editor"}
    /\ edits \in 0..MaxEdits /\ loaded \in Contents /\ running \in Contents

\* Once a helper has written the file - also one that outlived the coordinator
\* or its patience - the user's backup, the journal and root's own copy of the
\* original exist, and the journal names the rollback that wrote.
Recoverable ==
    writer \in {"apply", "restore"} =>
        /\ backup = "complete" /\ journal # "none"
        /\ writer = "apply" => rootCopy = Before
        /\ writer = "restore" => bound

\* "Rolled back" stays true: no helper that was given up, whose lock or hash
\* check comes late, puts the change back after the user was told, and the
\* service runs what the file holds when nobody else touched it.
RolledBackIsRestored ==
    outcome = "rolled_back" =>
        /\ writer \in {"none", "editor"} \/ (writer = "restore" /\ file = snap)
        /\ edits = 0 => file = Before /\ loaded = Before /\ running = Before

\* What the user is told is so.  A commit is the last word of the audit log,
\* no rollback was ever started, and systemd and the running service have the
\* new file, unless somebody else touched them.  A rollback of a change is the
\* last word of the log too; without a rollback helper nothing was changed.
OutcomeIsTrue ==
    /\ outcome = "committed" =>
           /\ lastEvent = "apply.committed" /\ journal = "committed"
           /\ receipt["apply"] = "completed" /\ helper["rollback"].at = "none"
           /\ edits = 0 => file = After /\ loaded = After /\ running = After
    /\ outcome = "rolled_back" =>
           \/ lastEvent = "rollback.completed" /\ receipt["rollback"] = "completed"
           \/ receipt["rollback"] = "none" /\ writer \in {"none", "editor"}

\* The route in the terms of the contract of all apply routes.
phase == CASE outcome = "none"              -> "open"
           [] outcome = "approved"          -> "untouched"
           [] outcome = "committed"         -> "committed"
           [] outcome = "rolled_back"       -> "restored"
           [] outcome = "recovery_required" -> "attention"
Holding == [none |-> "original", apply |-> "changed",
            restore |-> "restored", editor |-> "foreign"]
holds == [t \in {"drop_in"} |-> Holding[writer]]

Contract == INSTANCE ApplyContract WITH Targets <- {"drop_in"}, MayOutlive <- TRUE

\* Only after RECOVERY_REQUIRED can a write of the operation still come.
ImplementsContract == Contract!Spec

\* Whatever the helpers do, hang included, execute comes to an end.
Termination == <>Ended

=============================================================================
