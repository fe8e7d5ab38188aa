---------------------------- MODULE SshUserApply ----------------------------
(***************************************************************************)
(* The SSH user-level apply route: the task of SshUserApplyTaskFactory,    *)
(* SshUserSafeApplyCoordinator, the preparation of the two requests, the   *)
(* dual-copy backup, the three staging transports and the remote helper    *)
(* processes they start (ssh_user_*.py, remote_user_*.py, remote_helper*.py,*)
(* remote_backup.py, ssh_remote_staging.py, openssh_staging.py,            *)
(* remote_sudo.py).                                                        *)
(*                                                                         *)
(* The coordinator talks to three kinds of helper process through files on *)
(* the remote host.  For each kind it uploads the payload, then the        *)
(* request, starts the helper and reads the result file.  Every call can   *)
(* be lost, and a lost call leaves open what has happened at the far end:  *)
(* an upload may be torn, a helper may never start, may be dead, or may    *)
(* still be running when the coordinator has long given up; a helper that  *)
(* waits for a sudo password can even start after that.                    *)
(*                                                                         *)
(* A document is a record of the fields the checks look at; its hash is    *)
(* not modelled, so "not canonical", "wrong hash" and "truncated" are all  *)
(* the document Torn.  A result file appears whole: it is written with     *)
(* os.replace and a failing scp reports an error.                          *)
(***************************************************************************)
EXTENDS Integers

CONSTANTS Before,    \* content the plan was computed from
          After,     \* content rendered from the approved changes
          Foreign,   \* other contents the remote user may write
          MaxEdits   \* bound: writes to the target by others

ASSUME SshContentAssumption == Before # After /\ Before \notin Foreign /\ After \notin Foreign
ASSUME SshBoundsAssumption == MaxEdits \in Nat

VARIABLES
    pc,          \* the call that comes next: <<"run", step>>, or <<kind, step>> in a transport
    outcome,     \* ApplyOutcome.status, "refused" or "raised", or "none"
    cancelled,   \* the task's CancellationToken
    file,        \* content of the remote target
    writer,      \* history: who wrote it last
    edits,       \* writes by others so far
    localCopy,   \* the authoritative backup: "none" or "complete"
    snap,        \* content it captured
    attempt,     \* RemoteRecoveryAttemptStore holds the recovery request
    receipt,     \* RemoteRecoveryReceiptStore holds a receipt
    remoteCopy,  \* the root-owned copy: "none", "partial" or "complete"
    staged,      \* per kind: the files below its staging directory
    helper,      \* per kind: how far the remote helper process is
    expired,     \* kinds whose request is past expires_at
    journal,     \* status in the operation journal file, or "none"
    bound,       \* rollback_request_hash is set in the journal
    lastEvent    \* newest event of the audit log, or "none"

target == <<file, writer, edits>>
copies == <<localCopy, snap, attempt, receipt, remoteCopy>>
remote == <<staged, helper, expired>>
record == <<journal, bound, lastEvent>>
vars   == <<pc, outcome, cancelled, target, copies, remote, record>>

Kinds    == {"recover", "apply", "rollback"}
Contents == {Before, After} \union Foreign

RunSteps == {"task", "identify", "login", "home", "map", "build", "approved_audit", "approval", "host", "capture", "save_local", "attempt",
             "verify", "render", "verified_audit", "open_journal", "mark_validating",
             "validate", "commit_audit", "commit_journal", "failed", "abandon",
             "abandon_close", "abandon_audit", "rb_open", "rb_prepare", "rb_bind",
             "rb_audit", "rb_close", "rb_failed", "rb_failed_audit", "done", "crashed"}
TransportSteps == {"stage", "items", "request", "invoke", "wait", "read", "reread"}
PCs == {<<"run", s>> : s \in RunSteps} \union (Kinds \X TransportSteps)

HelperStates == {"none", "prompt", "started", "working", "written", "exited"}
Outcomes == {"refused", "raised", "approved", "committed", "rolled_back", "recovery_required"}
Events == {"apply.approved", "backup.verified", "apply.committed", "apply.recovery_required",
           "rollback.completed", "rollback.recovery_required"}
JournalTransitions ==
    [none              |-> {},
     applying          |-> {"validating", "rolling_back"},
     validating        |-> {"committed", "rolling_back"},
     rolling_back      |-> {"rolled_back", "recovery_required"},
     committed         |-> {},
     rolled_back       |-> {},
     recovery_required |-> {}]
JournalStatus == DOMAIN JournalTransitions

----------------------------------------------------------------------------
(* The documents.                                                          *)

NoDoc == [op |-> "none"]
Torn  == [op |-> "torn"]

RecoveryRequest == [op |-> "recover", item |-> snap]
ApplyRequest    == [op |-> "apply", before |-> snap, after |-> After]
RollbackRequest == [op |-> "rollback", current |-> After, restore |-> snap]
RequestOf == [recover |-> RecoveryRequest, apply |-> ApplyRequest, rollback |-> RollbackRequest]

\* _decode_request of the three protocols: exactly the fields, of their types.
IsRecoveryRequest(doc) == doc \in [op : {"recover"}, item : Contents]
IsApplyRequest(doc)    == doc \in [op : {"apply"}, before : Contents, after : Contents]
IsRollbackRequest(doc) == doc \in [op : {"rollback"}, current : Contents, restore : Contents]

\* The validate_* of a request: integrity and the validity window.
ValidRecoveryRequest(doc) == IsRecoveryRequest(doc) /\ "recover" \notin expired
ValidApplyRequest(doc)    == IsApplyRequest(doc) /\ "apply" \notin expired
ValidRollbackRequest(doc) == IsRollbackRequest(doc) /\ "rollback" \notin expired
\* decode_remote_request, decode_remote_user_apply_request and
\* decode_remote_user_rollback_request, on whichever side they are called.
Decodes(k, doc) == \/ k = "recover" /\ ValidRecoveryRequest(doc)
                   \/ k = "apply" /\ ValidApplyRequest(doc)
                   \/ k = "rollback" /\ ValidRollbackRequest(doc)

\* What a helper reports, and what the coordinator checks it against.
Receipt         == [op |-> "receipt", item |-> staged["recover"].request.item]
ApplyResult     == [op |-> "applied", before |-> staged["apply"].request.before, after |-> file]
RollbackResult  == [op |-> "restored", content |-> file]
ReceiptMatches(doc)        == doc = [op |-> "receipt", item |-> snap]
ApplyResultMatches(doc)    == doc = [op |-> "applied", before |-> ApplyRequest.before, after |-> ApplyRequest.after]
RollbackResultMatches(doc) == doc = [op |-> "restored", content |-> RollbackRequest.restore]
ResultMatches(k, doc) == \/ k = "recover" /\ ReceiptMatches(doc)
                         \/ k = "apply" /\ ApplyResultMatches(doc)
                         \/ k = "rollback" /\ RollbackResultMatches(doc)

EmptyStaging == [items |-> "none", request |-> NoDoc, result |-> NoDoc]

Init ==
    /\ pc = <<"run", "task">> /\ outcome = "none" /\ cancelled = FALSE
    /\ file = Before /\ writer = "none" /\ edits = 0
    /\ localCopy = "none" /\ snap = Before /\ attempt = FALSE /\ receipt = FALSE
    /\ remoteCopy = "none"
    /\ staged = [k \in Kinds |-> EmptyStaging]
    /\ helper = [k \in Kinds |-> "none"]
    /\ expired = {}
    /\ journal = "none" /\ bound = FALSE /\ lastEvent = "none"

----------------------------------------------------------------------------
(* Building blocks.                                                        *)

At(step)   == pc = <<"run", step>>
Goto(step) == pc' = <<"run", step>> /\ UNCHANGED outcome
Return(verdict) == pc' = <<"run", "done">> /\ outcome' = verdict

Appends(event) == lastEvent' = event
AppendRaises(event) == lastEvent' \in {lastEvent, event}

Updates(s) == s \in JournalTransitions[journal] /\ journal' = s
\* A refused transition, or a failing _atomic_write: before or after os.replace.
UpdateRaises(s) == \/ UNCHANGED journal
                   \/ s \in JournalTransitions[journal] /\ journal' = s

\* RemoteRecoveryReceiptStore.save.
KeepReceipt == receipt' = TRUE

\* Both verifications of DualCopyPrivilegedBackupStore.verify pass: the
\* receipt is in the local store, or is fetched from the staged result.
LoadReceipt(token) ==
    \/ receipt /\ UNCHANGED receipt
    \/ /\ ~receipt /\ attempt /\ ~token
       /\ Decodes("recover", RecoveryRequest)
       /\ ReceiptMatches(staged["recover"].result)
       /\ KeepReceipt

----------------------------------------------------------------------------
(* SshUserApplyTaskFactory and the first try block of execute.             *)

\* A step that only lets the task go on or raises.
Passes(step, next) == /\ At(step)
                      /\ \/ ~cancelled /\ Goto(next)
                         \/ Return("refused")
                      /\ UNCHANGED <<cancelled, target, copies, remote, record>>

\* The approval once more; ssh -G and a probe for the host key, which must be
\* the report's; a login in a terminal when the key alone does not open the
\* host; the remote home, and the target inside it; a terminal for sudo.
CheckTask    == Passes("task", "identify")
IdentifyHost == Passes("identify", "login")
Login        == Passes("login", "home")
ResolveHome  == Passes("home", "map")
MapTarget    == Passes("map", "build")
BuildRoute   == Passes("build", "approved_audit")

AuditApproved == /\ At("approved_audit")
                 /\ \/ Appends("apply.approved") /\ Goto("approval")
                    \/ AppendRaises("apply.approved") /\ Return("approved")
                 /\ UNCHANGED <<cancelled, target, copies, remote, journal, bound>>

\* The bindings of plan, report and approval, and one allowlisted target.
CheckApproval == /\ At("approval")
                 /\ \/ ~cancelled /\ Goto("host")
                    \/ Return("approved")
                 /\ UNCHANGED <<cancelled, target, copies, remote, record>>

\* The backup is captured from the host the report names.
CheckHost == /\ At("host")
             /\ \/ ~cancelled /\ Goto("capture")
                \/ Return("approved")
             /\ UNCHANGED <<cancelled, target, copies, remote, record>>

\* SshSnapshotLocalBackupStore._capture: a target that moves between the two
\* stats is refused.
CaptureRemote == /\ At("capture")
                 /\ \/ ~cancelled /\ snap' = file /\ Goto("save_local")
                    \/ UNCHANGED snap /\ Return("approved")
                 /\ UNCHANGED <<cancelled, target, localCopy, attempt, receipt, remoteCopy, remote, record>>

SaveLocal == /\ At("save_local")
             /\ \/ ~cancelled /\ localCopy' = "complete" /\ Goto("attempt")
                \/ UNCHANGED localCopy /\ Return("approved")
             /\ UNCHANGED <<cancelled, target, snap, attempt, receipt, remoteCopy, remote, record>>

\* RemoteHelperRecoveryCopyStore.create keeps the request before it is sent.
SaveAttempt == /\ At("attempt")
               /\ \/ attempt' = TRUE /\ pc' = <<"recover", "stage">> /\ UNCHANGED outcome
                  \/ attempt' \in BOOLEAN /\ Goto("verify")
               /\ UNCHANGED <<cancelled, target, localCopy, snap, receipt, remoteCopy, remote, record>>

----------------------------------------------------------------------------
(* A transport: prepare, payload, request last, invoke, read.              *)

\* (mutant: the answer of a lost call is not asked for, the call is repeated)
ResendLostTo(k) == IF k = "recover" THEN <<"run", "verify">> ELSE <<k, "request">>
\* An AdapterError: the remote copy's failure is left to verify, the other two
\* transports are asked once more for the result.
LostTo(k) == IF k = "recover" THEN <<"run", "verify">> ELSE <<k, "reread">>
Lost(k) == pc' = LostTo(k) /\ UNCHANGED outcome
\* An OperationCancelled; the rollback has a token of its own.
Token(k) == k # "rollback" /\ cancelled
CancelStops(k) == /\ Token(k)
                  /\ \/ k = "recover" /\ Return("approved")
                     \/ k # "recover" /\ Lost(k)
Stage(k) == /\ pc = <<k, "stage">>
            /\ \/ ~Token(k) /\ Decodes(k, RequestOf[k]) /\ pc' = <<k, "items">> /\ UNCHANGED outcome
               \/ CancelStops(k)
               \/ ~Token(k) /\ Lost(k)
            /\ UNCHANGED <<cancelled, target, copies, remote, record>>

\* An upload that fails may have left part of the file, or all of it.
UploadItems(k) ==
    /\ pc = <<k, "items">>
    /\ \/ CancelStops(k) /\ UNCHANGED staged
       \/ /\ ~Token(k)
          /\ \/ /\ staged' = [staged EXCEPT ![k].items = "whole"]
                /\ pc' = <<k, "request">> /\ UNCHANGED outcome
             \/ \E left \in {"none", "torn", "whole"} :
                    staged' = [staged EXCEPT ![k].items = left] /\ Lost(k)
    /\ UNCHANGED <<cancelled, target, copies, helper, expired, record>>

UploadRequest(k) ==
    /\ pc = <<k, "request">>
    /\ \/ CancelStops(k) /\ UNCHANGED staged
       \/ /\ ~Token(k)
          /\ \/ /\ staged' = [staged EXCEPT ![k].request = RequestOf[k]]
                /\ pc' = <<k, "invoke">> /\ UNCHANGED outcome
             \/ \E left \in {NoDoc, Torn, RequestOf[k]} :
                    staged' = [staged EXCEPT ![k].request = left] /\ Lost(k)
    /\ UNCHANGED <<cancelled, target, copies, helper, expired, record>>

\* The readiness gate, then one ssh command.  The recovery helper runs under
\* sudo: without a cached credential it waits in a terminal for the password.
Invoke(k) ==
    /\ pc = <<k, "invoke">>
    /\ \/ CancelStops(k) /\ UNCHANGED helper
       \/ /\ ~Token(k)
          /\ \/ /\ \E s \in {"started"} \union (IF k = "recover" THEN {"prompt"} ELSE {}) :
                       helper' = [helper EXCEPT ![k] = s]
                /\ pc' = <<k, "wait">> /\ UNCHANGED outcome
             \/ UNCHANGED helper /\ Lost(k)
    /\ UNCHANGED <<cancelled, target, copies, staged, expired, record>>

\* (mutant: the command has no timeout)
WaitForever(k) ==
    /\ pc = <<k, "wait">>
    /\ \/ staged[k].result # NoDoc /\ pc' = <<k, "read">> /\ UNCHANGED outcome
       \/ helper[k] = "exited" /\ Lost(k)
    /\ UNCHANGED <<cancelled, target, copies, remote, record>>
\* The command returns, or times out or loses its connection while the helper
\* runs on.  Only the recovery helper's invocation looks at the task's token.
Wait(k) ==
    /\ pc = <<k, "wait">>
    /\ \/ staged[k].result # NoDoc /\ pc' = <<k, "read">> /\ UNCHANGED outcome
       \/ Lost(k)
       \/ k = "recover" /\ CancelStops(k)
    /\ UNCHANGED <<cancelled, target, copies, remote, record>>

Answered(k) == pc' = CASE k = "recover"  -> <<"run", "verify">>
                       [] k = "apply"    -> <<"run", "mark_validating">>
                       [] k = "rollback" -> <<"run", "rb_audit">>

ReadResult(k) ==
    /\ pc = <<k, "read">>
    /\ \/ CancelStops(k) /\ UNCHANGED receipt
       \/ /\ ~Token(k) /\ ResultMatches(k, staged[k].result)
          /\ Answered(k) /\ UNCHANGED outcome
          /\ IF k = "recover" THEN KeepReceipt ELSE UNCHANGED receipt
       \/ ~Token(k) /\ Lost(k) /\ UNCHANGED receipt
       \/ ~Token(k) /\ Lost(k) /\ k = "recover" /\ ReceiptMatches(staged[k].result) /\ KeepReceipt
    /\ UNCHANGED <<cancelled, target, localCopy, snap, attempt, remoteCopy, remote, record>>

\* (mutant: a lost answer is taken for a success)
RereadAssumed(k) ==
    /\ pc = <<k, "reread">>
    /\ Answered(k) /\ UNCHANGED outcome
    /\ UNCHANGED <<cancelled, target, copies, remote, record>>
\* The second look of execute and _rollback, with a fresh token: the request
\* must still decode.
Reread(k) ==
    /\ pc = <<k, "reread">>
    /\ \/ /\ Decodes(k, RequestOf[k]) /\ ResultMatches(k, staged[k].result)
          /\ Answered(k) /\ UNCHANGED outcome
       \/ Goto(IF k = "apply" THEN "failed" ELSE "rb_failed")
    /\ UNCHANGED <<cancelled, target, copies, remote, record>>

Transport == \E k \in Kinds : \/ Stage(k) \/ UploadItems(k) \/ UploadRequest(k)
                              \/ Invoke(k) \/ Wait(k) \/ ReadResult(k) \/ Reread(k)

----------------------------------------------------------------------------
(* execute, from the verified backup to the committed journal.             *)

\* (mutant: the check of the remote copy's receipt is left out)
VerifyLocalOnly == /\ At("verify")
                   /\ \/ localCopy = "complete" /\ UNCHANGED receipt /\ Goto("render")
                      \/ UNCHANGED receipt /\ Return("approved")
                   /\ UNCHANGED <<cancelled, target, localCopy, snap, attempt, remoteCopy, remote, record>>
VerifyCopies == /\ At("verify")
                /\ \/ localCopy = "complete" /\ LoadReceipt(cancelled) /\ Goto("render")
                   \/ UNCHANGED receipt /\ Return("approved")
                /\ UNCHANGED <<cancelled, target, localCopy, snap, attempt, remoteCopy, remote, record>>

\* The captured item must be the content the plan was made from.
Render == /\ At("render")
          /\ \/ snap = Before /\ Goto("verified_audit")
             \/ Return("approved")
          /\ UNCHANGED <<cancelled, target, copies, remote, record>>

AuditVerified == /\ At("verified_audit")
                 /\ \/ Appends("backup.verified") /\ Goto("open_journal")
                    \/ AppendRaises("backup.verified") /\ Return("approved")
                 /\ UNCHANGED <<cancelled, target, copies, remote, journal, bound>>

\* (mutant: the apply goes on without a journal)
OpenJournalIfPossible ==
    /\ At("open_journal") /\ journal' \in {"none", "applying"}
    /\ pc' = <<"apply", "stage">>
    /\ UNCHANGED <<outcome, cancelled, target, copies, remote, bound, lastEvent>>
OpenJournal == /\ At("open_journal")
               /\ \/ journal' = "applying" /\ pc' = <<"apply", "stage">> /\ UNCHANGED outcome
                  \/ journal' \in {"none", "applying"} /\ Return("approved")
               /\ UNCHANGED <<cancelled, target, copies, remote, bound, lastEvent>>

MarkValidating == /\ At("mark_validating")
                  /\ \/ Updates("validating") /\ Goto("validate")
                     \/ UpdateRaises("validating") /\ Goto("failed")
                  /\ UNCHANGED <<cancelled, target, copies, remote, bound, lastEvent>>

\* The runtime validator passes, does not pass, or raises.
Validate == /\ At("validate")
            /\ \/ ~cancelled /\ Goto("commit_audit")
               \/ Goto("rb_open")
               \/ Goto("failed")
            /\ UNCHANGED <<cancelled, target, copies, remote, record>>

AuditCommitted == /\ At("commit_audit")
                  /\ \/ Appends("apply.committed") /\ Goto("commit_journal")
                     \/ AppendRaises("apply.committed") /\ Goto("failed")
                  /\ UNCHANGED <<cancelled, target, copies, remote, journal, bound>>

CommitJournal == /\ At("commit_journal")
                 /\ \/ Updates("committed") /\ Return("committed")
                    \/ UpdateRaises("committed") /\ Goto("failed")
                 /\ UNCHANGED <<cancelled, target, copies, remote, bound, lastEvent>>

----------------------------------------------------------------------------
(* The except clause of execute.                                           *)

\* (mutant: an unproven apply is rolled back like a failed one)
FailedRollsBack == /\ At("failed")
                   /\ Goto("rb_open")
                   /\ UNCHANGED <<cancelled, target, copies, remote, record>>
Failed == /\ At("failed")
          /\ \/ Return("recovery_required")                \* the journal cannot be loaded
             \/ journal = "applying" /\ Goto("abandon")
             \/ journal # "applying" /\ Goto("rb_open")
          /\ UNCHANGED <<cancelled, target, copies, remote, record>>

\* No verified result: nothing is guessed.  An update that raises here leaves
\* execute.
Abandon == /\ At("abandon")
           /\ \/ Updates("rolling_back") /\ Goto("abandon_close")
              \/ UpdateRaises("rolling_back") /\ Return("raised")
           /\ UNCHANGED <<cancelled, target, copies, remote, bound, lastEvent>>

AbandonClose == /\ At("abandon_close")
                /\ \/ Updates("recovery_required") /\ Goto("abandon_audit")
                   \/ UpdateRaises("recovery_required") /\ Return("raised")
                /\ UNCHANGED <<cancelled, target, copies, remote, bound, lastEvent>>

AbandonAudit == /\ At("abandon_audit")
                /\ AppendRaises("apply.recovery_required")
                /\ Return("recovery_required")
                /\ UNCHANGED <<cancelled, target, copies, remote, journal, bound>>

----------------------------------------------------------------------------
(* _rollback.                                                              *)

RollbackOpen ==
    /\ At("rb_open")
    /\ \/ /\ journal \in {"applying", "validating"}
          /\ \/ Updates("rolling_back") /\ Goto("rb_prepare")
             \/ UpdateRaises("rolling_back") /\ Goto("rb_failed")
       \/ journal \notin {"applying", "validating"} /\ UNCHANGED journal /\ Goto("rb_prepare")
       \/ UNCHANGED journal /\ Goto("rb_failed")
    /\ UNCHANGED <<cancelled, target, copies, remote, bound, lastEvent>>

\* PrepareSshUserRollback verifies both copies again and reads the item.
PrepareRollback ==
    /\ At("rb_prepare")
    /\ \/ localCopy = "complete" /\ LoadReceipt(FALSE) /\ snap = Before /\ Goto("rb_bind")
       \/ UNCHANGED receipt /\ Goto("rb_failed")
    /\ UNCHANGED <<cancelled, target, localCopy, snap, attempt, remoteCopy, remote, record>>

\* LocalOperationJournal.bind_rollback.
BindRollback ==
    /\ At("rb_bind")
    /\ \/ /\ journal = "rolling_back" /\ bound' = TRUE
          /\ pc' = <<"rollback", "stage">> /\ UNCHANGED outcome
       \/ /\ bound' \in {bound, bound \/ journal = "rolling_back"} /\ Goto("rb_failed")
    /\ UNCHANGED <<cancelled, target, copies, remote, journal, lastEvent>>

AuditRolledBack == /\ At("rb_audit")
                   /\ \/ Appends("rollback.completed") /\ Goto("rb_close")
                      \/ AppendRaises("rollback.completed") /\ Goto("rb_failed")
                   /\ UNCHANGED <<cancelled, target, copies, remote, journal, bound>>

CloseRolledBack == /\ At("rb_close")
                   /\ \/ Updates("rolled_back") /\ Return("rolled_back")
                      \/ UpdateRaises("rolled_back") /\ Goto("rb_failed")
                   /\ UNCHANGED <<cancelled, target, copies, remote, bound, lastEvent>>

\* The errors of this last update and audit are dropped.
RollbackFailed == /\ At("rb_failed")
                  /\ Updates("recovery_required") \/ UpdateRaises("recovery_required")
                  /\ Goto("rb_failed_audit")
                  /\ UNCHANGED <<cancelled, target, copies, remote, bound, lastEvent>>

AuditRollbackFailed == /\ At("rb_failed_audit")
                       /\ AppendRaises("rollback.recovery_required")
                       /\ Return("recovery_required")
                       /\ UNCHANGED <<cancelled, target, copies, remote, journal, bound>>

Run == \/ CheckTask \/ IdentifyHost \/ Login \/ ResolveHome \/ MapTarget \/ BuildRoute
       \/ AuditApproved \/ CheckApproval \/ CheckHost \/ CaptureRemote \/ SaveLocal
       \/ SaveAttempt \/ VerifyCopies \/ Render \/ AuditVerified \/ OpenJournal
       \/ MarkValidating \/ Validate \/ AuditCommitted \/ CommitJournal
       \/ Failed \/ Abandon \/ AbandonClose \/ AbandonAudit
       \/ RollbackOpen \/ PrepareRollback \/ BindRollback \/ AuditRolledBack
       \/ CloseRolledBack \/ RollbackFailed \/ AuditRollbackFailed

----------------------------------------------------------------------------
(* The helper processes on the remote host.                                *)

At2(k, s) == helper[k] = s
HelperGoes(k, s) == helper' = [helper EXCEPT ![k] = s]
Keep == UNCHANGED <<pc, outcome, cancelled, record, localCopy, snap, attempt, receipt, expired>>

\* The user types the sudo password, perhaps after invoke has given up.
EnterPassword == /\ At2("recover", "prompt") /\ HelperGoes("recover", "started")
                 /\ Keep /\ UNCHANGED <<target, remoteCopy, staged>>

\* The checks each executor makes before it changes anything.
Unanswered(k) == staged[k].items = "whole" /\ staged[k].result = NoDoc
RecoveryAccepted == /\ Decodes("recover", staged["recover"].request)
                    /\ Unanswered("recover") /\ remoteCopy = "none"
ApplyAccepted == /\ Decodes("apply", staged["apply"].request) /\ Unanswered("apply")
                 /\ file = staged["apply"].request.before
RollbackAccepted == /\ Decodes("rollback", staged["rollback"].request) /\ Unanswered("rollback")
                    /\ file = staged["rollback"].request.current
Accepted(k) == \/ k = "recover" /\ RecoveryAccepted
               \/ k = "apply" /\ ApplyAccepted
               \/ k = "rollback" /\ RollbackAccepted

HelperChecks(k) == /\ At2(k, "started")
                   /\ HelperGoes(k, IF Accepted(k) THEN "working" ELSE "exited")
                   /\ Keep /\ UNCHANGED <<target, remoteCopy, staged>>

\* RemoteRootRecoveryStore.create: items, verification, receipt, retention.
StoreCopy == /\ At2("recover", "working") /\ HelperGoes("recover", "written")
             /\ remoteCopy' = "complete"
             /\ Keep /\ UNCHANGED <<target, staged>>

ReplaceTarget == /\ At2("apply", "working") /\ HelperGoes("apply", "written")
                 /\ file' = staged["apply"].request.after /\ writer' = "apply"
                 /\ Keep /\ UNCHANGED <<edits, remoteCopy, staged>>

RestoreTarget == /\ At2("rollback", "working") /\ HelperGoes("rollback", "written")
                 /\ file' = staged["rollback"].request.restore /\ writer' = "restore"
                 /\ Keep /\ UNCHANGED <<edits, remoteCopy, staged>>

\* The target is read once more and the immutable result is published.
Verified(k) == \/ k = "recover"
               \/ k = "apply" /\ file = staged["apply"].request.after
               \/ k = "rollback" /\ file = staged["rollback"].request.restore
ResultOf(k) == CASE k = "recover"  -> Receipt
                 [] k = "apply"    -> ApplyResult
                 [] k = "rollback" -> RollbackResult
HelperReports(k) == /\ At2(k, "written") /\ HelperGoes(k, "exited")
                    /\ staged' = IF Verified(k) THEN [staged EXCEPT ![k].result = ResultOf(k)]
                                                ELSE staged
                    /\ Keep /\ UNCHANGED <<target, remoteCopy>>

\* The helper raises or is killed; a recovery copy may be left half made.
HelperDies(k) == /\ helper[k] \notin {"none", "exited"} /\ HelperGoes(k, "exited")
                 /\ remoteCopy' \in {remoteCopy} \union
                        (IF At2("recover", "working") /\ k = "recover" THEN {"partial"} ELSE {})
                 /\ Keep /\ UNCHANGED <<target, staged>>

Helpers == \/ EnterPassword \/ StoreCopy \/ ReplaceTarget \/ RestoreTarget
           \/ \E k \in Kinds : HelperChecks(k) \/ HelperReports(k) \/ HelperDies(k)

----------------------------------------------------------------------------
(* The world.                                                              *)

Running == pc \notin {<<"run", "done">>, <<"run", "crashed">>}

Cancel == /\ Running /\ ~cancelled /\ cancelled' = TRUE
          /\ UNCHANGED <<pc, outcome, target, copies, remote, record>>

\* Five minutes after a request was issued.
Issued(k) == \/ k = "recover" /\ attempt
             \/ k = "apply" /\ journal # "none"
             \/ k = "rollback" /\ bound
Expire(k) == /\ Issued(k) /\ k \notin expired /\ expired' = expired \union {k}
             /\ UNCHANGED <<pc, outcome, cancelled, target, copies, staged, helper, record>>

Edit(c) == /\ edits < MaxEdits /\ file' = c /\ writer' = "editor" /\ edits' = edits + 1
           /\ UNCHANGED <<pc, outcome, cancelled, copies, remote, record>>

\* The desktop program dies; helpers and remote files are not touched by that.
Crash == /\ Running /\ pc' = <<"run", "crashed">>
         /\ UNCHANGED <<outcome, cancelled, target, copies, remote, record>>

World == \/ Cancel \/ Crash
         \/ \E k \in Kinds : Expire(k)
         \/ \E c \in Contents : Edit(c)

Next == Run \/ Transport \/ Helpers \/ World

Spec == Init /\ [][Next]_vars

\* The worker thread goes on, because every ssh command has a timeout; nothing
\* is assumed of the helpers.
FairSpec == Spec /\ WF_vars(Run \/ Transport)

----------------------------------------------------------------------------
(* Properties.                                                             *)

\* Every variable has its type.
TypeOK ==
    /\ pc \in PCs /\ outcome \in Outcomes \union {"none"} /\ cancelled \in BOOLEAN
    /\ file \in Contents /\ writer \in {"none", "apply", "restore", "editor"}
    /\ edits \in 0..MaxEdits
    /\ localCopy \in {"none", "complete"} /\ snap \in Contents
    /\ attempt \in BOOLEAN /\ receipt \in BOOLEAN
    /\ remoteCopy \in {"none", "partial", "complete"}
    /\ \A k \in Kinds : /\ staged[k].items \in {"none", "torn", "whole"}
                        /\ staged[k].request \in {NoDoc, Torn, RequestOf[k]}
    /\ helper \in [Kinds -> HelperStates] /\ expired \subseteq Kinds
    /\ journal \in JournalStatus /\ bound \in BOOLEAN
    /\ lastEvent \in Events \union {"none"}

\* The apply helper is started only when both copies of the backup exist and
\* hold the content the plan was made from, although the local side never sees
\* the remote copy but only a receipt that may come late or from a second look
\* (DualCopyPrivilegedBackupStore, PrepareSshUserApply).
BothCopiesFirst ==
    helper["apply"] # "none" =>
        localCopy = "complete" /\ remoteCopy = "complete" /\ snap = Before

\* A rollback is sent only against a proven apply: its helper runs only when
\* the apply helper has published its result and is gone, so the two never
\* write the target concurrently (the except clause of execute).
RollbackOnProof ==
    helper["rollback"] # "none" =>
        helper["apply"] = "exited" /\ ApplyResultMatches(staged["apply"].result)

\* Apply and rollback are each sent at most once, whatever is lost: a helper
\* that was started is never started again.
SentOnce ==
    [][\A k \in {"apply", "rollback"} : helper'[k] = "started" => helper[k] \in {"none", "started"}]_vars

\* While the target holds what the apply wrote - also when its helper wrote it
\* after the coordinator had given up or died - the journal does not say that
\* nothing happened or that it was rolled back.
NothingForgotten == writer = "apply" => journal \notin {"none", "rolled_back"}

\* The route in the terms of the contract of all apply routes.
phase == CASE outcome = "none"                               -> "open"
           [] outcome \in {"refused", "approved"}            -> "untouched"
           [] outcome = "committed"                          -> "committed"
           [] outcome = "rolled_back"                        -> "restored"
           [] outcome \in {"recovery_required", "raised"}    -> "attention"
Holding == [none |-> "original", apply |-> "changed", restore |-> "restored", editor |-> "foreign"]
holds == [t \in {"target"} |-> Holding[writer]]

Contract == INSTANCE ApplyContract WITH Targets <- {"target"}, MayOutlive <- TRUE

\* The route implements the contract: it closes untouched, committed or rolled
\* back only when that is true of the remote file, and a helper that outlives
\* it writes only after an ending that asks for attention.
ImplementsContract == Contract!Spec

\* Whatever is lost, cancelled or never answered, the task comes to an end.
Termination == <>(~Running)

=============================================================================
