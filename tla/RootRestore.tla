----------------------------- MODULE RootRestore ----------------------------
(***************************************************************************)
(* The restore of the root-owned systemd drop-in: setup of the root state, *)
(* the capture of originals by the root apply helper, the review helper    *)
(* (list, preview, approve, status), the execution helper, their stores    *)
(* and locks, and the three dialogs of the desktop user                    *)
(* (the root_ and local_root_ files of infrastructure/, and root_restore_  *)
(* and qt_root_restore_ of ui/).                                           *)
(*                                                                         *)
(* Helpers are processes of root that meet at the flock of the target's    *)
(* directory, which never waits; a helper that dies releases it.  The      *)
(* client of an execution can give up while the helper works on.  Records  *)
(* are published by link and unlink of a pending file: a failure between   *)
(* leaves a request "torn", and every later read of it refuses.            *)
(* Administrators edit the target and take no lock.  Digests, identities   *)
(* of callers and the encryption of originals are not modelled: an         *)
(* original that does not verify is "damaged".                             *)
(***************************************************************************)
EXTENDS Integers, FiniteSets

CONSTANTS Requests,   \* restore requests, one per run of the three dialogs
          Again,      \* requests whose execution entry is started once more by hand
          Applies,    \* root applies; each captures one original
          Contents,   \* contents of the drop-in
          Absent,     \* the drop-in does not exist
          MaxEvents   \* bound: edits, damage, expiries, starts by hand

FileStates == Contents \union {Absent}
Helpers == (Requests \X {1}) \union (Again \X {2})
Req(h) == h[1]

NotYet == "not yet"
None == "none"

ASSUME RootConstantsAssumption ==
    /\ Absent \notin Contents /\ NotYet \notin FileStates /\ None \notin Applies
    /\ Again \subseteq Requests /\ Applies \intersect Helpers = {} /\ MaxEvents \in Nat

VARIABLES
    file, served,   \* the drop-in, and the settings the service runs with
    lock, staging,  \* holders of the target lock; a .llm-restore- file is left there
    key,            \* the root key: "none", "partial" or "ready"
    applying,       \* pc of each apply helper
    origin,         \* RootBackupEvidence of each apply, or its state
    choice,         \* the backup the user selected for a request
    review,         \* RootRestoreReviewEvidence of each request
    expired,        \* requests past expires_at
    attempts, results, torn,  \* the other records in the execution store
    events, chain,  \* root audit events of each request; "whole" or "broken"
    pc, verdict, dispatched, told,  \* the execution helpers, and what they print
    ui,             \* state of the dialog that is open for each request
    wrote, raced, validated,  \* history, per helper
    count           \* events so far

target == <<file, served, lock, staging>>
applies == <<key, applying, origin>>
records == <<review, attempts, results, torn>>
audit == <<events, chain>>
helpers == <<pc, verdict, dispatched, told>>
history == <<wrote, raced, validated>>
vars == <<target, applies, choice, expired, records, audit, helpers, ui, history, count>>

\* What is bounded.
Happens == count < MaxEvents /\ count' = count + 1

NoOrigin == [state |-> "none"]
NoReview == [state |-> "none"]
States == {"committed", "failed", "unknown"}
Working == {"locking", "preflight", "origin", "begin", "start_audit", "final_check", "stage",
            "recheck", "replace", "validate", "service", "postcheck", "finish_audit", "finish"}

Init ==
    /\ file \in FileStates /\ served = file /\ lock = {} /\ staging = FALSE
    /\ key = "none" /\ applying = [a \in Applies |-> "idle"]
    /\ origin = [a \in Applies |-> NoOrigin]
    /\ choice = [r \in Requests |-> None]
    /\ review = [r \in Requests |-> NoReview] /\ expired = {}
    /\ attempts = {} /\ results = [r \in Requests |-> None] /\ torn = {}
    /\ events = [r \in Requests |-> {}] /\ chain = "whole"
    /\ pc = [h \in Helpers |-> "none"] /\ verdict = [h \in Helpers |-> None]
    /\ dispatched = {} /\ told = [h \in Helpers |-> None]
    /\ ui = [r \in Requests |-> "inventory_new"]
    /\ wrote = [h \in Helpers |-> NotYet] /\ raced = {} /\ validated = {}
    /\ count = 0

----------------------------------------------------------------------------
(* What the stores return.                                                 *)

\* RootRestoreStore._lock: a pending file of the request, and nothing is read.
Readable(r) == r \notin torn

\* _review and load_review: whole, and within the window of the request.
StoredReview(r) == Readable(r) /\ review[r].state = "saved"
ValidRequest(r) == r \notin expired
ValidReview(r) == StoredReview(r) /\ ValidRequest(r)
LoadReview(r) == ValidReview(r)

\* load_execution and request_is_unused: any attempt, with a result or not.
Unused(r) == StoredReview(r) /\ r \notin attempts

\* Mutant of HistoryOf: an attempt without a result is not reported.
HistoryOfResults(r) == IF results[r] # None THEN results[r] ELSE "review_only"

\* reconcile, and the state the status command makes of it; expired reviews
\* are still read.
HistoryOf(r) == IF results[r] # None THEN results[r]
                ELSE IF r \in attempts THEN "unknown" ELSE "review_only"
Reconciles(r) == StoredReview(r)
ShownHistory == [committed |-> "was_committed", failed |-> "was_failed",
                 unknown |-> "was_unknown", review_only |-> "was_review_only"]

\* RootBackupEvidence, which decode_evidence reads back, and
\* RootBackupEvidenceReader._read.
OriginRecord(f) == [state |-> "whole", original |-> f]
Intact(a) == origin[a].state = "whole"
\* list_inventory rejects the whole store for one entry it cannot account for.
ListsInventory == \A a \in Applies : origin[a].state \in {"none", "whole"}

\* LocalRootBackupKeys.get_key: a private key file of the right length.
KeyAvailable == key = "ready"
\* observe_root_target.
Observed == file

\* VerifyRootBackupOrigin.execute: the original, bound to the review, decrypts.
Verifies(r) == Intact(choice[r]) /\ KeyAvailable /\ origin[choice[r]].original = review[r].backup

\* _publish of a record: whole, nothing, or the pending file stays behind,
\* before or after the link.
PublishFails(r) == torn' \in {torn, torn \union {r}}

\* RootRestoreAuditLog.append: the chain must verify and the event must come
\* next for its request; a failure between event and HEAD breaks the chain.
Follows(r, e) == \/ e = "started" /\ events[r] = {}
                 \/ e = "finished" /\ events[r] = {"started"}
ChainVerifies == chain = "whole"
Appends(r, e) == /\ ChainVerifies /\ Follows(r, e)
                 /\ events' = [events EXCEPT ![r] = @ \union {e}] /\ UNCHANGED chain
AppendRaises == chain' \in {chain, "broken"} /\ UNCHANGED events

----------------------------------------------------------------------------
(* Setup, and the capture of originals by the apply helper.                *)

\* initialize_empty_state and ProvisionLocalRootKey: only an empty state is
\* set up, and a failure leaves what the next setup refuses.
ProvisionKey == key = "none" /\ key' \in {"partial", "ready"}
Setup == /\ \A a \in Applies : origin[a] = NoOrigin
         /\ ProvisionKey
         /\ UNCHANGED <<target, applying, origin, choice, expired, records, audit, helpers, ui, history, count>>

\* Mutant of CanLock: the lock is not taken exclusively.
CanLockShared == ~staging

\* locked_root_target: free, and no restore was abandoned there.
CanLock == lock = {} /\ ~staging

ApplyLock(a) == /\ applying[a] = "idle" /\ CanLock
                /\ lock' = lock \union {a} /\ applying' = [applying EXCEPT ![a] = "locked"]
                /\ UNCHANGED <<file, served, staging, key, origin, choice, expired, records, audit, helpers, ui, history, count>>

ApplyEnds(a) == applying' = [applying EXCEPT ![a] = "done"] /\ lock' = lock \ {a}

\* capture_before_replace and CaptureRootBackup.execute: the key must be
\* there; payload first, marker last; what a failure leaves is not removed.
Capture(a) ==
    /\ applying[a] = "locked"
    /\ \/ /\ KeyAvailable /\ origin[a] = NoOrigin
          /\ origin' = [origin EXCEPT ![a] = OriginRecord(Observed)]
          /\ applying' = [applying EXCEPT ![a] = "captured"] /\ UNCHANGED lock
       \/ /\ KeyAvailable /\ origin' = [origin EXCEPT ![a] = [state |-> "partial"]] /\ ApplyEnds(a)
       \/ UNCHANGED origin /\ ApplyEnds(a)
    /\ UNCHANGED <<file, served, staging, key, choice, expired, records, audit, helpers, ui, history, count>>

ApplyReplace(a) ==
    /\ applying[a] = "captured"
    /\ \/ file' \in Contents \ {file} /\ served' = file'
       \/ UNCHANGED <<file, served>>
    /\ ApplyEnds(a)
    /\ UNCHANGED <<staging, key, origin, choice, expired, records, audit, helpers, ui, history, count>>

----------------------------------------------------------------------------
(* The dialogs and the review helper.  Every call is one run of pkexec     *)
(* that can be denied, time out, or answer with something else.            *)

Show(r, state) == ui' = [ui EXCEPT ![r] = state]

\* RootRestoreInventorySession: one listing, one selection.
ListBackups(r) ==
    /\ ui[r] = "inventory_new"
    /\ \/ ListsInventory /\ Show(r, "inventory_ready")
       \/ Show(r, "closed")
    /\ UNCHANGED <<target, applies, choice, expired, records, audit, helpers, history, count>>
Select(r) ==
    /\ ui[r] = "inventory_ready"
    /\ \E a \in Applies : origin[a] # NoOrigin /\ choice' = [choice EXCEPT ![r] = a]
    /\ Show(r, "review_new")
    /\ UNCHANGED <<target, applies, expired, records, audit, helpers, history, count>>

\* ProduceRootRestoreReview._selection, inside the target lock: the original
\* decrypts and differs from what is there.
Selectable(a) == CanLock /\ Intact(a) /\ KeyAvailable /\ Observed # origin[a].original
Selection(a) == [state |-> "seen", current |-> Observed, backup |-> origin[a].original]

\* The request the user sees; it is stored when it is approved.
Preview(r) ==
    /\ ui[r] = "review_new"
    /\ \/ /\ Selectable(choice[r]) /\ review' = [review EXCEPT ![r] = Selection(choice[r])]
          /\ Show(r, "review_ready")
       \/ Show(r, "review_failed") /\ UNCHANGED review
    /\ UNCHANGED <<target, applies, choice, expired, attempts, results, torn, audit, helpers, history, count>>

\* save_task, approve and save_review: the selection is made once more and
\* must be the one that was shown.  The answer can be lost.
CanSave(r) == ui[r] = "review_ready" /\ ValidRequest(r)
SameSelection(r) == Selectable(choice[r]) /\ Selection(choice[r]) = review[r]
Saves(r) == review' = [review EXCEPT ![r].state = "saved"]
Approve(r) ==
    /\ ui[r] = "review_ready"
    /\ \/ /\ CanSave(r) /\ SameSelection(r) /\ Saves(r)
          /\ \/ Show(r, "review_saved") /\ UNCHANGED torn
             \/ Show(r, "review_failed") /\ PublishFails(r)
       \/ Show(r, "review_failed") /\ UNCHANGED review /\ PublishFails(r)
    /\ UNCHANGED <<target, applies, choice, expired, attempts, results, audit, helpers, history, count>>

\* approved_request_for_execution, and the execution session made from it.
Continue(r) == /\ ui[r] = "review_saved"
               /\ \/ ValidRequest(r) /\ Show(r, "ready")
                  \/ ~ValidRequest(r) /\ Show(r, "review_failed")
               /\ UNCHANGED <<target, applies, choice, expired, records, audit, helpers, history, count>>

\* status_task and receive_status: one look at the history, after a review
\* or an execution that was not confirmed.
CheckStatus(r) == /\ ui[r] \in {"review_failed", "unconfirmed"}
                  /\ \/ Reconciles(r) /\ Show(r, ShownHistory[HistoryOf(r)])
                     \/ Show(r, "status_failed")
                  /\ UNCHANGED <<target, applies, choice, expired, records, audit, helpers, history, count>>

\* execute_task and RootRestoreExecuteClient.execute up to the launch; with
\* exit code 126 or 127, or past the expiry, the helper has never run.
CanExecute(r) == ui[r] = "ready" /\ ValidRequest(r)
StartExecution(r) ==
    /\ ui[r] = "ready"
    /\ \/ /\ CanExecute(r) /\ Show(r, "executing")
          /\ pc' = [pc EXCEPT ![<<r, 1>>] = "locking"]
       \/ UNCHANGED pc /\ Show(r, "rejected")
    /\ UNCHANGED <<target, applies, choice, expired, records, audit, verdict, dispatched, told, history, count>>

StartByHand(h) == /\ Happens /\ h[2] = 2 /\ pc[h] = "none" /\ review[Req(h)].state = "saved"
                  /\ pc' = [pc EXCEPT ![h] = "locking"]
                  /\ UNCHANGED <<target, applies, choice, expired, records, audit, verdict, dispatched, told, ui, history>>

\* receive_execution: only a recorded result is a result; an error in the
\* output of the helper, a dead helper and no answer are "unconfirmed".
Outcome(r) == IF told[<<r, 1>>] \in States THEN told[<<r, 1>>] ELSE "unconfirmed"
ReceiveExecution(r) ==
    /\ ui[r] = "executing"
    /\ \/ pc[<<r, 1>>] \in {"exited", "dead"} /\ Show(r, Outcome(r))
       \/ Show(r, "unconfirmed")
    /\ UNCHANGED <<target, applies, choice, expired, records, audit, helpers, history, count>>

\* done and closeEvent: the answer of an active worker is not shown any more.
\* (A dialog that is closed at rest is one that takes no further step.)
CloseDialog(r) == /\ ui[r] = "executing" /\ Show(r, "closed")
                  /\ UNCHANGED <<target, applies, choice, expired, records, audit, helpers, history, count>>

----------------------------------------------------------------------------
(* ExecuteLocalRootRestore.execute.                                        *)

At(h, step) == pc[h] = step
Goto(h, step) == pc' = [pc EXCEPT ![h] = step]
Exit(h, answer) == /\ Goto(h, "exited") /\ told' = [told EXCEPT ![h] = answer]
                   /\ lock' = lock \ {h}
\* Before there is an attempt: the helper prints a mere error.
Reject(h) == Exit(h, "error") /\ UNCHANGED <<verdict, dispatched>>
\* After it: the state that will be recorded.
Worst(h) == IF h \in dispatched THEN "unknown" ELSE "failed"
Fail(h) == /\ Goto(h, "finish_audit") /\ verdict' = [verdict EXCEPT ![h] = Worst(h)]
           /\ UNCHANGED <<dispatched, told, lock>>
Proceed(h, step) == Goto(h, step) /\ UNCHANGED <<verdict, dispatched, told, lock>>

\* Mutant of LockTarget: it waits for the lock.
LockTargetWaits(h) ==
    /\ At(h, "locking") /\ CanLock
    /\ lock' = lock \union {h} /\ Goto(h, "preflight") /\ UNCHANGED <<verdict, dispatched, told>>
    /\ UNCHANGED <<file, served, staging, applies, choice, expired, records, audit, ui, history, count>>

\* decode_request, production_execution (the audit chain must verify) and
\* SingleRootRestoreTarget.locked.
Composed == ChainVerifies
LockTarget(h) ==
    /\ At(h, "locking")
    /\ \/ /\ ValidRequest(Req(h)) /\ Composed /\ CanLock
          /\ lock' = lock \union {h} /\ Goto(h, "preflight") /\ UNCHANGED <<verdict, dispatched, told>>
       \/ Reject(h)
    /\ UNCHANGED <<file, served, staging, applies, choice, expired, records, audit, ui, history, count>>

\* CheckLocalRootRestore.execute.
Checked(r) == /\ LoadReview(r) /\ Unused(r)
              /\ Observed = review[r].current /\ Verifies(r)
Preflight(h) ==
    /\ At(h, "preflight")
    /\ \/ Checked(Req(h)) /\ Proceed(h, "origin")
       \/ Reject(h)
    /\ UNCHANGED <<file, served, staging, applies, choice, expired, records, audit, ui, history, count>>

\* The review, its origin and the plaintext.
ReadOrigin(h) ==
    /\ At(h, "origin")
    /\ \/ LoadReview(Req(h)) /\ Verifies(Req(h)) /\ Proceed(h, "begin")
       \/ Reject(h)
    /\ UNCHANGED <<file, served, staging, applies, choice, expired, records, audit, ui, history, count>>

\* Mutant of Begin: an attempt that cannot be published is ignored.
BeginUnpublished(h) ==
    /\ At(h, "begin")
    /\ \/ /\ ValidReview(Req(h)) /\ Unused(Req(h)) /\ attempts' \in {attempts, attempts \union {Req(h)}}
          /\ Goto(h, "start_audit") /\ verdict' = [verdict EXCEPT ![h] = "committed"]
          /\ UNCHANGED <<dispatched, told, lock>>
       \/ UNCHANGED attempts /\ Reject(h)
    /\ UNCHANGED <<file, served, staging, applies, choice, expired, review, results, torn, audit, ui, history, count>>

\* RootRestoreStore.begin.
Begin(h) ==
    /\ At(h, "begin")
    /\ \/ /\ ValidReview(Req(h)) /\ Unused(Req(h))
          /\ attempts' = attempts \union {Req(h)} /\ UNCHANGED torn
          /\ Goto(h, "start_audit") /\ verdict' = [verdict EXCEPT ![h] = "committed"]
          /\ UNCHANGED <<dispatched, told, lock>>
       \/ /\ ValidReview(Req(h)) /\ Unused(Req(h)) /\ attempts' \in {attempts, attempts \union {Req(h)}}
          /\ torn' = torn \union {Req(h)} /\ Reject(h)
       \/ UNCHANGED <<attempts, torn>> /\ Reject(h)
    /\ UNCHANGED <<file, served, staging, applies, choice, expired, review, results, audit, ui, history, count>>

AuditStarted(h) ==
    /\ At(h, "start_audit")
    /\ \/ Appends(Req(h), "started") /\ Proceed(h, "final_check")
       \/ AppendRaises /\ Fail(h)
    /\ UNCHANGED <<file, served, staging, applies, choice, expired, records, ui, history, count>>

\* Review, origin and target once more.
FinalCheck(h) ==
    /\ At(h, "final_check")
    /\ \/ /\ LoadReview(Req(h)) /\ Intact(choice[Req(h)]) /\ Observed = review[Req(h)].current
          /\ Goto(h, "stage") /\ dispatched' = dispatched \union {h}
          /\ UNCHANGED <<verdict, told, lock>>
       \/ Fail(h)
    /\ UNCHANGED <<file, served, staging, applies, choice, expired, records, audit, ui, history, count>>

\* SingleRootRestoreTarget.restore: the new content goes to a pending file,
\* which only the replacement takes away.
Stage(h) ==
    /\ At(h, "stage")
    /\ \/ /\ file = review[Req(h)].current
          /\ staging' = (review[Req(h)].backup # Absent) /\ Proceed(h, "recheck")
       \/ staging' \in {FALSE, review[Req(h)].backup # Absent} /\ Fail(h)
    /\ UNCHANGED <<file, served, applies, choice, expired, records, audit, ui, history, count>>

\* The second snapshot, and before_commit.
Recheck(h) ==
    /\ At(h, "recheck")
    /\ \/ file = review[Req(h)].current /\ ValidRequest(Req(h)) /\ Proceed(h, "replace")
       \/ Fail(h)
    /\ UNCHANGED <<file, served, staging, applies, choice, expired, records, audit, ui, history, count>>

\* unlink, replace or, where there was no file, link: that one overwrites nothing.
CanPut(h) == LET rv == review[Req(h)] IN
    /\ rv.backup = Absent => file # Absent
    /\ rv.current = Absent => file = Absent
Put(h) == /\ CanPut(h) /\ file' = review[Req(h)].backup
          /\ wrote' = [wrote EXCEPT ![h] = review[Req(h)].backup]
Replace(h) ==
    /\ At(h, "replace")
    /\ \/ Put(h) /\ staging' = FALSE /\ (Proceed(h, "validate") \/ Fail(h))
       \/ /\ Put(h) /\ review[Req(h)].current = Absent /\ UNCHANGED staging /\ Fail(h)
       \/ UNCHANGED <<file, wrote, staging>> /\ Fail(h)
    /\ UNCHANGED <<served, applies, choice, expired, records, audit, ui, raced, validated, count>>

IsRestored(h) == Observed = review[Req(h)].backup
Validate(h) ==
    /\ At(h, "validate")
    /\ \/ IsRestored(h) /\ Proceed(h, "service")
       \/ Fail(h)
    /\ UNCHANGED <<file, served, staging, applies, choice, expired, records, audit, ui, history, count>>

\* _restored_settings: what the restored content says the service runs with.
SettingsRestored(h) == served' = review[Req(h)].backup
\* reload_restart_validate: the settings of the service are compared with the
\* restored content; False is FAILED, anything raised is UNKNOWN.
Service(h) ==
    /\ At(h, "service")
    /\ \/ /\ served' = file /\ SettingsRestored(h)
          /\ validated' = validated \union {h} /\ Proceed(h, "postcheck")
       \/ /\ served' \in {served, file} /\ UNCHANGED validated
          /\ Goto(h, "postcheck") /\ verdict' = [verdict EXCEPT ![h] = "failed"]
          /\ UNCHANGED <<dispatched, told, lock>>
       \/ served' \in {served, file} /\ UNCHANGED validated /\ Fail(h)
    /\ UNCHANGED <<file, staging, applies, choice, expired, records, audit, ui, wrote, raced, count>>

Postcheck(h) ==
    /\ At(h, "postcheck")
    /\ \/ IsRestored(h) /\ Proceed(h, "finish_audit")
       \/ Fail(h)
    /\ UNCHANGED <<file, served, staging, applies, choice, expired, records, audit, ui, history, count>>

AuditFinished(h) ==
    /\ At(h, "finish_audit")
    /\ \/ Appends(Req(h), "finished") /\ Proceed(h, "finish")
       \/ /\ AppendRaises /\ Goto(h, "finish")
          /\ verdict' = [verdict EXCEPT ![h] = Worst(h)] /\ UNCHANGED <<dispatched, told, lock>>
    /\ UNCHANGED <<file, served, staging, applies, choice, expired, records, ui, history, count>>

\* RootRestoreStore.finish, or RootRestorePersistenceError.
Finish(h) ==
    /\ At(h, "finish")
    /\ \/ /\ Readable(Req(h)) /\ results[Req(h)] = None
          /\ results' = [results EXCEPT ![Req(h)] = verdict[h]] /\ UNCHANGED torn
          /\ Exit(h, verdict[h])
       \/ /\ \/ UNCHANGED results
             \/ Readable(Req(h)) /\ results[Req(h)] = None /\ results' = [results EXCEPT ![Req(h)] = verdict[h]]
          /\ PublishFails(Req(h)) /\ Exit(h, "unconfirmed")
    /\ UNCHANGED <<file, served, staging, applies, choice, expired, review, attempts, audit, verdict, dispatched, ui, history, count>>

----------------------------------------------------------------------------
(* Everything else.                                                        *)

\* A helper dies and the kernel releases the lock.  What a step that dies half
\* way leaves behind is among what it leaves when it fails.
Die(h) == /\ pc[h] \in Working /\ Goto(h, "dead")
          /\ lock' = lock \ {h}
          /\ UNCHANGED <<file, served, staging, applies, choice, expired, records, audit, verdict, dispatched, told, ui, history, count>>

\* Helpers whose target changes after their last look at it.
Overtaken == {h \in Helpers : pc[h] = "replace"}
AdminEdit == /\ Happens /\ file' \in FileStates \ {file} /\ raced' = raced \union Overtaken
             /\ UNCHANGED <<served, lock, staging, applies, choice, expired, records, audit, helpers, ui, wrote, validated>>
\* After a look by hand the administrator removes an abandoned pending file.
AdminClears == /\ staging /\ lock = {} /\ staging' = FALSE
               /\ UNCHANGED <<file, served, lock, applies, choice, expired, records, audit, helpers, ui, history, count>>
DamageOrigin(a) == /\ Happens /\ Intact(a) /\ origin' = [origin EXCEPT ![a] = [state |-> "damaged"]]
                   /\ UNCHANGED <<target, key, applying, choice, expired, records, audit, helpers, ui, history>>
Expire(r) == /\ Happens /\ review[r] # NoReview /\ r \notin expired /\ expired' = expired \union {r}
             /\ UNCHANGED <<target, applies, choice, records, audit, helpers, ui, history>>

Execute(h) == \/ LockTarget(h) \/ Preflight(h) \/ ReadOrigin(h) \/ Begin(h) \/ AuditStarted(h)
              \/ FinalCheck(h) \/ Stage(h) \/ Recheck(h) \/ Replace(h) \/ Validate(h)
              \/ Service(h) \/ Postcheck(h) \/ AuditFinished(h) \/ Finish(h)

Next == \/ Setup
        \/ \E a \in Applies : ApplyLock(a) \/ Capture(a) \/ ApplyReplace(a) \/ DamageOrigin(a)
        \/ \E r \in Requests : \/ ListBackups(r) \/ Select(r) \/ Preview(r) \/ Approve(r) \/ Continue(r)
                               \/ StartExecution(r) \/ ReceiveExecution(r) \/ CheckStatus(r)
                               \/ CloseDialog(r) \/ Expire(r)
        \/ \E h \in Helpers : StartByHand(h) \/ Execute(h) \/ Die(h)
        \/ AdminEdit \/ AdminClears

Spec == Init /\ [][Next]_vars
\* A helper gets on, and a client is answered or times out.
FairSpec == /\ Spec
            /\ \A h \in Helpers : WF_vars(Execute(h))
            /\ \A r \in Requests : WF_vars(ReceiveExecution(r))
----------------------------------------------------------------------------
\* Every variable has its type.
DialogStates == {"inventory_new", "inventory_ready", "review_new", "review_ready", "review_saved",
                 "review_failed", "ready", "executing", "rejected", "unconfirmed", "closed",
                 "status_failed", "was_committed", "was_failed", "was_unknown", "was_review_only"}
                \union States
TargetTypes ==
    /\ file \in FileStates /\ served \in FileStates
    /\ lock \subseteq Applies \union Helpers /\ staging \in BOOLEAN
ApplyTypes ==
    /\ key \in {"none", "partial", "ready"}
    /\ applying \in [Applies -> {"idle", "locked", "captured", "done"}]
    /\ origin \in [Applies -> {NoOrigin, [state |-> "partial"], [state |-> "damaged"]} \union
                              [state : {"whole"}, original : FileStates]]
ReviewTypes ==
    /\ choice \in [Requests -> Applies \union {None}] /\ ui \in [Requests -> DialogStates]
    /\ review \in [Requests -> {NoReview} \union
                        [state : {"seen", "saved"}, current : FileStates, backup : FileStates]]
RecordTypes ==
    /\ expired \subseteq Requests /\ attempts \subseteq Requests /\ torn \subseteq Requests
    /\ results \in [Requests -> States \union {None}]
    /\ events \in [Requests -> SUBSET {"started", "finished"}] /\ chain \in {"whole", "broken"}
HelperTypes ==
    /\ pc \in [Helpers -> Working \union {"none", "exited", "dead"}]
    /\ verdict \in [Helpers -> States \union {None}] /\ dispatched \subseteq Helpers
    /\ told \in [Helpers -> States \union {None, "error", "unconfirmed"}]
HistoryTypes ==
    /\ wrote \in [Helpers -> FileStates \union {NotYet}]
    /\ raced \subseteq Helpers /\ validated \subseteq Helpers /\ count \in 0..MaxEvents
TypeOK == /\ TargetTypes /\ ApplyTypes /\ ReviewTypes
          /\ RecordTypes /\ HelperTypes /\ HistoryTypes

Writers(r) == {h \in Helpers : Req(h) = r /\ wrote[h] # NotYet}
puts == [r \in Requests |-> Cardinality(Writers(r))]
Contract == INSTANCE RestoreContract WITH used <- attempts, verdict <- results

\* An approved request is used up on the disk before the target is replaced,
\* it replaces it at most once although its entry can be started twice, and a
\* result is recorded once, after the replacement, whatever fails or dies
\* (RootRestoreStore.begin and finish, ExecuteLocalRootRestore.execute).
ImplementsContract == Contract!Spec

\* What the dialogs and the status command say of a restore is true of the
\* target, however late the answer: "committed" has been written, accepted by
\* the service and audited from start to end, "failed" is on record, a request
\* that has written is never again called a mere review, and a rejected one
\* never ran (receive_execution, reconcile).
ToldTruth ==
    \A r \in Requests :
        /\ ui[r] \in {"committed", "was_committed"} =>
              /\ results[r] = "committed" /\ events[r] = {"started", "finished"}
              /\ \E h \in Writers(r) : h \in validated /\ wrote[h] = review[r].backup
        /\ ui[r] \in {"failed", "was_failed"} => results[r] = "failed"
        /\ (StoredReview(r) /\ Writers(r) # {}) => HistoryOf(r) # "review_only"
        /\ ui[r] = "rejected" => pc[<<r, 1>>] = "none"

\* A restore replaces only the content its review showed, unless an
\* administrator changed the target after the second snapshot: no other
\* restore and no root apply comes between, and where there was no file
\* nothing is overwritten even then (locked_root_target, restore).
NoBlindOverwrite ==
    [][\A h \in Helpers : wrote'[h] # wrote[h] =>
          LET rv == review[Req(h)] IN
          /\ file = rv.current \/ h \in raced
          /\ rv.current = Absent => file = Absent]_vars

\* Every execution ends, and a dialog that waits for one gets an answer.
Termination ==
    /\ \A h \in Helpers : pc[h] = "locking" ~> pc[h] \in {"exited", "dead"}
    /\ \A r \in Requests : ui[r] = "executing" ~> ui[r] # "executing"
=============================================================================
