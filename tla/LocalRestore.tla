---------------------------- MODULE LocalRestore ----------------------------
(***************************************************************************)
(* The manual restore of a local backup: the worker tasks of               *)
(* LocalBackupInventoryTaskFactory and LocalUserRestoreTaskFactory         *)
(* (ui/composition.py), CreateRestorePreview, CreateRestoreApproval and    *)
(* PrepareLocalRestore (application/restore_*.py),                         *)
(* SingleTargetLocalRestoreExecutor, LocalRestoreCoordinator and its store *)
(* of attempts and results (infrastructure/), and the inventory in which   *)
(* the user later sees what became of them.                                *)
(*                                                                         *)
(* Several restores of the same file can be under way, started by several  *)
(* processes of the program; an authorization belongs to one task.  Other  *)
(* programs write the target, and the backups are protected, damaged or    *)
(* removed meanwhile.  Hashes, canonical bytes and file modes are not      *)
(* modelled: a record that does not decode is "unreadable", an item whose  *)
(* hash is wrong is "damaged".                                             *)
(***************************************************************************)
EXTENDS Integers, FiniteSets

CONSTANTS Tasks,      \* restore tasks
          Backups,    \* backups of the host that hold the target
          Contents,   \* contents of the target
          Absent,     \* the target does not exist
          ItemOf,     \* what each backup recorded of the target
          JournalOf,  \* status of the apply journal of each backup, or "none"
          MaxEvents   \* bound: cancels, expiries and writes by others

FileStates == Contents \union {Absent}

NotYet == "not yet"

ASSUME RestoreConstantsAssumption ==
    /\ Absent \notin Contents /\ NotYet \notin FileStates
    /\ ItemOf \in [Backups -> FileStates]
    /\ MaxEvents \in Nat

VARIABLES
    pc,         \* per task: the call that comes next
    preview,    \* the RestorePreview the user reviews
    observed,   \* current_targets of the PreparedRestoreAuthorization
    item,       \* the BackupRestoreItem read from the backup
    shown,      \* state of the LocalRestoreTaskResult, "raised", or "none"
    cancelled,  \* tasks whose CancellationToken is set
    expired,    \* tasks past expires_at of preview and approval
    file,       \* the target
    wrote,      \* history: what the task put at the target
    raced,      \* history: tasks whose target changed after they last looked
    events,     \* cancels, expiries and writes by others so far
    store,      \* what is left of each backup
    protected,  \* backups with manifest.protected
    strays,     \* stores that hold a temporary file some crash left behind
    attempts,   \* authorizations with an attempt record on the disk
    results,    \* state in the result record of each, or "none"
    audited     \* restore events of each authorization in the audit log

dialog  == <<preview, observed, item, shown>>
inputs  == <<cancelled, expired>>
target  == <<file, wrote, raced>>
stores  == <<store, protected, strays>>
records == <<attempts, results, audited>>
vars == <<pc, dialog, inputs, target, events, stores, records>>

NoPreview == [backup |-> "none"]

PreviewSteps == {"preview", "review", "prepare"}
WorkSteps == {"attempt", "audit_started", "bind", "verify", "read", "observe", "replace",
              "audit_committed", "persist_committed", "persist_failed", "persist_unknown"}
Ended == {"done", "crashed"}
Steps == PreviewSteps \union WorkSteps \union Ended
EvidenceStates == {"committed", "failed", "unknown"}
StoreStates == {"whole", "damaged", "unreadable", "gone"}
RecordStores == {"journals", "restores"}

----------------------------------------------------------------------------
(* What the stores return.                                                 *)

\* decode_backup_manifest_evidence and _read_manifest: the fields, their
\* types, the manifest hash, the identity and the location.
Decodes(b) == store[b] \in {"whole", "damaged"}
Manifest(b) == [backup |-> b, item |-> ItemOf[b], protected |-> b \in protected]

\* list_manifests_strict: one entry that is not a backup, and none is listed.
Listable == \A b \in Backups : store[b] = "gone" \/ Decodes(b)
Listed(b) == Listable /\ Decodes(b)

\* LocalBackupStore.verify: every item decodes to what the manifest says.
Verifies(b) == store[b] = "whole"

\* observe_restore_targets.
Observation == file

\* load_attempt, load_evidence and _read: only whole records that are bound
\* to their authorization are ever on the disk (they are written once, with
\* os.replace), so a record that is there can be read.
LoadAttempt(t) == t \in attempts
LoadEvidence(t) == results[t] # "none"

----------------------------------------------------------------------------
(* What the inventory says of a backup and of the restores made from it.   *)

\* Mutant of ViewNeedsAttention: an attempt without a result does not count.
ViewFailed(t) == results[t] \in {"failed", "unknown"}

\* RestoreExecutionView.requires_attention over list_strict.
ViewNeedsAttention(t) == results[t] # "committed"
RestoresOf(b) == {t \in attempts : preview[t].backup = b}

\* list_for_host reads three stores, and raises when one of them holds an entry
\* that is not a record: then there is no inventory, of no backup.
InventoryRaises == ~Listable \/ strays # {}

\* Manifests, apply journals and restore records are joined by backup_id.  The
\* journal of a listed backup names the same change set.
Identifiers == {b \in Backups : Decodes(b) \/ JournalOf[b] # "none" \/ RestoresOf(b) # {}}
NeedsAttention(b) == \/ ~Decodes(b)
                     \/ JournalOf[b] \in {"none", "recovery_required"}
                     \/ \E t \in RestoresOf(b) : ViewNeedsAttention(t)
Item(b) == [backup |-> b, requires_attention |-> NeedsAttention(b)]
Inventory == [raised |-> InventoryRaises,
              items  |-> {Item(b) : b \in {c \in Identifiers : ~InventoryRaises}}]

----------------------------------------------------------------------------
Init == /\ pc = [t \in Tasks |-> "preview"]
        /\ preview = [t \in Tasks |-> NoPreview]
        /\ observed = [t \in Tasks |-> Absent] /\ item = [t \in Tasks |-> Absent]
        /\ shown = [t \in Tasks |-> "none"]
        /\ cancelled = {} /\ expired = {}
        /\ file \in FileStates
        /\ wrote = [t \in Tasks |-> NotYet] /\ raced = {} /\ events = 0
        /\ store = [b \in Backups |-> "whole"] /\ protected = {} /\ strays = {}
        /\ attempts = {} /\ results = [t \in Tasks |-> "none"]
        /\ audited = [t \in Tasks |-> {}]

At(t, step) == pc[t] = step
Goto(t, step) == pc' = [pc EXCEPT ![t] = step] /\ UNCHANGED shown
Show(t, state) == pc' = [pc EXCEPT ![t] = "done"] /\ shown' = [shown EXCEPT ![t] = state]

\* AdapterError before there is an attempt record: the task raises it.
Raise(t) == Show(t, "raised")

\* An append of the audit log, and one that raises before or after its write.
Appends(t, event) == audited' = [audited EXCEPT ![t] = @ \union {event}]
AppendRaises(t, event) == UNCHANGED audited \/ Appends(t, event)

----------------------------------------------------------------------------
(* Preview and approval.                                                   *)

\* preview_restore and CreateRestorePreview.execute.
Preview(t) ==
    /\ At(t, "preview")
    /\ \/ /\ t \notin cancelled
          /\ \E b \in Backups : Listed(b) /\ preview' = [preview EXCEPT ![t] = Manifest(b)]
          /\ Goto(t, "review")
       \/ UNCHANGED preview /\ Raise(t)
    /\ UNCHANGED <<observed, item, inputs, target, events, stores, records>>

\* CreateRestoreApproval.execute: explicit, and before the preview expires;
\* or the user closes the dialog.
Approve(t) ==
    /\ At(t, "review")
    /\ \/ t \notin expired /\ Goto(t, "prepare")
       \/ Raise(t)
    /\ UNCHANGED <<preview, observed, item, inputs, target, events, stores, records>>

\* PrepareLocalRestore.execute: RestoreApproval.is_valid_for, and the
\* manifest is still the one that was reviewed.
ApprovalValid(t) == t \notin expired
SameManifest(t) == Listed(preview[t].backup) /\ Manifest(preview[t].backup) = preview[t]
Prepare(t) ==
    /\ At(t, "prepare")
    /\ \/ /\ t \notin cancelled /\ ApprovalValid(t) /\ SameManifest(t)
          /\ observed' = [observed EXCEPT ![t] = Observation]
          /\ Goto(t, "attempt")
       \/ UNCHANGED observed /\ Raise(t)
    /\ UNCHANGED <<preview, item, inputs, target, events, stores, records>>

----------------------------------------------------------------------------
(* LocalRestoreCoordinator.execute.                                        *)

\* Mutant of SaveAttempt: a restore waits for every earlier one to be settled.
SaveAttemptAlone(t) ==
    /\ At(t, "attempt") /\ \A u \in attempts : LoadEvidence(u)
    /\ attempts' = attempts \union {t} /\ Goto(t, "audit_started")
    /\ UNCHANGED <<preview, observed, item, inputs, target, events, stores, results, audited>>

\* Mutant of SaveAttempt: an attempt that cannot be saved is ignored.
SaveAttemptAnyway(t) ==
    /\ At(t, "attempt") /\ attempts' \in {attempts, attempts \union {t}} /\ Goto(t, "audit_started")
    /\ UNCHANGED <<preview, observed, item, inputs, target, events, stores, results, audited>>

\* save_attempt; a failure can leave the record behind, unused.
SaveAttempt(t) ==
    /\ At(t, "attempt")
    /\ \/ /\ ~LoadAttempt(t)
          /\ attempts' = attempts \union {t} /\ Goto(t, "audit_started")
       \/ /\ attempts' \in {attempts, attempts \union {t}} /\ Raise(t)
    /\ UNCHANGED <<preview, observed, item, inputs, target, events, stores, results, audited>>

\* Outside the try block: the attempt stays without a result.
AuditStarted(t) ==
    /\ At(t, "audit_started")
    /\ \/ Appends(t, "started") /\ Goto(t, "bind")
       \/ AppendRaises(t, "started") /\ Raise(t)
    /\ UNCHANGED <<preview, observed, item, inputs, target, events, stores, attempts, results>>

\* A step of SingleTargetLocalRestoreExecutor.execute that raises.
Fails(t) == Goto(t, "persist_failed")

\* Cancellation, expiry, _binding, and the first look at the target.
Binding(t) == SameManifest(t)
CheckBinding(t) ==
    /\ At(t, "bind")
    /\ \/ /\ t \notin cancelled /\ t \notin expired
          /\ Binding(t) /\ Observation = observed[t]
          /\ Goto(t, "verify")
       \/ Fails(t)
    /\ UNCHANGED <<preview, observed, item, inputs, target, events, stores, records>>

\* restore_items verifies the whole backup first ...
VerifyBackup(t) ==
    /\ At(t, "verify")
    /\ \/ t \notin cancelled /\ Verifies(preview[t].backup) /\ Goto(t, "read")
       \/ Fails(t)
    /\ UNCHANGED <<preview, observed, item, inputs, target, events, stores, records>>

\* Mutant of ReadItem: the second read is not compared with the manifest.
ReadItemUnchecked(t) ==
    /\ At(t, "read") /\ t \notin cancelled
    /\ item' \in {[item EXCEPT ![t] = f] : f \in IF Verifies(preview[t].backup)
                                                  THEN {ItemOf[preview[t].backup]} ELSE FileStates}
    /\ Goto(t, "observe")
    /\ UNCHANGED <<preview, observed, inputs, target, events, stores, records>>

\* ... and then reads each item again and compares its hash.
ReadItem(t) ==
    /\ At(t, "read")
    /\ \/ /\ t \notin cancelled /\ store[preview[t].backup] = "whole"
          /\ item' = [item EXCEPT ![t] = ItemOf[preview[t].backup]]
          /\ Goto(t, "observe")
       \/ UNCHANGED item /\ Fails(t)
    /\ UNCHANGED <<preview, observed, inputs, target, events, stores, records>>

\* Mutant of ObserveAgain: the observation from before the read is trusted.
TrustFirstLook(t) ==
    /\ At(t, "observe") /\ t \notin cancelled /\ Goto(t, "replace")
    /\ UNCHANGED <<preview, observed, item, inputs, target, events, stores, records>>

\* The last look: cancellation, target, and the item is the approved one.
ObserveAgain(t) ==
    /\ At(t, "observe")
    /\ \/ t \notin cancelled /\ Observation = observed[t] /\ Goto(t, "replace")
       \/ Fails(t)
    /\ UNCHANGED <<preview, observed, item, inputs, target, events, stores, records>>

Overtaken(others) == raced \union {u \in others : pc[u] = "replace"}

\* _atomic_write, or unlink; both end with an fsync of the directory that can
\* fail when the target has already changed.
Put(t) == /\ file' = item[t]
          /\ wrote' = [wrote EXCEPT ![t] = item[t]]
          /\ raced' = Overtaken(Tasks \ {t})
Replace(t) ==
    /\ At(t, "replace")
    /\ \/ Put(t) /\ (Goto(t, "audit_committed") \/ Fails(t))
       \/ UNCHANGED target /\ Fails(t)
    /\ UNCHANGED <<preview, observed, item, inputs, events, stores, records>>

AuditCommitted(t) ==
    /\ At(t, "audit_committed")
    /\ \/ Appends(t, "committed") /\ Goto(t, "persist_committed")
       \/ AppendRaises(t, "committed") /\ Goto(t, "persist_unknown")
    /\ UNCHANGED <<preview, observed, item, inputs, target, events, stores, attempts, results>>

\* save_evidence, or RestoreExecutionPersistenceError with or without the
\* record on the disk; the task shows the evidence in each case.
Persist(t, state) ==
    /\ \/ ~LoadEvidence(t) /\ results' = [results EXCEPT ![t] = state]
       \/ UNCHANGED results
    /\ Show(t, state)
    /\ UNCHANGED <<preview, observed, item, inputs, target, events, stores, attempts, audited>>
PersistCommitted(t) == At(t, "persist_committed") /\ Persist(t, "committed")
PersistFailed(t)    == At(t, "persist_failed") /\ Persist(t, "failed")
PersistUnknown(t)   == At(t, "persist_unknown") /\ Persist(t, "unknown")

----------------------------------------------------------------------------
(* Everything else.                                                        *)

Happens == events < MaxEvents /\ events' = events + 1

Cancel(t) == /\ Happens /\ pc[t] \notin Ended /\ t \notin cancelled
             /\ cancelled' = cancelled \union {t}
             /\ UNCHANGED <<pc, dialog, expired, target, stores, records>>

Expire(t) == /\ Happens /\ pc[t] \notin Ended \union {"preview"} /\ t \notin expired
             /\ expired' = expired \union {t}
             /\ UNCHANGED <<pc, dialog, cancelled, target, stores, records>>

\* A process that dies; in _atomic_write of a record it can leave the
\* temporary file in the store, where nothing removes it.
RecordSteps == {"attempt", "persist_committed", "persist_failed", "persist_unknown"}
Crash(t) == /\ pc[t] \in WorkSteps
            /\ pc' = [pc EXCEPT ![t] = "crashed"]
            /\ \/ UNCHANGED strays
               \/ pc[t] \in RecordSteps /\ strays' = strays \union {"restores"}
            /\ UNCHANGED <<dialog, inputs, target, events, store, protected, records>>

\* An apply that dies in the same way leaves one among the journals.
ApplyCrashes == /\ Happens /\ strays' = strays \union {"journals"}
                /\ UNCHANGED <<pc, dialog, inputs, target, store, protected, records>>

EditTarget == /\ Happens
              /\ file' \in FileStates \ {file} /\ raced' = Overtaken(Tasks)
              /\ UNCHANGED <<pc, dialog, inputs, wrote, stores, records>>

\* A removal that stops half way leaves a directory without a manifest.
SpoilBackup(b) == /\ Happens
                  /\ \/ store[b] = "whole" /\ store' = [store EXCEPT ![b] = "damaged"]
                     \/ store[b] # "gone" /\ store' = [store EXCEPT ![b] = "gone"]
                     \/ Decodes(b) /\ store' = [store EXCEPT ![b] = "unreadable"]
                  /\ UNCHANGED <<pc, dialog, inputs, target, protected, strays, records>>

SetProtected(b) == /\ Happens /\ Decodes(b)
                   /\ protected' = IF b \in protected THEN protected \ {b} ELSE protected \union {b}
                   /\ UNCHANGED <<pc, dialog, inputs, target, store, strays, records>>

Execute(t) == \/ SaveAttempt(t) \/ AuditStarted(t) \/ CheckBinding(t) \/ VerifyBackup(t)
              \/ ReadItem(t) \/ ObserveAgain(t) \/ Replace(t) \/ AuditCommitted(t)
              \/ PersistCommitted(t) \/ PersistFailed(t) \/ PersistUnknown(t)
Work(t) == Prepare(t) \/ Execute(t)

Next == \/ \E t \in Tasks : Preview(t) \/ Approve(t) \/ Work(t) \/ Cancel(t) \/ Expire(t) \/ Crash(t)
        \/ EditTarget \/ ApplyCrashes
        \/ \E b \in Backups : SpoilBackup(b) \/ SetProtected(b)

Spec == Init /\ [][Next]_vars
\* Every call of a worker thread returns.
FairSpec == Spec /\ \A t \in Tasks : WF_vars(Work(t))

----------------------------------------------------------------------------
TypeOK ==
    /\ pc \in [Tasks -> Steps]
    /\ preview \in [Tasks -> {NoPreview} \union
                       [backup : Backups, item : FileStates, protected : BOOLEAN]]
    /\ observed \in [Tasks -> FileStates] /\ item \in [Tasks -> FileStates]
    /\ shown \in [Tasks -> EvidenceStates \union {"none", "raised"}]
    /\ cancelled \subseteq Tasks /\ expired \subseteq Tasks
    /\ file \in FileStates /\ wrote \in [Tasks -> FileStates \union {NotYet}]
    /\ raced \subseteq Tasks /\ events \in 0..MaxEvents
    /\ store \in [Backups -> StoreStates] /\ protected \subseteq Backups
    /\ strays \subseteq RecordStores
    /\ attempts \subseteq Tasks /\ results \in [Tasks -> EvidenceStates \union {"none"}]
    /\ audited \in [Tasks -> SUBSET {"started", "committed"}]

\* The records of a restore agree with what it did, whichever call failed and
\* wherever its process died: nothing is written before the attempt and its
\* audit event are on the disk, a result or an answer "committed" belongs to a
\* restore that wrote and logged it, and a restore that wrote and is not
\* recorded as committed is never passed over: either the user is told that the
\* inventory cannot be read, or it lists the backup, marked for attention, the
\* backup itself gone or not (LocalRestoreCoordinator.execute, list_for_host).
EvidenceIsTrue ==
    \A t \in Tasks :
        /\ wrote[t] # NotYet => t \in attempts /\ "started" \in audited[t]
        /\ "committed" \in {results[t], shown[t]} => wrote[t] # NotYet /\ "committed" \in audited[t]
        /\ (wrote[t] # NotYet /\ pc[t] \in Ended /\ results[t] # "committed") =>
              \/ Inventory.raised
              \/ \E i \in Inventory.items : i.backup = preview[t].backup /\ i.requires_attention

puts == [t \in Tasks |-> IF wrote[t] = NotYet THEN 0 ELSE 1]
Contract == INSTANCE RestoreContract WITH Requests <- Tasks, used <- attempts, verdict <- results

\* An authorization is used up on the disk before its restore writes, it
\* writes at most once, and its one result is recorded after that, whatever
\* call fails or crashes (save_attempt, save_evidence).
ImplementsContract == Contract!Spec

\* What a restore puts at the target is what the reviewed preview showed, also
\* when the backup is damaged or removed between its verification and the
\* second read, and the backup had been approved (restore_items,
\* SingleTargetLocalRestoreExecutor._binding).
ReviewedContent ==
    \A t \in Tasks : wrote[t] # NotYet => preview[t] # NoPreview /\ wrote[t] = preview[t].item

\* A restore replaces only what its authorization observed, unless the target
\* was changed after its last look at it: of another program or of another
\* restore nothing older is lost (execute looks a second time after the
\* content was read).
NoBlindOverwrite ==
    [][\A t \in Tasks : wrote'[t] # wrote[t] => file = observed[t] \/ t \in raced]_vars

\* A restore that was approved ends, with a result for the user or an error.
Termination == \A t \in Tasks : pc[t] \in WorkSteps \union {"prepare"} ~> pc[t] \in Ended
=============================================================================
