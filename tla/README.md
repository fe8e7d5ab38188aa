# Verification of LLM-Manager

LLM-Manager is a desktop program (PySide6) that diagnoses a Linux host running
Ollama and OpenCode, recommends settings, and changes configuration files under a
protocol: review, approval, backup, apply, validation, commit or rollback. The host
is the machine itself or one reached by SSH; the file belongs to the user, or to
root, in which case a helper started through PolicyKit writes it. What an apply
backed up can later be restored by hand, deleted or pruned.

This directory holds TLA+ models of that protocol, of the window that drives it and
of what happens to the backups afterwards; the TLC configurations that check them;
and TLAPS proofs about eight of them. Paths below are under `src/src/llm_manager/`
(the directory of a layer is left out where the name is enough); `docs/` is the
repository's own.

    tlc -workers 2 -config SafeApply.cfg MCSafeApply     # one run
    tlapm SafeApplyProofs.tla                            # one proof

## 1. The system and its parts

| part | state it keeps | operations | talks to |
|---|---|---|---|
| plan workflow (`domain/workflow.py`) | status of a plan | `transition_to` along `_ALLOWED` | every coordinator |
| local user apply (`safe_apply.py`) | none but locals; the files it changes | `execute`, `_rollback` | backup store, journal, audit log, validators |
| backup store (`backup.py`) | one directory per backup: items, then manifest | `create`, `verify`, `restore`, `restore_items`, `delete`, `prune`, `set_protected` | apply, restore, retention, deletion |
| operation journal (`journal.py`) | one file per operation with a status | `create`, `update`, `bind_rollback`, `load`, `reconcile` | apply routes, inventory |
| audit log (`audit.py`) | numbered event files in a hash chain, and HEAD | `append`, `read_all` | every coordinator, from every process |
| root apply (`privileged_apply.py`) | as local user apply | `execute`, `_rollback` | the helper, through `policykit.py` and `process.py` |
| root helper (`helper_*.py`, `root_apply_capture.py`, `root_target_lock.py`) | receipts, root's copies, lock on the drop-in directory | claim, lock, verify, capture, replace, reload, restart, report | the drop-in file, systemd, the Ollama service |
| SSH user apply (`ssh_user_apply*.py`, `remote_user_*.py`, `ssh_backup.py`) | staging and result files on the remote host, journal, attempt and receipt at home | prepare, copy twice, apply, read result, roll back | remote helpers over connections that break |
| remote helper (`remote_helper*.py`, `remote_backup.py`, `remote_journal.py`) | staging directories, root's recovery copies | one command per process: recover, apply, roll back, delete, retain, reconcile | files of the remote user and of root |
| manual restore (`local_restore.py`, `restore_*.py`) | attempt and evidence of each authorization | preview, approve, restore | backup store, audit log, inventory |
| root restore (`root_restore_*.py`, `local_root_restore_*.py`) | review, attempt and result under a store lock; an audit chain of its own | setup, list, preview, approve, execute, status | target lock, service, three dialogs |
| deletion (`backup_deletion.py`, `remote_deletion.py`, `openssh_remote_deletion.py`) | manifest evidence, attempt, result; two copies on two hosts | delete, retry, clean up, reconcile | both stores |
| retention (`backup_inventory.py`, `remote_retention.py`, `backup_evidence_retention*.py`) | attempts, results, executions | prune here, prune there, prune the evidence | both stores, the evidence |
| window (`ui/qt_window.py`, `ui/workflow.py`, `ui/qt_worker.py`) | page state, plan, approval, outcome, workers of each host | one slot per click, timer and worker event | worker threads, which run everything above |
| task factories (`ui/composition.py`) | none | decide the route, open and close SSH sessions | window, coordinators |
| planning (`planning/`, `optimization/`, `application/`) | none | report to recommendations to selection to change set to approval | window |
| diagnosis (`diagnostics/`, `adapters/`) | none | probes, report, validation after an apply | hosts |

What is hard in it:

* an apply is a sequence of some twenty calls, any of which may raise, and one that
  raises may have done its work first: `_atomic_write` replaces the file and then
  fsyncs the directory;
* a user can cancel, close the window or kill the program at any point; other
  programs edit the same files; a stored item can go bad;
* four records describe one operation (the files, the manifest, the journal, the
  audit log) and are written one after the other;
* a root helper cannot be killed by the program that started it, and a remote helper
  is not told that its connection is gone: both outlive a timeout, a cancel and the
  program itself;
* over SSH every call can be lost before, during or after its effect, and a request
  carries a deadline that the clock of another machine decides;
* a backup exists twice, on two hosts without a common lock, and five kinds of
  operation remove parts of it;
* the window is driven by clicks, three timers and the late events of several
  workers, in any order, and several slots change only part of the state.

What makes each part correct: a file changed by an apply can always be led back
(backup and journal first); what the user is told is true of the files, and stays
true; no route writes after it has reported an end, except after asking for a
person; nothing is sent or used twice; nothing is overwritten that was not shown to
the person who approved; the last copy of a backup is not lost by tidying up, and
the evidence of an unclear removal outlives it; the log loses nothing; what was
recommended is what is edited; work that was started ends, and the window closes.

## 2. Modules

### 2.1 Abstract specifications

* `PlanWorkflow`: the table `_ALLOWED` and `TransitionTo`. `SafeApply` implements it,
  so no path of `execute` raises `InvalidTransition`.
* `ApplyContract`: what every apply route promises. Two variables, the phase of an
  operation and who gave each target its content. An operation closes untouched,
  committed or restored only when that is so of every target no other program
  wrote, or asks for attention; it writes nothing afterwards. `MayOutlive` is TRUE
  for a route whose helper can still write after it asked for attention (never
  after another ending). `SafeApply`, `PrivilegedApply` and `SshUserApply`
  implement it.
* `RestoreContract`: what both manual restores promise of an authorization. It is
  used up before anything is written, it writes at most once, and the one result
  recorded for it comes after the write and says "committed" only if there was one.
  `LocalRestore` and `RootRestore` implement it.

### 2.2 The apply routes

`SafeApply`, the local user route: `SafeApplyCoordinator.execute` and `_rollback`
with `AtomicFileExecutor`, `FileValidator`, and `create`, `verify`, `restore` of the
store, `create`, `update` of the journal and `append` of the log. `pc` is the call
that comes next and `i` the target a looping call has reached: one action per call,
one per target of a loop. A file is its content: `Before` is what the plan was made
from, `After` what was rendered. `MayFail` lets each storage call raise with or
without its effect. `Raise` is the `except` clause, which goes to `report_failure`
or to the rollback by the status of the machine. The environment cancels, edits a
target, damages one stored item, or kills the process. Ghosts: `writer` (who wrote a
target last) and `stale` (targets found changed).

`PrivilegedApply`, the root route: the coordinator of the application and two helper
processes (apply, rollback), each with the steps of `run_helper`,
`DeclaredHelperExecutor` and the backend: the password dialog, the claim of the
receipt, the lock that does not wait, the check of the before-hash, root's capture,
the second check, the replacement, daemon-reload, restart, the report. A helper goes
on when the coordinator has given it up (`GivesUp`: only pkexec, while it still asks
for the password, can be killed). The approval and the requests made under it
expire. An administrator edits the file or reloads systemd, without the lock.
`loaded` and `running` are what systemd and the service have. `LateReplace` lets the
replacement fail after `os.replace`.

`SshUserApply`, the SSH route: the task of the factory, the coordinator, the two
preparations, the two copies of the backup and three transports (recovery copy,
apply, rollback), each of which prepares, uploads the payload, uploads the request,
invokes, waits and reads the result. A lost call leaves open what it did: an upload
may be torn, a helper may never start, may die, or may run on for as long as it
likes; one that waits for a sudo password can even start after its caller gave up.
`Reread` is the second look of `execute` and `_rollback` with a fresh token. Requests
expire at any time, the desktop program can be killed, others write the target. A
document is a record of the fields that are checked; one that is truncated, not
canonical or of a wrong hash is `Torn`.

`AuditLog`: `append` as its four file steps (read the events, read HEAD, write the
event, write HEAD) for a set of writers, with failing writes and dying processes.
The apply models take from it that an append appends, raises, or raises after the
event was written, after which the log refuses (`auditOk`).

### 2.3 Manual restore

`LocalRestore`: preview, approval, preflight, attempt, restore of one item, evidence,
audit and what the inventory then shows, for several tasks that are started by
several processes and restore one file from several backups (one of them may be of an
absent file). Others write the target; a backup is protected, damaged, made
unreadable or removed; approvals expire; a process dies at any call. The inventory
reads backups, journals and restore records strictly: one backup that cannot be read,
or one temporary file that a death in `_atomic_write` left in a store (`strays`), and
the user gets an error instead of a list (`InventoryRaises`).

`RootRestore`: setup, the capture of originals by root applies, the review helper,
the execution helper, their store with its lock and its audit chain, the lock of the
target directory, the service, and the three dialogs with the client that waits. A
helper that dies releases its locks; a client can give up while the helper works on.
A record is published by link and unlink, and a failure between the two leaves it
"torn". Which preconditions hold (key, policy, helper) is part of the preflight.

### 2.4 The removal of backups

`BackupCopies` has what removal sees of the two stores: a copy is whole, damaged,
stripped (no item directory any more), a husk (no manifest or receipt any more) or
gone, because every removal unlinks file after file. `DualDeletion` extends it with
the deletion of both copies on the user's request: evidence, attempt, remote helper
(which outlives the connection), local removal, result, staging cleanup, retry.
`EvidenceRetention` extends that with the later reconciliations and the removal of a
deletion's chain of evidence, link by link, with the cleanup that resumes an
execution that stopped half way. `BackupRetention` extends `BackupCopies` with the
two prunes, each of which lists, removes one directory after the other and lists
again. A list that the code keeps newest first is the set of its backups, their order
that of `CreatedAt`; `Oldest` is the next one a prune takes. `BackupRemoval` composes all of them with the inventory that offers the user
what may be done; nothing in the program locks the stores, so everything interleaves.

### 2.5 The window

`GuiWorkflow`: `GuiPresenter`, the slots of `MainWindow` and the worker coordinator.
Each slot is an action; a worker runs on its own, ends, and posts two events, the
result and "finished", whose slots run at any later time. A slot that raises (a late
`finish_apply` while nothing is busy) stops where the code stops, and does not render.
Whether Run is enabled is therefore a variable, `runButton`, which only a rendering
sets (`Render`, which repeats the condition of `_render_results`); `RunApply` asks for
the button, not for an outcome, as `_run_apply` does. Every other widget is taken to be
what a rendering would show now, because where the two differ its slot returns or
raises before it has changed anything; `PrepareApply` of an expired plan is one
(section 6). `ChangeLanguage` is a rendering that the user can cause at any time.
History: `settled` are the change sets whose apply reported a status to the window,
`told` those whose status the presenter took, which is when the page shows it. Change sets are
numbers, given when a planning task ends; a superseded plan id is a selection that
fits no plan. Hosts are two in the runs: the local one and a remote one. What a task
does inside is reduced to the results it can end with.

### 2.6 The parts without state

Each function of these parts is an operator from its arguments, and from what it
observes, to its result or its refusal (`Done`, `Refused`), with the guards in the
order of the code. Which of several refusals is reported is kept only where a caller
tells them apart.

* `HostProbes`, `Diagnosis`: candidates for the host list with their includes, the
  identity of an SSH host, both host adapters, the remote user's home, the
  readiness of the installed helper; the probes of system, GPUs, Ollama and
  OpenCode; the report; the validation after an apply.
* `ChangePlanning`, `DropInPlanning`, `JsoncEdit`: the rules of the catalog, the
  resolution of conflicts, the selection, both planners, the edit of a drop-in line
  by line, and the two parsers of a configuration (the lenient one of the
  diagnosis and the one of the planner that keeps the place of every scalar).
* `ApplyRouting`: approval records, the availability that is shown, the factories
  that compose a route and the SSH sessions they open.
* `HelperRequests`: the requests for the root helper, their staging, and one run of
  the helper over them. `RemoteHelperCommands`: each command of the remote helper on
  its staging directory. `RemoteReconciliation`: the reconciliation of an
  interrupted remote operation from four records.

`MCPlanning`, `MCDiagnosis` and `MCRecovery` evaluate these operators over all
inputs of a bounded size and compare them with what they promise, as named ASSUMEs
that TLC evaluates before a run: the first two with `ssh_apply`, the third with
`privileged` and `privileged_late_write`. The other `MC*` modules name what a
configuration instantiates, with its symmetry and state constraint.

### 2.7 Proof modules

`SafeApplyProofs`, `PrivilegedApplyProofs`, `SshUserApplyProofs`, `LocalRestoreProofs`,
`RootRestoreProofs`, `BackupRemovalProofs`, `GuiWorkflowProofs`, `PlanAndAuditProofs`
(planning, the root helper and the audit log): section 5.

## 3. Runs

| run | instance | distinct states | shows |
|---|---|---|---|
| `safe_apply` | 2 targets, 2 edits by others, 1 damaged item | 125 thousand | the local user route, both abstract specifications, its end |
| `privileged` | 1 file, 2 helpers, 2 edits or reloads | 464 thousand | the root route, its contract, its end; the claims of `MCRecovery` |
| `ssh_apply` | 1 file, 3 helpers, 2 edits | 48 thousand | the SSH route, its contract, its end; the claims of `MCPlanning` and `MCDiagnosis` |
| `audit_one` | 1 writer, 7 events | 8 thousand | chain and HEAD stay within one event, nothing is replaced |
| `local_restore` | 2 tasks, 2 backups (one of an absent file), 2 contents, 1 event of the world | 835 thousand | what a manual restore records, writes and overwrites, and what the inventory says of it |
| `root_restore` | 2 applies, 1 request executed twice, 2 contents, 1 event of the world | 933 thousand | the same of the root restore, and what its dialogs say |
| `backup_removal` | 2 backups, 2 deletions of one of them, 2 local prunes and 1 remote, 2 executions of evidence retention, 2 faults | 3.2 million | original last, true results, evidence, one copy left |
| `gui` | 2 hosts, 2 change sets, 3 workers | 1.3 million | approvals, Run and restores are bound to what was shown; busy ends, close ends |

Four runs find a difference between the code and what the repository says of it:

| run | property | the difference |
|---|---|---|
| `privileged_late_write` | `RolledBackIsRestored` | the helper's first operation failed after its `os.replace`: the user is told ROLLED_BACK, the change stays (`docs/safe-apply.md:128`) |
| `audit_two` | `VerifiedIsComplete` | two processes append at once: one event replaces the other and the log verifies (`audit.py:35`) |
| `removal_unreadable` | `EvidenceReadable` | an evidence retention that fails before its first removal is saved, its candidate stays one, and after the next the executions of the host cannot be listed any more (`backup_evidence_retention.py:160`, `:236`) |
| `gui_applied_twice` | `AppliedOnce` | an apply reports after its plan expired, the slot raises without a rendering, and the button Run of an earlier one starts the same change set again (`qt_window.py:648`; `docs/safe-apply.md:181`) |

### Bounds, and why they are enough

Two targets are the least number for which a loop can stop in its middle and a
rollback can do one and not the other; the proofs of `SafeApply` hold for any number.
Two edits let a foreign write come before and after each write of a route. One
damaged item is enough to separate "restored" from "reported restored". The root and
the SSH route have one target because their code has one, and as many helpers as the
coordinator can start.

Two manual restores of one file from two backups are the least in which the one
overwrites what the other wrote, may hold a stale observation of it, or may use the
approval of the other; one event of the world per behaviour (an edit, a damage, a
cancel, an expiry, a change of protection, an apply that dies) is combined with any
failing call and the death of either task. In
`root_restore` two applies give a second original and a write between review and
execution; the request is executed a second time by hand, which is how two executions
meet. The applies are interchangeable, so only the behaviours in which `a1` comes
first are explored (`InOrder`).

In `backup_removal` both backups are past their date, one is the older; both deletions
are of the older one, which the prunes would take first; the deletions are
interchangeable, and so are the local prunes (`SYMMETRY Alike`). `KeepGenerations` is 10, so that only age prunes.
`Bounded` explores one operation of the program at a time (with helpers that go on
beside it), and two deletions, two local prunes, or one of each, that run at once until
the first fault; the faults are at most two of: an edit of the protection, a cancel, a
death, a storage failure, a lost connection. None of this bounds the theorems of
section 5, which let any number of operations meet any number of faults.

Three workers are the least that can break each property of the window: a review and
its apply, a second review beside the first, or a list, a preview and a restore; two
hosts and two change sets let a late event of the one meet the other. They do not reach
everything: the double apply takes seven workers and the late review of section 6 six.
But the safety properties do not depend on the bounds: section 5 proves them for any.
`gui_applied_twice` has the seven workers and looks only at reviews and applies that
are not cancelled and whose diagnosis and planning succeed (`OnlyReviews`): 40 steps.
Seven events exceed what the log's behaviour
depends on (empty, one, several, HEAD behind). The claims over the
parts without state range over every input of the sizes their definitions name.

`CHECK_DEADLOCK FALSE` is set everywhere: an operation ends, the window closes, a log
whose HEAD does not match refuses every append.

### Fairness

`SafeApply` and `PrivilegedApply` assume weak fairness of the coordinator only: it is
a worker thread that runs to its end, and every command it waits for has a timeout
(`SubprocessRunner`, `_read_bounded`). `SshUserApply` assumes it of the coordinator
and its transports, for the same reason: `Wait` may give up at any time. Nothing is
assumed of any helper, which may hang, nor of the environment. `LocalRestore` assumes
it of each task, `RootRestore` of the helper that executes and of the client that
waits for it. `GuiWorkflow` assumes weak fairness of the workers (tasks have
timeouts; Qt delivers what is posted) and of the close that the window schedules for
itself; nothing of the user or of the timers. `AuditLog` and the removal modules
state none and are checked for safety only.

## 4. Properties

### 4.1 Local user route
* `Recoverable`: a write of the route is never on the disk without the complete
  backup and the journal, also after a crash in the middle.
* `RolledBackIsRestored`: what ROLLED_BACK says is true of every target that no other
  program wrote last. (`CommittedIsApplied` and `UnstartedIsUntouched` say the same of
  the other endings; they are theorems, and part of `ImplementsContract`.)
* `AuditAgrees`: the newest event is the one of the outcome, though
  `apply.committed` is logged before the journal says so and may be followed by a
  rollback. Of the journal it says nothing: that one may disagree (section 6).
* `ImplementsContract`, `ImplementsWorkflow`: the two abstract specifications.
* `Termination`: `execute` ends whatever fails.

### 4.2 Root route
The same questions of the file, of systemd and of the service (`OutcomeIsTrue`), and
`Recoverable` also of a helper that nobody waits for any longer: root's own copy
exists before its write, and the journal names the rollback before that writes.
`RolledBackIsRestored` is the deep one: a helper that was given up may be anywhere
when the second one starts, and only the lock and the before-hashes keep it from
putting the change back after the user was told. It needs `EditsAssumption` (no other
program writes the very content that was approved).

### 4.3 SSH route
* `BothCopiesFirst`: the apply helper is started only when both copies of the backup
  exist and hold what the plan was made from, though the local side sees of the
  remote copy only a receipt, which may come late or from a second look.
* `RollbackOnProof`: the rollback helper is started only against the published result
  of an apply whose helper is gone, so the two never write at once.
* `SentOnce`: neither helper is started twice, whatever calls are lost.
* `NothingForgotten`: while the target holds what the apply wrote, also when its
  helper wrote late, the journal does not say that nothing happened or that it was
  rolled back.
* `ImplementsContract` with `MayOutlive`, `Termination`.

### 4.4 Audit log
`HeadLagsByOne`, `AppendOnly` for one process; `VerifiedIsComplete` for two fails.

### 4.5 Manual restores
* `EvidenceIsTrue` (local): nothing is written before the attempt and its event are
  on the disk; "committed" belongs to a restore that wrote and logged it; one that
  wrote and is not recorded as committed is not passed over: the inventory marks its
  backup, or cannot be read, which the user is told.
* `ReviewedContent` (local): what arrives at the target is what the preview showed,
  also when the backup changes between its verification and the second read.
* `NoBlindOverwrite`: a restore replaces only what its authorization observed, unless
  the target was changed after the last look.
* `ToldTruth` (root): what the dialogs and the status say is true of the target,
  however late the answer comes.
* `ImplementsContract` (`RestoreContract`) and `Termination` of both.

### 4.6 Removal of backups
* `OriginalGoesLast`: a deletion takes the local backup apart only when nothing
  restorable is left on the remote host.
* `ResultsAreTrue`: what a saved result claims is so and stays so.
* `EvidenceOutlivesDoubt`: while a deletion is in doubt its manifest can be looked up.
* `SentOnce`: a removal is asked for once per backup and once per prune.
* `PrunesKeepOne`: prunes alone never take the last backup of a store, however many of
  them run at once, fail or die, as long as no protection of that store changes. (With
  a change between the decisions of two prunes they may: section 6.)

### 4.7 Window
* `HostExclusive`: never two workers at one host.
* `ApprovalMatchesPlan`: the approval shown is of the change set on the page, and
  what Run would apply is that one, for the selected host and its report.
* `TakenIsOff`: once the page has taken the outcome of an apply, no slot shows Run
  enabled again for that approval, whatever runs late, raises or renders. It is all
  that keeps the change set from being applied again, as the slot of Run asks for no
  outcome. `AppliedOnce`, the same of an apply that reported but was not taken, is what
  `gui_applied_twice` violates.
* `RestoreIsForPreview`: a restore runs at the host that was previewed, though a
  late preview can be shown under another host.
* `BusyEnds`, `CloseEnds`: liveness.

### 4.8 Claims about the parts without state
Planning (`MCPlanning`): the catalog never recommends two values for a setting
(`CatalogNeverConflicts`); whatever is actionable can be planned, approved and routed
(`ActionableIsPlanned`), and not after the file was edited
(`EditedSinceDiagnosisIsRefused`); `ConflictsAreNamed`; the drop-in keeps what was not
selected and stays editable (`OtherSettingsStay`, `RenderedIsEditable`);
`SessionsAreClosed`. The planner's parser accepts only what the diagnosis can read
(`PlannerReadsLess`) and edits exactly the setting that was found (`EditsAreExact`),
except where a key contains a dot (`DottedKeyIsEdited`, see section 6).

Diagnosis (`MCDiagnosis`): `AliasesAreReachable` and `LimitCountsRepetitions` for host
files with includes; `ReadyRecordIsTheCheckedOne`, `TargetsAreInOneHome`,
`ApplyNeedsTheDiagnosedKey` for SSH; `CommandsNeverEndADiagnosis` with its exceptions
(`OneFileEndsADiagnosis`); `GpusAreKept`; `AdviceIsAboutTheFile`,
`RemoteFileIsDecodedFirst`, `TimeoutIsNotPlanned` from report to plan;
`ValidatedDropInIsEffective`, `ValidatedConfigIsParsed`, `ShadowedChangePasses` after
the apply.

Helpers (`MCRecovery`): the root helper carries out everything the coordinator
prepares and nothing else (`HelperTakesWhatIsPrepared`, `OnlyTheHashedRequestRuns`,
`OnlyTheHashedContentIsWritten`, `OperationRunsOnce`, `RollbackNamesItsWorkflow`); a
rollback undoes exactly what was written (`RollbackUndoesWhatWasWritten`,
`FailedWriteMayHaveWritten`); the remote commands do their request
(`CommandsDoTheirRequest`, `DamagedStagingIsRefused`, `TargetsAreCounted`,
`CallersAreSeparate`, `RepeatAfterCleanupIsHarmless`); a reconciliation needs records of one
operation and is true (`RecordsBelongTogether`, `ReconciledIsTrue`), except over a
link that is lost (`LostLinkReadsAsUnapplied`). `HostClockDecides`, `ReceiptExpires`
and `InterruptedRemovalSticks` state limits that section 6 names.

## 5. Proofs

`SafeApplyProofs` (for any number of targets, any contents, any number of edits). The
invariant `IInv` adds to the type invariant: how `status` follows `pc` (`StatusInv`);
that backup and journal are there from the first write on (`DurableInv`); what the
last writer of a target left in it (`WriterInv`); how far the loop of apply has come
(`ApplyInv`: targets below `i` are written); how far the loop of restore has come
(`RestoreInv`: targets above `i` are put back as long as `ok`). None of the safety
properties is inductive alone: "committed implies every target changed" needs the
loop invariants, and "rolled back" needs that `ok` has not hidden a target that
failed. From `IInv` follow `TypeOK`, `Recoverable`, `CommittedIsApplied`,
`RolledBackIsRestored` and `UnstartedIsUntouched`, and, step by step, that the route implements `ApplyContract` and `PlanWorkflow`. `AuditAgrees` has an
invariant of its own, `AuditInv`: which event is the newest at each step, kept apart
because nothing else reads the log. The proofs use the
assumptions on the constants that `SafeApply` names, and nothing else.

`PrivilegedApplyProofs` (for any contents, any number of edits and reloads). `IInv`
holds whatever fails: the lock is held exactly between a helper's `flock` and its
results (`LockInv`); results and receipts follow its steps (`StageInv`); the file is
`After` exactly while the apply helper wrote last, and that helper is then past its
write (`FileInv`, by `EditsAssumption`); what recovery needs is there before a helper
is started (`RecordInv`), which gives `Recoverable`. Two parts need that no write fails
after it replaced the file (`LateReplace = FALSE`): who can have written at which steps
of the two helpers (`WroteInv`), and that systemd and the service follow the file
(`ServiceInv`). `WroteInv` has the argument why "rolled back" stays true: the rollback
helper comes past its check only when it finds `After` under the lock, so the apply
helper has written, has let go of the lock and writes no more. From it follow, under
that assumption, `RolledBackIsRestored`, `OutcomeIsTrue` and the refinement of
`ApplyContract`; without it the run `privileged_late_write` violates the first.

`SshUserApplyProofs` (for any contents and any number of edits). All safety properties
of the route and its refinement of `ApplyContract` are theorems. The difficulty is
that the three helpers move on their own, so that nothing a property says is kept by
the coordinator's step alone. `IInv` ties them together: a helper has been started
only when the coordinator is past the step that starts it, wherever it went from
there (`OnceInv`, with `PastRecover`, `PastApply`, `PastRollback`); what a helper works
on is the request the coordinator wrote, and its result is the last thing it leaves
(`StagingInv`), so a result that is read is proof that the helper is gone; a receipt
is there only of a whole copy (`ReceiptInv`); from the render on both copies hold what
the plan was made from (`PreparedInv`); a rollback, a commit and their endings need
the published result of the apply (`ProofInv`), "rolled back" that of the rollback
(`RestoredInv`); and the last writer of the target tells how far its helper is
(`WriterInv`). In the refinement the endings untouched, committed and restored follow
from `OutcomeInv` and these; a write of a helper after an ending is excluded for all
of them but "attention" (`WritersAreAwaited`). A step that changes one file of one
staging directory is first reduced to what it leaves alone (the `...Effect` lemmas).

`LocalRestoreProofs` (for any number of restores, backups and contents of one target).
Restores share nothing but the target, so `IInv` is the type invariant and one
statement about each task (`TaskInv`): which records exist at its step, whether it has
written, that the item it is about to write is the reviewed one, and that the target
is what it observed last unless somebody else wrote since (`raced`). The inventory's
mark in `EvidenceIsTrue` follows from the attempt record alone, wherever there is an
inventory. The safety properties and the refinement of `RestoreContract` are theorems.

`RootRestoreProofs` (for any number of requests, applies and helpers, also of helpers
started again for the same request). `ToldTruth` is about a request, while records are
written by helpers, any of which may be dead or working for nobody. The invariant
therefore says that one helper at most ever used a request up (`OwnerInv`), that the
target lock is held exactly by whoever is inside (`LockInv`), what is on record of the
request at each step of its helper (`HelperInv`), and what the dialog may show then
(`RequestInv`). A helper that found the attempt taken exits without a verdict, so a
verdict is proof of ownership (`OnlyOwner`), and with it a "committed" in the store is
the write of that helper. Between the second snapshot and the replacement only an
administrator can write, because applies and restores hold the lock there. Each step
that does more than move on is first reduced to what it changes (the `...Effect`
lemmas). `ToldTruth`, `NoBlindOverwrite` and the refinement of `RestoreContract` follow.

`GuiWorkflowProofs` (for any hosts and selections and any number of change sets and
workers). The properties relate the page to a plan that five kinds of late event may
change. `Inv` adds to them what those events carry: a report is of the plan and of the
selected host (`ReportIsOfPlan`); no planning task can still fit a plan that has its
change set (`OnePlanning`); a page that can be approved shows the change set of the
plan (`HashIsOfPlan`), and so does the record (`RecordIsOfPlan`); a change set on its
way is no other's and was never applied (`FruitIsNew`); a change set that was given to
an apply is on no page that can be approved, and when it was reported there is an
outcome (`StartedIsOver`). `OnePlanning` needs `HostExclusive`: two planning tasks that
fit one plan would be of one host. For `TakenIsOff` every step either renders, and then
by `RecordIsOfPlan` and `StartedIsOver` the outcome that the rendering finds is that of
the record, or leaves the button alone, and then by `ButtonIsIdle` no apply can have been
taken meanwhile (`ButtonNext`, `HistoryNext`). `ToldIsNeverApplied` follows: what the page
has taken is never applied again, though an outcome it has not taken may be. Most slots
keep the plan, the approval and every result (`QuietSlots`) and are one case of each
lemma. That a review that can be approved
is for the selected host is no theorem: section 6 has the trace.

`BackupRemovalProofs` (for any backups, any number of deletions, prunes, helpers and
cleanups at once, any faults). What every proof of it needs first is that a removal only
goes on: no step of anybody brings back a part of a backup (`StepGoes`, and as an action
property `RemovalGoesOn`), so that what one operation has seen gone stays gone under
all others. On it rest:
* `DeletionInv`: no property about a deletion is inductive, because its result is
  computed from notes that were taken at different times. The invariant follows every
  note from where it is taken: an answer on the remote host or about to be given
  (`AnswersInv`), the outcomes and observations of a deletion (`Noted`), when each of
  them may be there (`Ordered`), the saved result (`Reported`). It gives
  `OriginalGoesLast`, also for an answer that was given to another deletion of the same
  backup, and the first half of `ResultsAreTrue`; `ReportsInv` gives the other.
* `EvidenceInv`: whatever an execution or a cleanup still has to remove is of a settled
  deletion and a rest of the chain, in its order (`Evidenced`). A cleanup takes its list
  from an execution saved by somebody else, so the saved executions are part of it.
  `EvidenceOutlivesDoubt` follows together with `DeletionInv`.
* `RequestsInv`, `CallsInv`: the attempt on the disk is the right to invoke, held by one
  deletion or prune at most and used up before it can be asked for again: `SentOnce`.
* `PruneInv`: runs decide from lists that others change under them, so the invariant
  says what no list can change. Either some backup is outdated in no list at all
  (`Lasting`), and none is queued; or all are outdated, and then the local store loses
  its originals from the oldest on, the remote one its copies from the oldest but one
  on, and each run that has decided queued everything that is left but the one to keep
  (`LocalDecided`, `RemoteDecided`). So runs that never heard of each other agree which
  one that is, and `PrunesKeepOne` follows. `Backups # {}` is its hypothesis: an empty
  store has nothing to keep.

`PlanAndAuditProofs`, the audit log (one writer, any bound, any failure).
`HeadLagsByOne` is not inductive: what makes it so is what each step of `append` knows
(`Knows`): that the chain it has read is still the one on the disk. With two writers
exactly this fails, which is what `audit_two` shows. `AppendOnly` follows from the same
invariant.

`PlanAndAuditProofs`, planning (for any set of recommendations, any report and any
file): conflict resolution leaves at most one actionable recommendation per setting; a
plan that either service returns is bound to its report and host and has changes of its
own privilege only; such a plan has exactly one route; an approval is valid for the
change set that was reviewed and no other.

`PlanAndAuditProofs`, the root helper (for any request, receipts and time): what
`RunHelper` accepts is the request that was hashed, in its life, under its own id, of
the known forms, and, when it replaces the drop-in, in the order of the coordinator
(`HelperRunsHashedRequest`); an id that was taken up stays taken up
(`OperationNeverRunsTwice`). From the other side, for any change, what the coordinator
prepares is valid exactly until its five minutes, the plan or the approval end
(`PreparedIsValidInItsTime`), and so never lives longer than the helper allows. That the
helper then carries out everything is a fold over the operations and stays with
`MCRecovery`.

Every invariant and action property of the passing runs is a theorem (three of the root
route's under `LateReplace = FALSE`, as in the runs). Only model-checked are the liveness properties (`Termination`, `BusyEnds`, `CloseEnds`) and
the claims of section 4.8; the four violated properties have their runs. Out of the
prover's reach are liveness under fairness, ENABLED, and what a recursive definition
computes for every input, which is why nothing is proved of the includes of
`HostProbes` and the parsers of `JsoncEdit`: these two declare RECURSIVE operators, and
no module with a theorem reaches them. The induction that `PruneInv` needs, over the
number of backups, goes through the library's theorem that `<` is well founded on the
naturals (`LeastNatural`, `Greatest`). The type invariants of `GuiWorkflow` and
`AuditLog` are no property of a run; the first is a theorem.

## 6. What the code does that no property states

Differences that the models show and that no run is spent on, each at its line.

Apply:
* `safe_apply.py:218`: an edit that apply has detected as stale is overwritten by the
  rollback that follows (`docs/safe-apply.md:182` says it must not be). The ghost
  `stale` of `SafeApply` records it.
* `safe_apply.py:227`: the rollback is handed the cancelled token, so that a cancel
  alone ends in RECOVERY_REQUIRED (`docs/gui.md:69`).
* `safe_apply.py:209`, `privileged_apply.py:254`, and the SSH coordinator: an update
  to COMMITTED may replace the journal and then raise. The run is rolled back or ends
  RECOVERY_REQUIRED, the journal stays COMMITTED: its table has no way back.
* `local_apply_inventory.py:65`: a journal that a killed program left APPLYING is not
  flagged at the next start (`docs/gui.md:71`).
* `backup.py:242`: `restore` reads each item again without comparing its hash and
  never reads the target back. `RolledBackIsRestored` therefore excepts a damaged item.
* `privileged_apply.py:263`: a failure between the backup and the journal ends
  RECOVERY_REQUIRED though no file was touched (`docs/safe-apply.md:126`).
* `privileged_apply.py:273`: the rollback is refused when the approval has expired
  meanwhile, and the change stays with RECOVERY_REQUIRED.
* No rule of the catalog targets `ollama.systemd` (`CatalogNeverConflicts`): the root
  plan is reachable only with another catalog. Numeric Ollama settings are refused
  where no bounds are configured.

SSH route and remote helper:
* The executor compares the target's content and then replaces it: an edit between
  the two is overwritten. `ReplaceTarget` is a step of its own for that reason.
* A request that expires while its result is read makes the result unreadable: the
  operation asks for recovery although it was applied. A recovery receipt can after
  its expiry be neither read nor cleaned up (`ReceiptExpires`).
* The remote clock decides the windows; one that is behind refuses every request
  (`HostClockDecides`). A retention is valid for one minute, password dialog included.
* A password that is typed after `invoke` gave up still starts the helper
  (`EnterPassword`). A login that succeeds late leaves its control master open.
* `openssh.py:96`: a link that is lost makes a file "absent"
  (`LostLinkReadsAsUnapplied`).
* `remote_helper_cli.py:253`: a removal that is cut off after the directory of the
  items leaves a directory that no later removal accepts (`InterruptedRemovalSticks`).
* The host id in a rollback request is not compared by the root helper.

Manual restores:
* Evidence FAILED is possible although the target was replaced (an error after the
  replacement), and an attempt without a result when the "started" event fails; the
  inventory marks both. A task may show "committed" when its evidence was not saved.
* One invalid backup directory, or one temporary file left by a death in the write of a
  record, makes the inventory of the whole host an error, with the marks of every other
  backup (`backup.py:300`, `restore_execution.py:204`, `journal.py:157`). That is meant
  (`docs/roadmap.md:184`, `:200`), but nothing in the program removes such an entry.
* One approval serves every task that is started with it before it expires: what is
  used up is the authorization, and each task makes one of its own.
* A crash between link and unlink leaves a root record that every later read refuses
  ("torn"). A status query at the moment of the finish makes the finish "busy", and
  the result is never persisted. A crash between the audit event and its HEAD blocks
  every later root restore.
* A failed root restore leaves its staging file, which blocks later root applies and
  restores until an administrator removes it. FAILED for a service that did not come
  up leaves the target changed.
* "review only" may be told of a request whose helper, given up by its client, has yet
  to write.

Removal:
* `openssh_remote_retention.py:63`: once the directory of attempts exists, a missing
  attempt is "unsafe", so a later prune with a new id is refused.
* `remote_retention.py:134`, `backup_inventory.py:165`: the list is pruned oldest
  first and compared newest first, so a prune of two or more is always PARTIAL.
* `backup.py:370`: prune is to remove "while retaining one recovery point", and each
  prune does; two of them may not. Both originals are past their date, so the first
  prune decides to take the older one; the user protects that one; the second prune
  finds only the newer one unprotected and takes it, while the first carries out what
  it had decided. The remote store allows the same. TLC finds it in two local prunes
  and one change of protection when the condition on `changed` is left out of
  `PrunesKeepOne`.
* A remote prune of which every backup is past its date keeps the oldest, a local one
  the newest (`docs/safe-apply.md:164`).
* An answer that is lost after the helper was asked is recorded FAILED where
  `docs/safe-apply.md:174` says unknown, and the cleanup may delete the late answer;
  after that a retry of the deletion cannot succeed.
* A cancel during the reconciliation leaves `delete` with no result saved.
* A remote husk counts as absent. A crash of the evidence retention between manifest
  and result leaves a result that is never a candidate again. A resumed execution
  reports what it removed itself, not what the first one did.

Window:
* `qt_window.py:672`: the plan expires under a running apply and the page unlocks
  (`docs/gui.md:47`). `qt_window.py:517`: a late review of one host is taken under
  another (`docs/gui.md:47`). The stale timer of an earlier review of A fires while a
  repeated one runs; B is selected, diagnosed and reviewed; the late result of A ends
  B's busy state; A is selected again and diagnosed, which makes the page busy; B's
  result comes, fits the plan that a change of host leaves in place, and can be
  approved and prepared under A. TLC finds it with six workers and two change sets.
  Nothing is applied: without a report Run does nothing, and the second conjunct of
  `ApprovalMatchesPlan` starts where there is one. `qt_window.py:654`: an apply that ends with an exception is shown
  as "prepared" (`docs/gui.md:31`). `qt_window.py:609`: approving a plan that has just
  expired raises an `AdapterError` that the slot does not catch; the page stays as it
  was until the timer of the review fires.
* `qt_window.py:398`: a worker that is refused takes its host off the set close waits
  for, though another worker of that host runs (`docs/gui.md:71`).

Planning and diagnosis:
* A key literally named `compaction.auto` and a nested one have one path: the
  diagnosis looks at the one, the planner edits the other (`DottedKeyIsEdited`).
  `{,}` and `[,]` are read by the diagnosis and refused by the planner.
* `services.py:61`: only an `AdapterError` leaves a partial report. An unreadable
  `/etc/os-release`, contradictory memory or GPU numbers and a timeout while a remote
  file is read end the diagnosis (`docs/diagnostics.md:75`).
* A timed-out `ollama --version` counts as installed, a timed-out `opencode --version`
  as not. An `nvidia-smi` without a usable row drops the NVIDIA cards; the cards of
  rocm-smi are ordered by name (card10 before card2).
* The output of ssh is decoded with replacement before it is asked whether the file is
  UTF-8 (`RemoteFileIsDecodedFirst`); the remote executor then refuses the change.
  A remote file above 4 MiB refuses, one between 2 and 4 MiB is a warning.
* The runtime validation passes when another configuration shadows the changed one
  (`ShadowedChangePasses`), and it never looks at an `opencode` setting's value.
* The limit of the includes is tested before it is known whether a file was read
  already (`LimitCountsRepetitions`).

## 7. What is not modelled

Not at all: domain records and their hashes (values, whose equality the models use),
encryption (a wrong key is a failing verification), wording and the start of the
program, the fakes of the tests.

Of parts that are modelled otherwise: the window's dialogs for deletion and retention,
the backup settings, widgets and drawing; the parts of `composition.py` that only
wire objects; the command lines and key files of the SSH transport
(`remote_keys.py`); the login terminal, the secret service and redaction.

Abstracted in what is modelled: the encoding of requests and records (a document that
does not pass its checks is one value), file modes and owners except where a check
decides a branch, symbolic links, the contents of logs, the text of errors, and the
white space and string contents of a configuration (so the regular expression for
trailing commas, which also matches inside a string, is right in the model). The age
of evidence: a result may be old enough at any time. `ReconcileAgain` may use any
earlier result where the code uses the newest. The attempt of a deletion is saved
with a check and a write, which the model takes as one step. A remote read that fails
loses the whole answer, never a part.

## 8. Open work

1. The deletion and retention dialogs in `GuiWorkflow`, when its state space allows.
2. Liveness of the removal: nothing in the program retries by itself, so what must
   happen in the end is up to the user.
