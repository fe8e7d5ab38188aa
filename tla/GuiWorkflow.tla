----------------------------- MODULE GuiWorkflow ----------------------------
(***************************************************************************)
(* The main window between its event loop and its worker threads:          *)
(* GuiPresenter (ui/workflow.py), the slots of MainWindow (ui/qt_window.py)*)
(* and QtWorkerCoordinator with QtTaskRunner (ui/qt_worker.py).            *)
(*                                                                         *)
(* A worker runs on a thread of the pool and ends by posting two events to *)
(* the UI thread: its result (or error, or cancelled), then "finished",    *)
(* whose slots run in the order they were connected.  Clicks, timers and   *)
(* the events of other workers can be handled between any two of them, so  *)
(* each slot is an action.  A slot that raises stops there and changes     *)
(* nothing more, so it does not render either.  A button can be clicked    *)
(* when the last _render enabled it.  Of Run that is a variable: its slot  *)
(* asks for less than _render does.  Of every other widget it is what      *)
(* _render would say now, because where the two differ its slot returns or *)
(* raises without having changed anything.                                 *)
(*                                                                         *)
(* A change set is a number: 0 is none, each planning run makes a new one. *)
(***************************************************************************)
EXTENDS Integers, FiniteSets

CONSTANTS Hosts,       \* hosts offered by the host selector
          Local,       \* the local one; every other is reached by SSH
          Selections,  \* sets of recommendations a user may tick
          ApplyStatus, \* statuses an ApplyOutcome can have
          MaxPlans,    \* bound: change sets generated
          MaxStarts    \* bound: workers started

ASSUME HostsAssumption == Local \in Hosts /\ "none" \notin Hosts
ASSUME SelectionsAssumption == {"none", "superseded"} \intersect Selections = {}
ASSUME ApplyStatusAssumption ==
    ApplyStatus \subseteq {"approved", "committed", "rolled_back", "recovery_required"}
ASSUME GuiBoundsAssumption == MaxPlans \in Nat /\ MaxStarts \in Nat

VARIABLES
    state,         \* GuiPresenter._state, a GuiState
    plan,          \* _recommendation_plan: [host, sel, change], or NoPlan
    planExpired,   \* the clock has passed plan.expires_at
    timer,         \* _stale_timer is running
    approvalRec,   \* the change set _approval_record is bound to
    outcome,       \* status of _apply_outcome, or "none"
    runButton,     \* _run_apply_button is enabled
    activeHost,    \* _active_host_id
    workerHosts,   \* _active_worker_hosts
    inventory,     \* _backup_inventory_items is not empty
    preview,       \* host of _restore_preview
    restoreOk,     \* _restore_approval is set
    restoreHost,   \* _restore_active_host_id
    closePending,  \* _close_pending
    closing,       \* a QTimer.singleShot(0, close) is pending
    closed,        \* the window has accepted closeEvent, the program ends
    runners,       \* workers the coordinator has in _active
    planned,       \* number of change sets generated
    starts,        \* number of workers started
    settled,       \* history: change sets whose apply reported its status
    told           \* history: those of them whose status the presenter took

review  == <<plan, planExpired, timer, approvalRec, outcome>>
backups == <<inventory, preview, restoreOk>>
window  == <<closePending, closing, closed>>
workers == <<activeHost, workerHosts, restoreHost, runners, starts>>
history == <<planned, settled, told>>
vars    == <<state, review, runButton, backups, window, workers, history>>

None == "none"
HostOrNone == Hosts \union {None}
NoPlan == [host |-> None, sel |-> "none", change |-> 0]
SelectionHash == -1    \* stable_hash of a plan without its change set

Kinds == {"diagnose", "plan", "apply", "inventory", "preview", "restore"}
Stages == {"running", "ended", "delivered", "finished"}

\* What a task of each kind can end with; "cancelled" only after a cancel.
Results ==
    [diagnose  |-> {"complete", "partial", "failed", "error", "cancelled"},
     plan      |-> {"planned", "error", "cancelled"},
     apply     |-> ApplyStatus \union {"error", "cancelled"},
     inventory |-> {"items", "error", "cancelled"},
     preview   |-> {"preview", "error", "cancelled"},
     restore   |-> {"evidence", "error", "cancelled"}]

GuiState == [step : {"hosts", "diagnose", "recommendations", "review", "results"},
             status : {"idle", "running", "partial", "success", "failed",
                       "cancel_requested"},
             host : HostOrNone, report : HostOrNone,
             hash : -1..MaxPlans, approved : -1..MaxPlans, approval : 0..MaxPlans,
             apply : ApplyStatus \union {"none", "applying", "recovery_required"},
             error : {"none", "stale_plan", "other"}]

Fresh(h) == [step |-> "hosts", status |-> "idle", host |-> h, report |-> None,
             hash |-> 0, approved |-> 0, approval |-> 0, apply |-> "none",
             error |-> "none"]

Init ==
    /\ state = Fresh(None) /\ plan = NoPlan /\ planExpired = FALSE /\ timer = FALSE
    /\ approvalRec = 0 /\ outcome = "none" /\ runButton = FALSE
    /\ inventory = FALSE /\ preview = None /\ restoreOk = FALSE
    /\ closePending = FALSE /\ closing = FALSE /\ closed = FALSE
    /\ activeHost = None /\ workerHosts = {} /\ restoreHost = None /\ runners = {}
    /\ starts = 0 /\ planned = 0 /\ settled = {} /\ told = {}

----------------------------------------------------------------------------
(* GuiPresenter.                                                           *)

Busy == state.status \in {"running", "cancel_requested"}

Selected(s, h) == IF h # s.host THEN Fresh(h) ELSE s

DiagnosisBegun(s) ==
    [s EXCEPT !.step = "diagnose", !.status = "running", !.report = None,
              !.hash = 0, !.approved = 0, !.approval = 0,
              !.apply = "none", !.error = "none"]

DiagnosisFailed(s) ==
    [s EXCEPT !.step = "diagnose", !.status = "failed", !.error = "other"]

DiagnosisFinished(s, h, result) ==
    [s EXCEPT !.step = IF result = "failed" THEN "diagnose" ELSE "recommendations",
              !.status = IF result = "complete" THEN "success" ELSE result,
              !.report = h, !.error = "none"]

PlanBegun(s) ==
    [s EXCEPT !.step = "review", !.hash = SelectionHash, !.error = "none",
              !.approved = IF s.hash = SelectionHash THEN s.approved ELSE 0,
              !.status = "running"]

PlanFailed(s, error) ==
    [s EXCEPT !.step = "review", !.status = "failed", !.approved = 0,
              !.approval = 0, !.apply = "none", !.error = error]

PlanFinished(s, change) ==
    [s EXCEPT !.step = "review", !.status = "success", !.hash = change,
              !.approved = 0, !.approval = 0, !.apply = "none", !.error = "none"]

\* expire_plan and invalidate_plan.
Expired(s) ==
    [s EXCEPT !.step = "review", !.status = "failed", !.approved = 0,
              !.approval = 0, !.apply = "none", !.error = "stale_plan"]

Invalidated(s) ==
    [s EXCEPT !.hash = 0, !.approved = 0, !.approval = 0, !.apply = "none",
              !.error = "none"]

ResultsPrepared(s, change) ==
    [s EXCEPT !.step = "results", !.status = "success", !.approval = change,
              !.apply = "none", !.error = "none"]

ApplyBegun(s) == [s EXCEPT !.step = "results", !.status = "running",
                           !.apply = "applying", !.error = "none"]

\* finish_apply; fail_apply is finish_apply(RECOVERY_REQUIRED).
\* (mutant: the workflow stays busy)
ApplyFinishedBusy(s, status, error) ==
    [s EXCEPT !.step = "results", !.apply = status, !.error = error]
ApplyFinished(s, status, error) ==
    [s EXCEPT !.step = "results", !.apply = status, !.error = error,
              !.status = IF status = "committed" THEN "success" ELSE "failed"]

CancelRequested(s) ==
    IF s.status = "running" THEN [s EXCEPT !.status = "cancel_requested"] ELSE s

----------------------------------------------------------------------------
(* _render, as far as it decides what a slot will do later.                *)

\* _render_results: whether Run is enabled from now on.
\* (mutant: also after an outcome)
RunnableAgain == approvalRec # 0 /\ state.step = "results" /\ ~Busy
Runnable == /\ approvalRec # 0 /\ state.step = "results" /\ ~Busy
            /\ outcome = "none"

Render == runButton' = Runnable'
RenderIf(renders) == IF renders THEN Render ELSE UNCHANGED runButton

----------------------------------------------------------------------------
(* QtWorkerCoordinator, QtTaskRunner and _start_runner.                    *)

Runner(h, kind, sel, change) ==
    [host |-> h, kind |-> kind, sel |-> sel, change |-> change,
     stage |-> "running", result |-> "none", cancel |-> FALSE]

IsActive(h) == \E r \in runners : r.host = h

\* (mutant: no host_workflow_busy)
StartAnyway(r) == /\ starts < MaxStarts /\ starts' = starts + 1
                  /\ runners' = runners \union {r}
                  /\ workerHosts' = workerHosts \union {r.host}

\* start, and the two ways it ends.
StartRunner(r) == /\ starts < MaxStarts /\ ~IsActive(r.host)
                  /\ starts' = starts + 1
                  /\ runners' = runners \union {r}
                  /\ workerHosts' = workerHosts \union {r.host}

\* host_workflow_busy: _start_runner takes the host off _active_worker_hosts,
\* and the worker that holds the host runs on.
StartRefused(r) == /\ IsActive(r.host)
                   /\ workerHosts' = workerHosts \ {r.host}
                   /\ UNCHANGED <<runners, starts>>

\* The task factory raises before there is a runner.
FactoryRefuses == UNCHANGED <<runners, starts, workerHosts>>

WithCancel(hosts) ==
    {IF r.host \in hosts THEN [r EXCEPT !.cancel = TRUE] ELSE r : r \in runners}

At(r, stage) == runners' = (runners \ {r}) \union {[r EXCEPT !.stage = stage]}

\* QtTaskRunner.run: a thread of the pool.
TaskEnds(r) ==
    /\ ~closed /\ r.stage = "running"
    /\ \E result \in Results[r.kind] :
         /\ result = "cancelled" => r.cancel
         /\ result = "planned" => r.change = 0 /\ planned < MaxPlans
         /\ planned' = IF result = "planned" THEN planned + 1 ELSE planned
         /\ runners' = (runners \ {r}) \union
                {[r EXCEPT !.stage = "ended", !.result = result,
                           !.change = IF result = "planned" THEN planned + 1 ELSE r.change]}
    /\ UNCHANGED <<state, review, runButton, backups, window, activeHost,
                   workerHosts, restoreHost, starts, settled, told>>

\* (mutant: without the close that was put off)
WorkerFinishedOnly(r) ==
    /\ ~closed /\ r.stage = "delivered"
    /\ At(r, "finished")
    /\ restoreHost' = IF r.kind = "restore" THEN None ELSE restoreHost
    /\ workerHosts' = workerHosts \ {r.host}
    /\ UNCHANGED <<state, review, backups, window, activeHost, starts, history>>
    /\ RenderIf(r.kind = "restore")

\* The slots of "finished": _restore_worker_done and _worker_finished...
WorkerFinished(r) ==
    /\ ~closed /\ r.stage = "delivered"
    /\ At(r, "finished")
    /\ restoreHost' = IF r.kind = "restore" THEN None ELSE restoreHost
    /\ workerHosts' = workerHosts \ {r.host}
    /\ closing' = (closing \/ (closePending /\ workerHosts' = {}))
    /\ UNCHANGED <<state, review, backups, closePending, closed, activeHost,
                   starts, history>>
    /\ RenderIf(r.kind = "restore")

\* ...then the coordinator's own, which frees the host.
RunnerPopped(r) ==
    /\ ~closed /\ r.stage = "finished"
    /\ runners' = runners \ {r}
    /\ UNCHANGED <<state, review, runButton, backups, window, activeHost,
                   workerHosts, restoreHost, starts, history>>

----------------------------------------------------------------------------
(* Slots of MainWindow: hosts, diagnosis, recommendations.                 *)

\* The language selector: nothing but a rendering.
ChangeLanguage ==
    /\ ~closed
    /\ UNCHANGED <<state, review, backups, window, workers, history>>
    /\ Render

UiBusy == closePending \/ Busy \/ restoreHost # None

PreviewDropped == preview' = None /\ restoreOk' = FALSE

\* _invalidate_review, with the presenter's part in s.
ReviewDropped(s) == /\ timer' = FALSE /\ approvalRec' = 0 /\ outcome' = "none"
                    /\ state' = Invalidated(s)

SelectHost(h) ==
    /\ ~closed /\ ~UiBusy /\ h # state.host
    /\ state' = Selected(state, h)
    /\ inventory' = FALSE /\ PreviewDropped
    /\ UNCHANGED <<review, window, workers, history>>
    /\ Render

StartDiagnosis ==
    /\ ~closed /\ ~Busy /\ state.host # None
    /\ LET r == Runner(state.host, "diagnose", "none", 0)
       IN  \/ StartRunner(r) /\ state' = DiagnosisBegun(state)
           \/ StartRefused(r) /\ state' = DiagnosisFailed(DiagnosisBegun(state))
    /\ timer' = FALSE /\ activeHost' = state.host
    /\ UNCHANGED <<plan, planExpired, approvalRec, outcome, backups, window,
                   restoreHost, history>>
    /\ Render

\* A plan of recommendation_plan_factory: a new plan_id, nothing selected.  A
\* change set that is being generated for the one before it will not match.
NewPlan(h) ==
    /\ plan' = [host |-> h, sel |-> "none", change |-> 0]
    /\ planExpired' = FALSE

Superseded(rs) ==
    {IF r.kind = "plan" THEN [r EXCEPT !.sel = "superseded"] ELSE r : r \in rs}

ChangeProfile ==
    /\ ~closed /\ ~Busy /\ state.report # None
    /\ ReviewDropped(state) /\ NewPlan(state.report)
    /\ runners' = Superseded(runners)
    /\ UNCHANGED <<runButton, backups, window, activeHost, workerHosts,
                   restoreHost, starts, history>>

\* (mutant: the ticks change, the review stays)
ChangeSelectionOnly(sel) ==
    /\ ~closed /\ ~Busy /\ plan # NoPlan /\ sel # plan.sel
    /\ plan' = [plan EXCEPT !.sel = sel, !.change = 0]
    /\ UNCHANGED <<state, timer, approvalRec, outcome>>
    /\ UNCHANGED <<runButton, planExpired, backups, window, workers, history>>

ChangeSelection(sel) ==
    /\ ~closed /\ ~Busy /\ plan # NoPlan /\ sel # plan.sel
    /\ plan' = [plan EXCEPT !.sel = sel, !.change = 0]
    /\ ReviewDropped(state)
    /\ UNCHANGED <<runButton, planExpired, backups, window, workers, history>>

\* A diagnosis worker's result, error or cancelled slot.  A report that names
\* another host than the one selected is an error.
DiagnosisDelivered(r) ==
    /\ ~closed /\ r.kind = "diagnose" /\ r.stage = "ended"
    /\ \/ /\ ~Busy
          /\ At(r, "delivered")
          /\ UNCHANGED <<state, review, activeHost>>
       \/ /\ Busy /\ r.result \in {"complete", "partial", "failed"}
          /\ r.host = state.host
          /\ ReviewDropped(DiagnosisFinished(state, r.host, r.result))
          /\ NewPlan(r.host)
          /\ runners' = Superseded(runners \ {r}) \union {[r EXCEPT !.stage = "delivered"]}
          /\ activeHost' = None
       \/ /\ Busy
          /\ r.result \in {"error", "cancelled"} \/ r.host # state.host
          /\ state' = DiagnosisFailed(state)
          /\ At(r, "delivered") /\ activeHost' = None
          /\ UNCHANGED review
    /\ UNCHANGED <<backups, window, workerHosts, restoreHost, starts, history>>
    /\ RenderIf(Busy)

----------------------------------------------------------------------------
(* Slots of MainWindow: review and approval.                               *)

ReviewSelected ==
    /\ ~closed /\ ~Busy /\ plan.sel # "none" /\ state.report # None
    /\ LET h == state.report
           r == Runner(h, "plan", plan.sel, plan.change)
       IN  \/ StartRunner(r) /\ state' = PlanBegun(state) /\ activeHost' = h
           \/ /\ StartRefused(r) \/ FactoryRefuses
              /\ state' = PlanFailed(PlanBegun(state), "other") /\ activeHost' = None
    /\ UNCHANGED <<review, backups, window, restoreHost, history>>
    /\ Render

Fits(r) == plan.host = r.host /\ plan.sel = r.sel

\* A planning worker's slots; finish_change_plan and fail_change_plan raise
\* when the presenter is not busy, the first one after the plan was replaced.
PlanDelivered(r) ==
    /\ ~closed /\ r.kind = "plan" /\ r.stage = "ended"
    /\ LET accepted == r.result = "planned" /\ Fits(r)
           fresh == accepted /\ Busy /\ ~planExpired
       IN  /\ plan' = IF accepted THEN [plan EXCEPT !.change = r.change] ELSE plan
           /\ timer' = (fresh \/ timer)
           /\ state' = CASE ~Busy -> state
                         [] fresh -> PlanFinished(state, r.change)
                         [] OTHER -> PlanFailed(state, IF accepted THEN "stale_plan" ELSE "other")
           /\ activeHost' = IF Busy THEN None ELSE activeHost
    /\ At(r, "delivered")
    /\ UNCHANGED <<planExpired, approvalRec, outcome, backups, window,
                   workerHosts, restoreHost, starts, history>>
    /\ RenderIf(Busy)

PlanExpires == /\ ~closed /\ plan # NoPlan /\ ~planExpired
               /\ planExpired' = TRUE
               /\ UNCHANGED <<state, runButton, plan, timer, approvalRec, outcome,
                              backups, window, workers, history>>

\* _expire_review; nothing asks whether a workflow is running.
ExpireReview == /\ ~closed /\ timer /\ planExpired
                /\ timer' = FALSE /\ approvalRec' = 0
                /\ state' = Expired(state)
                /\ UNCHANGED <<plan, planExpired, outcome, backups, window,
                               workers, history>>
    /\ Render

\* _render_approval: when the check box can be ticked.
Approvable == /\ plan.change # 0 /\ ~Busy
              /\ state.step = "review" /\ state.error = "none"

Approved == state.hash # 0 /\ state.hash = state.approved

TickApproval ==
    /\ ~closed /\ Approvable /\ ~Approved
    /\ approvalRec' = 0
    /\ state' = CASE state.hash = 0 -> state
                  [] state.hash # 0 /\ planExpired -> Expired(state)
                  [] OTHER -> [state EXCEPT !.approved = state.hash]
    /\ UNCHANGED <<plan, planExpired, timer, outcome, backups, window, workers,
                   history>>
    /\ RenderIf(state.hash = 0 \/ planExpired)

UntickApproval ==
    /\ ~closed /\ Approvable /\ Approved
    /\ approvalRec' = 0
    /\ state' = [state EXCEPT !.approved = 0, !.approval = 0, !.apply = "none"]
    /\ UNCHANGED <<runButton, plan, planExpired, timer, outcome, backups, window,
                   workers, history>>

\* CreateApprovalRecord raises an AdapterError for an expired plan, which the
\* slot does not catch: nothing changes then.
PrepareApply ==
    /\ ~closed /\ Approvable /\ Approved /\ ~planExpired
    /\ approvalRec' = plan.change /\ outcome' = "none"
    /\ state' = ResultsPrepared(state, plan.change)
    /\ UNCHANGED <<plan, planExpired, timer, backups, window, workers, history>>
    /\ Render

----------------------------------------------------------------------------
(* Slots of MainWindow: apply.                                             *)

\* The slot does not look at the outcome.  No rendering leaves Run on while the
\* page is busy, and without an approval begin_apply raises, and so does the
\* fail_apply of the handler.
RunApply ==
    /\ ~closed /\ runButton /\ ~Busy
    /\ plan # NoPlan /\ state.report # None /\ approvalRec # 0 /\ state.approval # 0
    /\ LET r == Runner(plan.host, "apply", "none", plan.change)
       IN  \/ /\ plan.change # 0 /\ StartRunner(r)
              /\ state' = ApplyBegun(state) /\ activeHost' = plan.host
           \/ /\ StartRefused(r) \/ FactoryRefuses
              /\ state' = ApplyFinished(ApplyBegun(state), "recovery_required", "other")
              /\ activeHost' = None
    /\ UNCHANGED <<review, backups, window, restoreHost, history>>
    /\ Render

\* An apply worker's slots; finish_apply raises when nothing is busy, after
\* the outcome was stored.
ApplyDelivered(r) ==
    /\ ~closed /\ r.kind = "apply" /\ r.stage = "ended"
    /\ At(r, "delivered")
    /\ LET reported == r.result \in ApplyStatus
           status == IF reported THEN r.result ELSE "recovery_required"
       IN  /\ outcome' = IF reported THEN r.result ELSE outcome
           /\ settled' = IF reported THEN settled \union {r.change} ELSE settled
           /\ told' = IF reported /\ Busy THEN told \union {r.change} ELSE told
           /\ \/ /\ Busy
                 /\ state' = ApplyFinished(state, status,
                                 IF status = "committed" THEN "none" ELSE "other")
                 /\ activeHost' = None
              \/ ~Busy /\ UNCHANGED <<state, activeHost>>
    /\ UNCHANGED <<plan, planExpired, timer, approvalRec, backups, window,
                   workerHosts, restoreHost, starts, planned>>
    /\ RenderIf(Busy)

\* Either Cancel button.
Cancel ==
    /\ ~closed /\ Busy /\ ~closePending /\ activeHost # None /\ IsActive(activeHost)
    /\ runners' = WithCancel({activeHost})
    /\ state' = CancelRequested(state)
    /\ UNCHANGED <<review, backups, window, activeHost, workerHosts, restoreHost,
                   starts, history>>
    /\ Render

----------------------------------------------------------------------------
(* Slots of MainWindow: backups and manual restore.  The inventory and     *)
(* preview tasks exist for the local host only.                            *)

RefreshBackups ==
    /\ ~closed /\ ~UiBusy /\ state.host = Local
    /\ PreviewDropped
    /\ LET r == Runner(Local, "inventory", "none", 0)
       IN  StartRunner(r) \/ StartRefused(r)
    /\ UNCHANGED <<state, review, runButton, inventory, window, activeHost,
                   restoreHost, history>>

\* A worker that was cancelled has no slot here and changes nothing.
InventoryDelivered(r) ==
    /\ ~closed /\ r.kind = "inventory" /\ r.stage = "ended"
    /\ At(r, "delivered")
    /\ \/ r.result = "items" /\ inventory' = TRUE /\ UNCHANGED <<preview,
                                                                 restoreOk>>
       \/ r.result = "error" /\ inventory' = FALSE /\ PreviewDropped
       \/ r.result = "cancelled" /\ UNCHANGED backups
    /\ UNCHANGED <<state, review, runButton, window, activeHost, workerHosts,
                   restoreHost, starts, history>>

\* currentItemChanged of the backup list, which is never disabled.
SelectBackup ==
    /\ ~closed /\ inventory /\ state.host = Local
    /\ PreviewDropped
    /\ LET r == Runner(Local, "preview", "none", 0)
       IN  StartRunner(r) \/ StartRefused(r)
    /\ UNCHANGED <<state, review, runButton, inventory, window, activeHost,
                   restoreHost, history>>

\* The slot does not ask which host is selected now.
PreviewDelivered(r) ==
    /\ ~closed /\ r.kind = "preview" /\ r.stage = "ended"
    /\ At(r, "delivered")
    /\ preview' = IF r.result = "preview" THEN r.host ELSE preview
    /\ UNCHANGED <<state, review, runButton, inventory, restoreOk, window,
                   activeHost, workerHosts, restoreHost, starts, history>>

\* _expire_restore_preview.
ExpirePreview == /\ ~closed /\ preview # None
                 /\ PreviewDropped
                 /\ UNCHANGED <<state, review, runButton, inventory, window,
                                workers, history>>

ToggleRestoreApproval ==
    /\ ~closed /\ preview # None /\ restoreHost = None
    /\ restoreOk' = ~restoreOk
    /\ UNCHANGED <<state, review, runButton, inventory, preview, window, workers,
                   history>>

\* LocalUserRestoreTaskFactory._local_candidate.
\* (mutant: any host)
AnyCandidate(h) == h \in Hosts
RestoreCandidate(h) == h = Local

RunRestore ==
    /\ ~closed /\ restoreHost = None /\ preview # None /\ restoreOk /\ state.host # None
    /\ LET r == Runner(state.host, "restore", "none", 0)
       IN  \/ /\ RestoreCandidate(state.host)
              /\ StartRunner(r) /\ restoreHost' = state.host
           \/ /\ \/ RestoreCandidate(state.host) /\ StartRefused(r)
                 \/ ~RestoreCandidate(state.host) /\ FactoryRefuses
              /\ UNCHANGED restoreHost
    /\ UNCHANGED <<state, review, backups, window, activeHost, history>>
    /\ Render

CancelRestore ==
    /\ ~closed /\ restoreHost # None /\ ~closePending /\ IsActive(restoreHost)
    /\ runners' = WithCancel({restoreHost})
    /\ UNCHANGED <<state, review, runButton, backups, window, activeHost,
                   workerHosts, restoreHost, starts, history>>

\* _restore_finished, _restore_failed and _restore_cancelled.
RestoreDelivered(r) ==
    /\ ~closed /\ r.kind = "restore" /\ r.stage = "ended"
    /\ At(r, "delivered") /\ PreviewDropped
    /\ UNCHANGED <<state, review, inventory, window, activeHost, workerHosts,
                   restoreHost, starts, history>>
    /\ Render

----------------------------------------------------------------------------
(* closeEvent.                                                             *)

CloseEvent ==
    \/ /\ workerHosts = {}
       /\ closed' = TRUE
       /\ UNCHANGED <<state, closePending, runners, runButton>>
    \/ /\ workerHosts # {}
       /\ closePending' = TRUE
       /\ runners' = WithCancel(workerHosts)
       /\ state' = CancelRequested(state)
       /\ UNCHANGED closed
       /\ Render

UserCloses ==
    /\ ~closed
    /\ UNCHANGED <<review, backups, closing, activeHost, workerHosts, restoreHost,
                   starts, history>>
    /\ CloseEvent

ScheduledClose ==
    /\ ~closed /\ closing /\ closing' = FALSE
    /\ UNCHANGED <<review, backups, activeHost, workerHosts, restoreHost, starts,
                   history>>
    /\ CloseEvent

User ==
    \/ ChangeLanguage
    \/ \E h \in Hosts : SelectHost(h)
    \/ \E sel \in Selections \union {"none"} : ChangeSelection(sel)
    \/ StartDiagnosis \/ ChangeProfile \/ ReviewSelected
    \/ TickApproval \/ UntickApproval \/ PrepareApply \/ RunApply \/ Cancel
    \/ RefreshBackups \/ SelectBackup \/ ToggleRestoreApproval
    \/ RunRestore \/ CancelRestore \/ UserCloses

Clock == PlanExpires \/ ExpireReview \/ ExpirePreview

Slot(r) ==
    \/ DiagnosisDelivered(r) \/ PlanDelivered(r) \/ ApplyDelivered(r)
    \/ InventoryDelivered(r) \/ PreviewDelivered(r) \/ RestoreDelivered(r)
    \/ WorkerFinished(r) \/ RunnerPopped(r)

Worker == \E r \in runners : TaskEnds(r) \/ Slot(r)

Next == User \/ Clock \/ Worker \/ ScheduledClose

Spec == Init /\ [][Next]_vars

\* Tasks have timeouts and end; the event loop handles what is posted to it.
FairSpec == Spec /\ WF_vars(Worker) /\ WF_vars(ScheduledClose)

----------------------------------------------------------------------------
(* Properties.                                                             *)

\* Every variable has its type.
TypeOK ==
    /\ state \in GuiState
    /\ plan \in [host : HostOrNone, sel : Selections \union {"none"}, change : 0..MaxPlans]
    /\ planExpired \in BOOLEAN /\ timer \in BOOLEAN /\ inventory \in BOOLEAN
    /\ restoreOk \in BOOLEAN /\ closePending \in BOOLEAN /\ closing \in BOOLEAN
    /\ closed \in BOOLEAN
    /\ approvalRec \in 0..MaxPlans /\ outcome \in ApplyStatus \union {"none"}
    /\ activeHost \in HostOrNone /\ restoreHost \in HostOrNone /\ preview \in HostOrNone
    /\ workerHosts \subseteq Hosts
    /\ \A r \in runners : /\ r.host \in Hosts /\ r.kind \in Kinds /\ r.stage \in Stages
                          /\ r.result \in Results[r.kind] \union {"none"}
                          /\ r.change \in 0..MaxPlans
    /\ planned \in 0..MaxPlans /\ starts \in 0..MaxStarts
    /\ settled \subseteq 1..MaxPlans /\ told \subseteq settled /\ runButton \in BOOLEAN

\* No two workers at one host, whichever buttons are clicked and whichever
\* slots raise: "lock the simultaneous operations of each host" (gui.md
\* section 5; QtWorkerCoordinator._active).
HostExclusive == \A r, s \in runners : r.host = s.host => r = s

\* An approval the window shows is of the change set on the page, and what Run
\* would apply is that change set, for the selected host and its report, however
\* late slots, timers, host and tick changes interleave (gui.md section 3) and
\* however old the rendering is that left Run enabled.  While there is no report
\* Run does nothing: a late review of another host can then be on the page.
ApprovalMatchesPlan ==
    /\ Approvable /\ Approved => state.approved = plan.change
    /\ runButton /\ approvalRec # 0 /\ state.report # None /\ state.approval # 0 =>
         /\ plan.change = approvalRec /\ state.approval = approvalRec
         /\ plan.host = state.host /\ state.report = state.host

Applies(c) == \E r \in runners : r.kind = "apply" /\ r.change = c

\* Run is off for every change set whose status the page took, whichever slots
\* have rendered it since: what keeps it from being applied again, because the
\* slot of Run does not look at the outcome (_render_results, _run_apply).
TakenIsOff == runButton /\ approvalRec # 0 => approvalRec \notin told

\* A change set whose apply reported its status is never applied again: "the
\* second Apply of the same plan is refused" (safe-apply.md section 9).
AppliedOnce == [][\A c \in settled : Applies(c)' => Applies(c)]_vars

\* A restore runs on the host whose backup was previewed and approved, though
\* a preview that arrives late is shown under another host.
RestoreIsForPreview ==
    [][\A r \in runners' : r.kind = "restore" /\ ~IsActive(r.host) => r.host = preview]_vars

\* Once the window waits to close, it closes when its workers are done.
CloseEnds == closePending ~> closed

\* A workflow that was started ends: the page does not stay busy for ever.
BusyEnds == Busy ~> ~Busy \/ closed
=============================================================================
