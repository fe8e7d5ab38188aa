-------------------------- MODULE GuiWorkflowProofs -------------------------
(***************************************************************************)
(* Theorems about GuiWorkflow, for any hosts and selections and any number *)
(* of change sets and workers: one worker at a host, approvals and runs    *)
(* are of the change set on the page, Run is off for what the page was     *)
(* told of, a restore runs where its preview came from.                    *)
(*                                                                         *)
(* Most slots keep the plan, the approval and the workers' results         *)
(* (QuietSlots); the other fourteen actions are the cases of each lemma.   *)
(* Of the Run button a step that renders says everything, and one that     *)
(* does not leaves what its truth depends on (ButtonNext).                 *)
(***************************************************************************)
EXTENDS GuiWorkflow, TLAPS

\* What any task can end with.
Outcomes == ApplyStatus \union {"none", "complete", "partial", "failed", "error", "cancelled",
                                "planned", "items", "preview", "evidence"}

\* A worker, in every field a proof looks at.
RunnerType == [host : Hosts, kind : Kinds, sel : Selections \union {"none", "superseded"},
               change : 0..MaxPlans, stage : Stages, result : Outcomes, cancel : BOOLEAN]

RunnersOK ==
    \A r \in runners :
        /\ r \in RunnerType
        /\ r.result \in Results[r.kind] \union {"none"}
        /\ r.change <= planned
        /\ r.kind = "apply" => r.change # 0
        /\ r.kind \in {"inventory", "preview"} => r.host = Local

Numbered == plan.change <= planned /\ settled \subseteq 1..planned

ReportIsOfPlan ==
    state.report # None => plan.host = state.report /\ state.host = state.report

Reviewing == state.step = "review" /\ state.error = "none" /\ ~Busy

\* A planning task that holds, or may still make, a change set for the plan.
Promises(r) == /\ r.kind = "plan" /\ Fits(r)
               /\ \/ r.stage = "running" /\ r.change = 0
                  \/ r.stage = "ended" /\ r.result = "planned"

OnePlanning == plan.change # 0 => \A r \in runners : ~Promises(r)

HashIsOfPlan == Reviewing /\ state.hash # 0 => state.hash = plan.change

RecordIsOfPlan ==
    approvalRec # 0 =>
        /\ plan.change = approvalRec
        /\ state.approval # 0 => state.approval = approvalRec

\* A planning task whose change set is on its way to the page.
Fruit(r) == r.kind = "plan" /\ r.stage = "ended" /\ r.result = "planned"

Started(c) == c \in settled \/ \E r \in runners : r.kind = "apply" /\ r.change = c

FruitIsNew ==
    \A r \in runners : Fruit(r) =>
        /\ r.change # 0 /\ r.change # plan.change /\ ~Started(r.change)
        /\ \A s \in runners : Fruit(s) /\ s.change = r.change => s.host = r.host

StartedIsOver ==
    /\ plan.change # 0 /\ Started(plan.change) => ~Reviewing
    /\ plan.change \in settled => outcome # "none"

PreviewIsLocal == preview \in {None, Local}

ButtonIsIdle == runButton => ~Busy

\* The part of TypeOK the argument does not turn on.
Peripheral ==
    /\ planExpired \in BOOLEAN /\ timer \in BOOLEAN /\ inventory \in BOOLEAN
    /\ restoreOk \in BOOLEAN /\ closePending \in BOOLEAN /\ closing \in BOOLEAN
    /\ closed \in BOOLEAN
    /\ activeHost \in HostOrNone /\ restoreHost \in HostOrNone /\ preview \in HostOrNone
    /\ workerHosts \subseteq Hosts /\ starts \in 0..MaxStarts

ReviewOK ==
    /\ plan \in [host : HostOrNone, sel : Selections \union {"none"}, change : 0..MaxPlans]
    /\ approvalRec \in 0..MaxPlans /\ outcome \in ApplyStatus \union {"none"}
    /\ planned \in 0..MaxPlans /\ plan.change <= planned /\ settled \subseteq 1..planned

Typed == TypeOK /\ RunnersOK /\ Numbered /\ ReportIsOfPlan

Inv == /\ Typed /\ HostExclusive /\ OnePlanning /\ HashIsOfPlan /\ RecordIsOfPlan
       /\ FruitIsNew /\ StartedIsOver /\ PreviewIsLocal /\ ButtonIsIdle /\ TakenIsOff

----------------------------------------------------------------------------
(* What a step does to the workers.                                        *)

\* A worker that went on, was cancelled or superseded, or was handled.
Follows(n, r) ==
    /\ n.host = r.host /\ n.kind = r.kind /\ n.change = r.change
    /\ n.sel = r.sel \/ n.sel = "superseded"
    /\ \/ n.stage = r.stage /\ n.result = r.result
       \/ n.stage \in {"delivered", "finished"}

Quiet == \A n \in runners' : \/ n.kind \notin {"plan", "apply"}
                             \/ \E r \in runners : Follows(n, r)

\* The slots that leave the plan, the approval and every result alone.
QuietSlots ==
    /\ UNCHANGED <<plan, approvalRec, outcome, planned, settled, told>>
    /\ state' = state \/ state' = CancelRequested(state)
    /\ Quiet

\* The other actions.
Telling ==
    \/ \E h \in Hosts : SelectHost(h)
    \/ \E sel \in Selections \union {"none"} : ChangeSelection(sel)
    \/ StartDiagnosis \/ ChangeProfile \/ ReviewSelected
    \/ TickApproval \/ UntickApproval \/ PrepareApply \/ RunApply \/ ExpireReview
    \/ \E r \in runners : \/ TaskEnds(r) \/ DiagnosisDelivered(r)
                          \/ PlanDelivered(r) \/ ApplyDelivered(r)

LEMMA KindOfPlanned == ASSUME NEW k \in Kinds, "planned" \in Results[k] PROVE k = "plan"
BY ApplyStatusAssumption, SMTT(20) DEF Kinds, Results

LEMMA ResultIsOutcome == ASSUME NEW k \in Kinds PROVE Results[k] \subseteq Outcomes
BY SMTT(20) DEF Kinds, Results, Outcomes

LEMMA AtQuiet == ASSUME RunnersOK, NEW r \in runners, NEW stage \in {"delivered", "finished"},
                        At(r, stage)
                 PROVE  Quiet
BY DEF RunnersOK, RunnerType, At, Quiet, Follows

LEMMA StartQuiet == ASSUME RunnersOK, NEW h, NEW k \in Kinds \ {"plan", "apply"}, NEW c,
                           \/ StartRunner(Runner(h, k, "none", c))
                           \/ StartRefused(Runner(h, k, "none", c))
                    PROVE  Quiet
BY DEF RunnersOK, RunnerType, StartRunner, StartRefused, Runner, Quiet, Follows

LEMMA CancelQuiet == ASSUME RunnersOK, NEW hosts, runners' = WithCancel(hosts) PROVE Quiet
BY DEF RunnersOK, RunnerType, WithCancel, Quiet, Follows

LEMMA SameQuiet == runners' = runners => Quiet
BY DEF Quiet, Follows

\* Every step is a quiet one or one of the fourteen.
LEMMA Steps == ASSUME RunnersOK, Next PROVE QuietSlots \/ Telling
<1>1. ASSUME PlanExpires \/ ExpirePreview \/ ToggleRestoreApproval \/ ChangeLanguage
      PROVE  QuietSlots
  BY <1>1, SameQuiet DEF PlanExpires, ExpirePreview, ToggleRestoreApproval, ChangeLanguage,
     QuietSlots, review, history, workers
<1>2. ASSUME RefreshBackups \/ SelectBackup PROVE QuietSlots
  BY <1>2, StartQuiet DEF RefreshBackups, SelectBackup, QuietSlots, review, history, Kinds
<1>3. ASSUME RunRestore PROVE QuietSlots
  BY <1>3, StartQuiet, SameQuiet DEF RunRestore, FactoryRefuses, QuietSlots, review, history, Kinds
<1>4. ASSUME Cancel \/ CancelRestore PROVE QuietSlots
  BY <1>4, CancelQuiet DEF Cancel, CancelRestore, QuietSlots, review, history
<1>5. ASSUME UserCloses \/ ScheduledClose PROVE QuietSlots
  BY <1>5, CancelQuiet, SameQuiet DEF UserCloses, ScheduledClose, CloseEvent, QuietSlots, review, history
<1>6. ASSUME NEW r \in runners,
             InventoryDelivered(r) \/ PreviewDelivered(r) \/ RestoreDelivered(r)
                 \/ WorkerFinished(r)
      PROVE  QuietSlots
  BY <1>6, AtQuiet DEF InventoryDelivered, PreviewDelivered, RestoreDelivered, WorkerFinished,
     QuietSlots, review, history
<1>7. ASSUME NEW r \in runners, RunnerPopped(r) PROVE QuietSlots
  BY <1>7 DEF RunnerPopped, QuietSlots, review, history, Quiet, Follows
<1>. QED  BY <1>1, <1>2, <1>3, <1>4, <1>5, <1>6, <1>7
          DEF Next, User, Clock, Worker, Slot, Telling

----------------------------------------------------------------------------
(* Types.                                                                  *)

\* A field at a time.
LEMMA Fields ==
    ASSUME NEW s \in GuiState
    PROVE  /\ \A v \in {"hosts", "diagnose", "recommendations", "review", "results"} :
                  [s EXCEPT !.step = v] \in GuiState
           /\ \A v \in {"idle", "running", "partial", "success", "failed",
                        "cancel_requested"} : [s EXCEPT !.status = v] \in GuiState
           /\ \A v \in HostOrNone : [s EXCEPT !.report = v] \in GuiState
           /\ \A v \in -1..MaxPlans : /\ [s EXCEPT !.hash = v] \in GuiState
                                      /\ [s EXCEPT !.approved = v] \in GuiState
           /\ \A v \in 0..MaxPlans : [s EXCEPT !.approval = v] \in GuiState
           /\ \A v \in ApplyStatus \union {"none", "applying", "recovery_required"} :
                  [s EXCEPT !.apply = v] \in GuiState
           /\ \A v \in {"none", "stale_plan", "other"} : [s EXCEPT !.error = v] \in GuiState
BY DEF GuiState

\* Every operation of the presenter keeps its state well formed.
LEMMA Presenter ==
    ASSUME NEW s \in GuiState
    PROVE  /\ \A h \in HostOrNone : Selected(s, h) \in GuiState
           /\ DiagnosisBegun(s) \in GuiState /\ DiagnosisFailed(s) \in GuiState
           /\ \A h \in Hosts, result \in {"complete", "partial", "failed"} :
                  DiagnosisFinished(s, h, result) \in GuiState
           /\ PlanBegun(s) \in GuiState
           /\ \A error \in {"stale_plan", "other"} : PlanFailed(s, error) \in GuiState
           /\ \A c \in 0..MaxPlans : PlanFinished(s, c) \in GuiState
           /\ Expired(s) \in GuiState /\ Invalidated(s) \in GuiState
           /\ \A c \in 0..MaxPlans : ResultsPrepared(s, c) \in GuiState
           /\ ApplyBegun(s) \in GuiState
           /\ \A status \in ApplyStatus \union {"recovery_required"},
                 error \in {"none", "other"} : ApplyFinished(s, status, error) \in GuiState
           /\ CancelRequested(s) \in GuiState
<1>0. 0 \in -1..MaxPlans /\ 0 \in 0..MaxPlans /\ -1 \in -1..MaxPlans
      /\ s.approved \in -1..MaxPlans /\ \A c \in 0..MaxPlans : c \in -1..MaxPlans
      /\ None \in HostOrNone /\ Hosts \subseteq HostOrNone
  BY GuiBoundsAssumption DEF GuiState, HostOrNone
<1>. USE <1>0, Fields
<1>1. \A h \in HostOrNone : Selected(s, h) \in GuiState
  BY DEF Selected, Fresh, GuiState
<1>2. DiagnosisBegun(s) \in GuiState /\ DiagnosisFailed(s) \in GuiState
  BY DEF DiagnosisBegun, DiagnosisFailed, HostOrNone
<1>3. \A h \in Hosts, result \in {"complete", "partial", "failed"} :
          DiagnosisFinished(s, h, result) \in GuiState
  BY DEF DiagnosisFinished, HostOrNone
<1>4. PlanBegun(s) \in GuiState
  BY DEF PlanBegun, SelectionHash
<1>5. \A error \in {"stale_plan", "other"} : PlanFailed(s, error) \in GuiState
  BY DEF PlanFailed
<1>6. \A c \in 0..MaxPlans : PlanFinished(s, c) \in GuiState
  BY DEF PlanFinished
<1>7. Expired(s) \in GuiState /\ Invalidated(s) \in GuiState
  BY DEF Expired, Invalidated
<1>8. \A c \in 0..MaxPlans : ResultsPrepared(s, c) \in GuiState
  BY DEF ResultsPrepared
<1>9. ApplyBegun(s) \in GuiState
  BY DEF ApplyBegun
<1>10. \A status \in ApplyStatus \union {"recovery_required"}, error \in {"none", "other"} :
           ApplyFinished(s, status, error) \in GuiState
  BY DEF ApplyFinished
<1>11. CancelRequested(s) \in GuiState
  BY DEF CancelRequested
<1>. QED  BY <1>1, <1>2, <1>3, <1>4, <1>5, <1>6, <1>7, <1>8, <1>9, <1>10, <1>11

LEMMA StateType == ASSUME Typed, Next PROVE state' \in GuiState
<1>. USE Presenter DEF Typed, TypeOK
<1>1. ASSUME QuietSlots PROVE state' \in GuiState
  BY <1>1 DEF QuietSlots
<1>2. ASSUME NEW h \in Hosts, SelectHost(h) PROVE state' \in GuiState
  BY <1>2 DEF SelectHost, HostOrNone
<1>3. ASSUME NEW sel, ChangeSelection(sel) PROVE state' \in GuiState
  BY <1>3 DEF ChangeSelection, ReviewDropped
<1>4. ASSUME StartDiagnosis PROVE state' \in GuiState
  BY <1>4 DEF StartDiagnosis
<1>5. ASSUME ChangeProfile PROVE state' \in GuiState
  BY <1>5 DEF ChangeProfile, ReviewDropped
<1>6. ASSUME ReviewSelected PROVE state' \in GuiState
  BY <1>6 DEF ReviewSelected
<1>7. ASSUME TickApproval PROVE state' \in GuiState
  <2>1. [state EXCEPT !.approved = state.hash] \in GuiState
    BY DEF GuiState
  <2>. QED  BY <1>7, <2>1 DEF TickApproval
<1>8. ASSUME UntickApproval PROVE state' \in GuiState
  <2>1. 0 \in -1..MaxPlans /\ 0 \in 0..MaxPlans
    BY GuiBoundsAssumption
  <2>. QED  BY <1>8, <2>1, Fields DEF UntickApproval
<1>9. ASSUME PrepareApply PROVE state' \in GuiState
  BY <1>9 DEF PrepareApply
<1>10. ASSUME RunApply PROVE state' \in GuiState
  BY <1>10, ZenonT(40) DEF RunApply
<1>11. ASSUME ExpireReview PROVE state' \in GuiState
  BY <1>11 DEF ExpireReview
<1>12. ASSUME NEW r \in runners, TaskEnds(r) PROVE state' \in GuiState
  BY <1>12 DEF TaskEnds
<1>13. ASSUME NEW r \in runners, DiagnosisDelivered(r) PROVE state' \in GuiState
  BY <1>13 DEF DiagnosisDelivered, ReviewDropped, RunnersOK, RunnerType
<1>14. ASSUME NEW r \in runners, PlanDelivered(r) PROVE state' \in GuiState
  BY <1>14 DEF PlanDelivered, RunnersOK, RunnerType
<1>15. ASSUME NEW r \in runners, ApplyDelivered(r) PROVE state' \in GuiState
  BY <1>15 DEF ApplyDelivered, RunnersOK, RunnerType
<1>. QED  BY <1>1, <1>2, <1>3, <1>4, <1>5, <1>6, <1>7, <1>8, <1>9, <1>10, <1>11, <1>12, <1>13,
          <1>14, <1>15, Steps DEF Telling

\* Workers stay well formed, whatever a slot does with them.
LEMMA AtOK == ASSUME RunnersOK, NEW r \in runners, NEW stage \in Stages, At(r, stage),
                     planned' = planned
              PROVE  RunnersOK'
BY DEF At, RunnersOK, RunnerType

LEMMA RunnerTyped == ASSUME NEW h \in Hosts, NEW k \in Kinds,
                            NEW sel \in Selections \union {"none"}, NEW c \in 0..MaxPlans
                     PROVE  /\ Runner(h, k, sel, c) \in RunnerType
                            /\ Runner(h, k, sel, c).host = h /\ Runner(h, k, sel, c).kind = k
                            /\ Runner(h, k, sel, c).change = c
                            /\ Runner(h, k, sel, c).result = "none"
BY DEF Runner, RunnerType, Stages, Outcomes

LEMMA StartOK == ASSUME Typed, planned' = planned, NEW h \in Hosts, NEW k \in Kinds,
                        NEW sel \in Selections \union {"none"}, NEW c \in 0..MaxPlans,
                        \/ StartRunner(Runner(h, k, sel, c)) /\ (k = "apply" => c # 0)
                        \/ StartRefused(Runner(h, k, sel, c)),
                        c <= planned, k \in {"inventory", "preview"} => h = Local
                 PROVE  RunnersOK' /\ starts' \in 0..MaxStarts /\ workerHosts' \subseteq Hosts
<1>. DEFINE n == Runner(h, k, sel, c)
<1>1. /\ n \in RunnerType /\ n.host = h /\ n.kind = k /\ n.change = c /\ n.result = "none"
  BY RunnerTyped
<1>2. /\ planned' = planned /\ RunnersOK
      /\ workerHosts \subseteq Hosts /\ starts \in 0..MaxStarts
      /\ (StartRunner(n) /\ (k = "apply" => c # 0)) \/ StartRefused(n)
  BY DEF Typed, TypeOK
<1>. HIDE DEF n
<1>. QED  BY <1>1, <1>2, GuiBoundsAssumption DEF StartRunner, StartRefused, RunnersOK

LEMMA CancelOK == ASSUME RunnersOK, NEW hosts, runners' = WithCancel(hosts), planned' = planned
                  PROVE  RunnersOK'
BY ZenonT(40) DEF WithCancel, RunnersOK, RunnerType

LEMMA SupersededOK == ASSUME RunnersOK, NEW rs \in SUBSET runners, planned' = planned
                      PROVE  \A x \in Superseded(rs) :
                                 /\ x \in RunnerType
                                 /\ x.result \in Results[x.kind] \union {"none"}
                                 /\ x.change <= planned
                                 /\ x.kind = "apply" => x.change # 0
                                 /\ x.kind \in {"inventory", "preview"} => x.host = Local
BY DEF Superseded, RunnersOK, RunnerType

LEMMA TaskEndsOK == ASSUME Typed, NEW r \in runners, TaskEnds(r)
                    PROVE  RunnersOK' /\ planned' \in 0..MaxPlans /\ planned <= planned'
<1>. USE GuiBoundsAssumption DEF Typed, TypeOK, RunnersOK, RunnerType
<1>1. PICK result \in Results[r.kind] :
        /\ result = "planned" => r.change = 0 /\ planned < MaxPlans
        /\ planned' = IF result = "planned" THEN planned + 1 ELSE planned
        /\ runners' = (runners \ {r}) \union
               {[r EXCEPT !.stage = "ended", !.result = result,
                          !.change = IF result = "planned" THEN planned + 1 ELSE r.change]}
  BY DEF TaskEnds
<1>. DEFINE c == IF result = "planned" THEN planned + 1 ELSE r.change
<1>2. /\ c \in 0..MaxPlans /\ c <= planned' /\ planned' \in 0..MaxPlans /\ planned <= planned'
      /\ r.kind = "apply" => c # 0
  BY <1>1, KindOfPlanned
<1>3. result \in Outcomes
  BY ResultIsOutcome
<1>. DEFINE n == [r EXCEPT !.stage = "ended", !.result = result, !.change = c]
<1>4. /\ n \in RunnerType /\ n.kind = r.kind /\ n.host = r.host /\ n.change = c
      /\ n.result = result
  BY <1>2, <1>3 DEF Stages
<1>5. runners' = (runners \ {r}) \union {n}
  BY <1>1
<1>. HIDE DEF n, c
<1>. QED  BY <1>1, <1>2, <1>4, <1>5

LEMMA SameOK == ASSUME RunnersOK, runners' = runners, planned' = planned PROVE RunnersOK'
BY DEF RunnersOK

\* The six slots that start a worker.
LEMMA Starts ==
    ASSUME Typed,
           \/ StartDiagnosis \/ ReviewSelected \/ RunApply
           \/ RefreshBackups \/ SelectBackup \/ RunRestore
    PROVE  RunnersOK' /\ starts' \in 0..MaxStarts /\ workerHosts' \subseteq Hosts
<1>. DEFINE Goal == RunnersOK' /\ starts' \in 0..MaxStarts /\ workerHosts' \subseteq Hosts
<1>0. /\ state.host \in Hosts \union {None} /\ plan.host \in Hosts \union {None}
      /\ plan.sel \in Selections \union {"none"} /\ plan.change \in 0..MaxPlans
      /\ plan.change <= planned /\ 0 \in 0..MaxPlans /\ 0 <= planned /\ Local \in Hosts
      /\ state.report # None => state.report \in Hosts /\ plan.host = state.report
  BY GuiBoundsAssumption, HostsAssumption
     DEF Typed, TypeOK, Numbered, GuiState, HostOrNone, ReportIsOfPlan
<1>5. ASSUME FactoryRefuses, planned' = planned PROVE Goal
  BY <1>5, SameOK DEF FactoryRefuses, Typed, TypeOK
<1>1. ASSUME StartDiagnosis PROVE Goal
  <2>1. state.host \in Hosts /\ planned' = planned
    BY <1>0, <1>1 DEF StartDiagnosis, history
  <2>2. \/ StartRunner(Runner(state.host, "diagnose", "none", 0))
        \/ StartRefused(Runner(state.host, "diagnose", "none", 0))
    BY <1>1 DEF StartDiagnosis
  <2>. QED  BY <1>0, <2>1, <2>2, StartOK DEF Kinds
<1>2. ASSUME RefreshBackups PROVE Goal
  <2>1. \/ StartRunner(Runner(Local, "inventory", "none", 0))
        \/ StartRefused(Runner(Local, "inventory", "none", 0))
    BY <1>2 DEF RefreshBackups
  <2>2. planned' = planned
    BY <1>2 DEF RefreshBackups, history
  <2>. QED  BY <1>0, <2>1, <2>2, StartOK DEF Kinds
<1>3. ASSUME SelectBackup PROVE Goal
  <2>1. \/ StartRunner(Runner(Local, "preview", "none", 0))
        \/ StartRefused(Runner(Local, "preview", "none", 0))
    BY <1>3 DEF SelectBackup
  <2>2. planned' = planned
    BY <1>3 DEF SelectBackup, history
  <2>. QED  BY <1>0, <2>1, <2>2, StartOK DEF Kinds
<1>4. ASSUME RunRestore PROVE Goal
  <2>1. \/ StartRunner(Runner(state.host, "restore", "none", 0))
        \/ StartRefused(Runner(state.host, "restore", "none", 0))
        \/ FactoryRefuses
    BY <1>4 DEF RunRestore
  <2>2. planned' = planned /\ state.host \in Hosts
    BY <1>0, <1>4 DEF RunRestore, history
  <2>. QED  BY <1>0, <1>5, <2>1, <2>2, StartOK DEF Kinds
<1>6. ASSUME ReviewSelected PROVE Goal
  <2>1. \/ StartRunner(Runner(state.report, "plan", plan.sel, plan.change))
        \/ StartRefused(Runner(state.report, "plan", plan.sel, plan.change))
        \/ FactoryRefuses
    BY <1>6 DEF ReviewSelected
  <2>2. planned' = planned /\ state.report \in Hosts
    BY <1>0, <1>6 DEF ReviewSelected, history
  <2>. QED  BY <1>0, <1>5, <2>1, <2>2, StartOK DEF Kinds
<1>7. ASSUME RunApply PROVE Goal
  <2>1. \/ StartRunner(Runner(plan.host, "apply", "none", plan.change)) /\ plan.change # 0
        \/ StartRefused(Runner(plan.host, "apply", "none", plan.change))
        \/ FactoryRefuses
    BY <1>7 DEF RunApply
  <2>2. planned' = planned /\ plan.host \in Hosts
    BY <1>0, <1>7 DEF RunApply, history
  <2>. QED  BY <1>0, <1>5, <2>1, <2>2, StartOK DEF Kinds
<1>. QED  BY <1>1, <1>2, <1>3, <1>4, <1>6, <1>7

LEMMA RunnersNext == ASSUME Typed, Next PROVE RunnersOK'
<1>. USE GuiBoundsAssumption, HostsAssumption
         DEF Typed, TypeOK, Numbered, ReportIsOfPlan, HostOrNone, None, NoPlan, Kinds, Stages,
             GuiState
<1>1. ASSUME NEW h \in Hosts, SelectHost(h) PROVE RunnersOK'
  BY <1>1, SameOK DEF SelectHost, PreviewDropped, workers, history
<1>2. ASSUME NEW sel \in Selections \union {"none"}, ChangeSelection(sel) PROVE RunnersOK'
  BY <1>2, SameOK DEF ChangeSelection, ReviewDropped, workers, history
<1>3. ASSUME StartDiagnosis PROVE RunnersOK'
  BY <1>3, Starts DEF StartDiagnosis, workers, history
<1>4. ASSUME ChangeProfile PROVE RunnersOK'
  BY <1>4, SupersededOK DEF ChangeProfile, NewPlan, RunnersOK, history
<1>5. ASSUME ReviewSelected PROVE RunnersOK'
  BY <1>5, Starts DEF ReviewSelected, FactoryRefuses, workers, history
<1>6. ASSUME TickApproval PROVE RunnersOK'
  BY <1>6, SameOK DEF TickApproval, workers, history
<1>7. ASSUME UntickApproval PROVE RunnersOK'
  BY <1>7, SameOK DEF UntickApproval, workers, history
<1>8. ASSUME PrepareApply PROVE RunnersOK'
  BY <1>8, SameOK DEF PrepareApply, workers, history
<1>9. ASSUME RunApply PROVE RunnersOK'
  BY <1>9, Starts DEF RunApply, FactoryRefuses, workers, history
<1>10. ASSUME ExpireReview PROVE RunnersOK'
  BY <1>10, SameOK DEF ExpireReview, workers, history
<1>11. ASSUME PlanExpires PROVE RunnersOK'
  BY <1>11, SameOK DEF PlanExpires, workers, history
<1>12. ASSUME ExpirePreview PROVE RunnersOK'
  BY <1>12, SameOK DEF ExpirePreview, PreviewDropped, workers, history
<1>13. ASSUME ToggleRestoreApproval PROVE RunnersOK'
  BY <1>13, SameOK DEF ToggleRestoreApproval, workers, history
<1>14. ASSUME Cancel PROVE RunnersOK'
  BY <1>14, CancelOK DEF Cancel, workers, history
<1>15. ASSUME RefreshBackups PROVE RunnersOK'
  BY <1>15, Starts DEF RefreshBackups, PreviewDropped, workers, history
<1>16. ASSUME SelectBackup PROVE RunnersOK'
  BY <1>16, Starts DEF SelectBackup, PreviewDropped, workers, history
<1>17. ASSUME RunRestore PROVE RunnersOK'
  BY <1>17, Starts DEF RunRestore, workers, history
<1>18. ASSUME CancelRestore PROVE RunnersOK'
  BY <1>18, CancelOK DEF CancelRestore, workers, history
<1>19. ASSUME UserCloses PROVE RunnersOK'
  BY <1>19, CancelOK, SameOK DEF UserCloses, CloseEvent, workers, history
<1>20. ASSUME ScheduledClose PROVE RunnersOK'
  BY <1>20, CancelOK, SameOK DEF ScheduledClose, CloseEvent, workers, history
<1>21. ASSUME NEW r \in runners, TaskEnds(r) PROVE RunnersOK'
  BY <1>21, TaskEndsOK DEF TaskEnds, workers, history
<1>22. ASSUME NEW r \in runners, DiagnosisDelivered(r) PROVE RunnersOK'
  <2>1. CASE At(r, "delivered")
    BY <1>22, <2>1, AtOK DEF DiagnosisDelivered, history
  <2>2. CASE runners' = Superseded(runners \ {r}) \union {[r EXCEPT !.stage = "delivered"]}
    <3>1. [r EXCEPT !.stage = "delivered"] \in RunnerType
      BY DEF RunnersOK, RunnerType
    <3>. QED  BY <1>22, <2>2, <3>1, SupersededOK DEF DiagnosisDelivered, history, RunnersOK, RunnerType
  <2>. QED  BY <1>22, <2>1, <2>2 DEF DiagnosisDelivered
<1>23. ASSUME NEW r \in runners, PlanDelivered(r) PROVE RunnersOK'
  BY <1>23, AtOK DEF PlanDelivered, workers, history
<1>24. ASSUME NEW r \in runners, ApplyDelivered(r) PROVE RunnersOK'
  BY <1>24, AtOK DEF ApplyDelivered, workers, history
<1>25. ASSUME NEW r \in runners, InventoryDelivered(r) PROVE RunnersOK'
  BY <1>25, AtOK DEF InventoryDelivered, PreviewDropped, workers, history
<1>26. ASSUME NEW r \in runners, PreviewDelivered(r) PROVE RunnersOK'
  BY <1>26, AtOK DEF PreviewDelivered, workers, history
<1>27. ASSUME NEW r \in runners, RestoreDelivered(r) PROVE RunnersOK'
  BY <1>27, AtOK DEF RestoreDelivered, PreviewDropped, workers, history
<1>28. ASSUME NEW r \in runners, WorkerFinished(r) PROVE RunnersOK'
  BY <1>28, AtOK DEF WorkerFinished, workers, history
<1>29. ASSUME NEW r \in runners, RunnerPopped(r) PROVE RunnersOK'
  BY <1>29 DEF RunnerPopped, history, RunnersOK
<1>30. ASSUME ChangeLanguage PROVE RunnersOK'
  BY <1>30, SameOK DEF ChangeLanguage, workers, history
<1>. QED  BY <1>1, <1>2, <1>3, <1>4, <1>5, <1>6, <1>7, <1>8, <1>9, <1>10, <1>11, <1>12,
     <1>13, <1>14, <1>15, <1>16, <1>17, <1>18, <1>19, <1>20, <1>21, <1>22, <1>23, <1>24,
     <1>25, <1>26, <1>27, <1>28, <1>29, <1>30 DEF Next, User, Clock, Worker, Slot

LEMMA PeripheralNext == ASSUME Typed, Next PROVE Peripheral'
<1>. USE GuiBoundsAssumption, HostsAssumption
         DEF Typed, TypeOK, Peripheral, ReportIsOfPlan, HostOrNone, None, NoPlan, RunnersOK,
             RunnerType, GuiState, Kinds
<1>1. ASSUME NEW h \in Hosts, SelectHost(h) PROVE Peripheral'
  BY <1>1 DEF SelectHost, PreviewDropped, review, backups, window, workers
<1>2. ASSUME NEW sel \in Selections \union {"none"}, ChangeSelection(sel) PROVE Peripheral'
  BY <1>2 DEF ChangeSelection, ReviewDropped, review, backups, window, workers
<1>3. ASSUME StartDiagnosis PROVE Peripheral'
  BY <1>3, Starts DEF StartDiagnosis, review, backups, window, workers
<1>4. ASSUME ChangeProfile PROVE Peripheral'
  BY <1>4 DEF ChangeProfile, ReviewDropped, NewPlan, review, backups, window, workers
<1>5. ASSUME ReviewSelected PROVE Peripheral'
  BY <1>5, Starts DEF ReviewSelected, FactoryRefuses, review, backups, window, workers
<1>6. ASSUME TickApproval PROVE Peripheral'
  BY <1>6 DEF TickApproval, review, backups, window, workers
<1>7. ASSUME UntickApproval PROVE Peripheral'
  BY <1>7 DEF UntickApproval, review, backups, window, workers
<1>8. ASSUME PrepareApply PROVE Peripheral'
  BY <1>8 DEF PrepareApply, review, backups, window, workers
<1>9. ASSUME RunApply PROVE Peripheral'
  BY <1>9, Starts DEF RunApply, FactoryRefuses, review, backups, window, workers
<1>10. ASSUME ExpireReview PROVE Peripheral'
  BY <1>10 DEF ExpireReview, review, backups, window, workers
<1>11. ASSUME PlanExpires PROVE Peripheral'
  BY <1>11 DEF PlanExpires, review, backups, window, workers
<1>12. ASSUME ExpirePreview PROVE Peripheral'
  BY <1>12 DEF ExpirePreview, PreviewDropped, review, backups, window, workers
<1>13. ASSUME ToggleRestoreApproval PROVE Peripheral'
  BY <1>13 DEF ToggleRestoreApproval, review, backups, window, workers
<1>14. ASSUME Cancel PROVE Peripheral'
  BY <1>14 DEF Cancel, review, backups, window, workers
<1>15. ASSUME RefreshBackups PROVE Peripheral'
  BY <1>15, Starts DEF RefreshBackups, PreviewDropped, review, backups, window, workers
<1>16. ASSUME SelectBackup PROVE Peripheral'
  BY <1>16, Starts DEF SelectBackup, PreviewDropped, review, backups, window, workers
<1>17. ASSUME RunRestore PROVE Peripheral'
  BY <1>17, Starts DEF RunRestore, FactoryRefuses, review, backups, window, workers
<1>18. ASSUME CancelRestore PROVE Peripheral'
  BY <1>18 DEF CancelRestore, review, backups, window, workers
<1>19. ASSUME UserCloses PROVE Peripheral'
  BY <1>19 DEF UserCloses, CloseEvent, review, backups, window, workers
<1>20. ASSUME ScheduledClose PROVE Peripheral'
  BY <1>20 DEF ScheduledClose, CloseEvent, review, backups, window, workers
<1>21. ASSUME NEW r \in runners, TaskEnds(r) PROVE Peripheral'
  BY <1>21 DEF TaskEnds, review, backups, window, workers
<1>22. ASSUME NEW r \in runners, DiagnosisDelivered(r) PROVE Peripheral'
  BY <1>22 DEF DiagnosisDelivered, ReviewDropped, NewPlan, review, backups, window,
       workers
<1>23. ASSUME NEW r \in runners, PlanDelivered(r) PROVE Peripheral'
  BY <1>23 DEF PlanDelivered, review, backups, window, workers
<1>24. ASSUME NEW r \in runners, ApplyDelivered(r) PROVE Peripheral'
  BY <1>24 DEF ApplyDelivered, review, backups, window, workers
<1>25. ASSUME NEW r \in runners, InventoryDelivered(r) PROVE Peripheral'
  BY <1>25 DEF InventoryDelivered, PreviewDropped, review, backups, window, workers
<1>26. ASSUME NEW r \in runners, PreviewDelivered(r) PROVE Peripheral'
  BY <1>26 DEF PreviewDelivered, review, backups, window, workers
<1>27. ASSUME NEW r \in runners, RestoreDelivered(r) PROVE Peripheral'
  BY <1>27 DEF RestoreDelivered, PreviewDropped, review, backups, window, workers
<1>28. ASSUME NEW r \in runners, WorkerFinished(r) PROVE Peripheral'
  BY <1>28 DEF WorkerFinished, review, backups, window, workers
<1>29. ASSUME NEW r \in runners, RunnerPopped(r) PROVE Peripheral'
  BY <1>29 DEF RunnerPopped, review, backups, window, workers
<1>30. ASSUME ChangeLanguage PROVE Peripheral'
  BY <1>30 DEF ChangeLanguage, review, backups, window, workers
<1>. QED  BY <1>1, <1>2, <1>3, <1>4, <1>5, <1>6, <1>7, <1>8, <1>9, <1>10, <1>11, <1>12,
     <1>13, <1>14, <1>15, <1>16, <1>17, <1>18, <1>19, <1>20, <1>21, <1>22, <1>23, <1>24,
     <1>25, <1>26, <1>27, <1>28, <1>29, <1>30 DEF Next, User, Clock, Worker, Slot

\* What the review holds.
LEMMA ReviewNext == ASSUME Typed, Next PROVE ReviewOK'
<1>0. /\ ReviewOK /\ 0 \in 0..MaxPlans /\ state.report \in HostOrNone /\ None \in HostOrNone
      /\ \A r \in runners : /\ r.change \in 0..MaxPlans /\ r.change <= planned /\ r.host \in Hosts
                            /\ r.kind = "apply" => r.change # 0
  BY GuiBoundsAssumption
     DEF Typed, TypeOK, ReviewOK, RunnersOK, RunnerType, Numbered, GuiState, HostOrNone
<1>. USE <1>0, GuiBoundsAssumption DEF ReviewOK, HostOrNone
<1>1. ASSUME QuietSlots PROVE ReviewOK'
  BY <1>1 DEF QuietSlots
<1>2. ASSUME NEW h \in Hosts, SelectHost(h) PROVE ReviewOK'
  BY <1>2 DEF SelectHost, review, history
<1>3. ASSUME NEW sel \in Selections \union {"none"}, ChangeSelection(sel) PROVE ReviewOK'
  <2>. DEFINE p == [plan EXCEPT !.sel = sel, !.change = 0]
  <2>1. /\ p \in [host : HostOrNone, sel : Selections \union {"none"}, change : 0..MaxPlans]
        /\ p.change = 0
    OBVIOUS
  <2>2. plan' = p /\ approvalRec' = 0 /\ outcome' = "none" /\ UNCHANGED <<planned, settled>>
    BY <1>3 DEF ChangeSelection, ReviewDropped, history
  <2>. HIDE DEF p
  <2>. QED  BY <2>1, <2>2
<1>4. ASSUME StartDiagnosis PROVE ReviewOK'
  BY <1>4 DEF StartDiagnosis, review, history
<1>5. ASSUME ChangeProfile PROVE ReviewOK'
  BY <1>5 DEF ChangeProfile, ReviewDropped, NewPlan, review, history
<1>6. ASSUME ReviewSelected PROVE ReviewOK'
  BY <1>6 DEF ReviewSelected, review, history
<1>7. ASSUME TickApproval PROVE ReviewOK'
  BY <1>7 DEF TickApproval, review, history
<1>8. ASSUME UntickApproval PROVE ReviewOK'
  BY <1>8 DEF UntickApproval, review, history
<1>9. ASSUME PrepareApply PROVE ReviewOK'
  BY <1>9 DEF PrepareApply, review, history
<1>10. ASSUME RunApply PROVE ReviewOK'
  BY <1>10 DEF RunApply, review, history
<1>11. ASSUME ExpireReview PROVE ReviewOK'
  BY <1>11 DEF ExpireReview, review, history
<1>12. ASSUME NEW r \in runners, TaskEnds(r) PROVE ReviewOK'
  <2>1. UNCHANGED <<plan, approvalRec, outcome, settled>>
    BY <1>12 DEF TaskEnds, review, history
  <2>2. planned' \in 0..MaxPlans /\ planned <= planned'
    BY <1>12, TaskEndsOK
  <2>3. plan.change \in 0..MaxPlans
    OBVIOUS
  <2>. QED  BY <2>1, <2>2, <2>3
<1>13. ASSUME NEW r \in runners, DiagnosisDelivered(r) PROVE ReviewOK'
  BY <1>13 DEF DiagnosisDelivered, ReviewDropped, NewPlan, review, history
<1>14. ASSUME NEW r \in runners, PlanDelivered(r) PROVE ReviewOK'
  BY <1>14 DEF PlanDelivered, review, history
<1>15. ASSUME NEW r \in runners, ApplyDelivered(r) PROVE ReviewOK'
  <2>1. UNCHANGED <<plan, approvalRec, planned>> /\ r.kind = "apply"
    BY <1>15 DEF ApplyDelivered
  <2>2. settled' = settled \/ settled' = settled \union {r.change}
    BY <1>15 DEF ApplyDelivered
  <2>3. outcome' \in ApplyStatus \union {"none"}
    BY <1>15 DEF ApplyDelivered
  <2>4. r.change \in 1..planned
    BY <2>1
  <2>. QED  BY <2>1, <2>2, <2>3, <2>4
<1>. QED  BY <1>1, <1>2, <1>3, <1>4, <1>5, <1>6, <1>7, <1>8, <1>9, <1>10, <1>11, <1>12,
     <1>13, <1>14, <1>15, Steps DEF Telling, Inv, Typed

\* Which steps record what a worker reported.
LEMMA HistoryNext ==
    ASSUME Typed, Next
    PROVE  \/ UNCHANGED <<settled, told>>
           \/ \E c : /\ settled' = settled \union {c}
                     /\ told' = told \/ told' = told \union {c}
<1>1. ASSUME QuietSlots PROVE UNCHANGED <<settled, told>>
  BY <1>1 DEF QuietSlots
<1>2. ASSUME NEW r \in runners, ApplyDelivered(r)
      PROVE  \/ UNCHANGED <<settled, told>>
             \/ /\ settled' = settled \union {r.change}
                /\ told' = told \/ told' = told \union {r.change}
  BY <1>2 DEF ApplyDelivered
<1>3. ASSUME Telling, ~\E r \in runners : ApplyDelivered(r) PROVE UNCHANGED <<settled, told>>
  BY <1>3 DEF Telling, SelectHost, ChangeSelection, StartDiagnosis, ChangeProfile,
     ReviewSelected, TickApproval, UntickApproval, PrepareApply, RunApply, ExpireReview,
     TaskEnds, DiagnosisDelivered, PlanDelivered, history
<1>. QED  BY <1>1, <1>2, <1>3, Steps DEF Typed

\* Run after a step: as the page was rendered, or as it was before, and then
\* the page is no busier, was told nothing and has no other approval record.
Kept == /\ UNCHANGED <<runButton, told>> /\ approvalRec' \in {approvalRec, 0}
        /\ Busy' => Busy

LEMMA ButtonNext == ASSUME Typed, Next PROVE Render \/ Kept
<1>0. state \in GuiState
  BY DEF Typed, TypeOK
<1>. DEFINE Goal == Render \/ Kept
<1>1. ASSUME ChangeLanguage \/ StartDiagnosis \/ ReviewSelected \/ PrepareApply \/ RunApply
             \/ Cancel \/ RunRestore \/ ExpireReview \/ \E h \in Hosts : SelectHost(h)
      PROVE  Goal
  BY <1>1 DEF ChangeLanguage, StartDiagnosis, ReviewSelected, PrepareApply, RunApply, Cancel,
     RunRestore, ExpireReview, SelectHost
<1>2. ASSUME NEW sel, ChangeSelection(sel) PROVE Goal
  BY <1>0, <1>2 DEF ChangeSelection, ReviewDropped, Invalidated, GuiState, Kept, Busy, history
<1>3. ASSUME ChangeProfile PROVE Goal
  BY <1>0, <1>3 DEF ChangeProfile, ReviewDropped, Invalidated, GuiState, Kept, Busy, history
<1>4. ASSUME TickApproval PROVE Goal
  BY <1>0, <1>4 DEF TickApproval, RenderIf, GuiState, Kept, Busy, history
<1>5. ASSUME UntickApproval PROVE Goal
  BY <1>0, <1>5 DEF UntickApproval, GuiState, Kept, Busy, history
<1>6. ASSUME RefreshBackups \/ SelectBackup \/ ToggleRestoreApproval \/ CancelRestore
             \/ PlanExpires \/ ExpirePreview
      PROVE  Goal
  BY <1>6 DEF RefreshBackups, SelectBackup, ToggleRestoreApproval, CancelRestore,
     PlanExpires, ExpirePreview, review, Kept, Busy, history
<1>7. ASSUME UserCloses \/ ScheduledClose PROVE Goal
  BY <1>7 DEF UserCloses, ScheduledClose, CloseEvent, review, Kept, Busy, history
<1>8. ASSUME NEW r \in runners, TaskEnds(r) \/ RunnerPopped(r) \/ InventoryDelivered(r)
                                    \/ PreviewDelivered(r)
      PROVE  Goal
  BY <1>8 DEF TaskEnds, RunnerPopped, InventoryDelivered, PreviewDelivered, review, Kept,
     Busy, history
<1>9. ASSUME NEW r \in runners, RestoreDelivered(r) \/ WorkerFinished(r) PROVE Goal
  BY <1>9 DEF RestoreDelivered, WorkerFinished, RenderIf, review, Kept, Busy, history
<1>10. ASSUME NEW r \in runners, DiagnosisDelivered(r) PROVE Goal
  BY <1>10 DEF DiagnosisDelivered, RenderIf, review, Kept, Busy, history
<1>11. ASSUME NEW r \in runners, PlanDelivered(r) PROVE Goal
  BY <1>11 DEF PlanDelivered, RenderIf, review, Kept, Busy, history
<1>12. ASSUME NEW r \in runners, ApplyDelivered(r) PROVE Goal
  BY <1>12 DEF ApplyDelivered, RenderIf, review, Kept, Busy
<1>. QED  BY <1>1, <1>2, <1>3, <1>4, <1>5, <1>6, <1>7, <1>8, <1>9, <1>10, <1>11, <1>12
          DEF Next, User, Clock, Worker, Slot

LEMMA TypedNext == ASSUME Typed, Next PROVE TypeOK' /\ RunnersOK' /\ Numbered'
<1>1. /\ state' \in GuiState /\ RunnersOK' /\ Peripheral' /\ ReviewOK'
      /\ settled' \subseteq 1..MaxPlans
  BY StateType, RunnersNext, PeripheralNext, ReviewNext, GuiBoundsAssumption DEF ReviewOK
<1>2. runButton' \in BOOLEAN
  <2>1. Runnable' \in BOOLEAN
    BY Zenon DEF Runnable
  <2>. QED  BY <2>1, ButtonNext, Zenon DEF Typed, TypeOK, Render, Kept
<1>3. told' \subseteq settled'
  BY HistoryNext DEF Typed, TypeOK
<1>. QED  BY <1>1, <1>2, <1>3 DEF TypeOK, Peripheral, ReviewOK, RunnersOK, RunnerType, Numbered

----------------------------------------------------------------------------
(* The page and its plan.                                                  *)

\* A planning result: taken when the plan waits for it, and then its change
\* set is the first of that plan.
LEMMA PlanArrives ==
    ASSUME Inv, NEW r \in runners, PlanDelivered(r)
    PROVE  /\ UNCHANGED <<approvalRec, outcome, planned, settled, told>> /\ At(r, "delivered")
           /\ \/ /\ Fruit(r) /\ Promises(r) /\ plan.change = 0 /\ r.change # 0
                 /\ plan' = [plan EXCEPT !.change = r.change]
                 /\ \/ Busy /\ state' = PlanFinished(state, r.change)
                    \/ Busy /\ state' = PlanFailed(state, "stale_plan")
                    \/ ~Busy /\ state' = state
              \/ /\ plan' = plan
                 /\ \/ Busy /\ state' = PlanFailed(state, "other")
                    \/ ~Busy /\ state' = state
<1>1. OnePlanning /\ FruitIsNew
  BY DEF Inv
<1>2. UNCHANGED <<approvalRec, outcome, planned, settled, told>> /\ At(r, "delivered")
  BY DEF PlanDelivered, history
<1>3. CASE r.result = "planned" /\ Fits(r)
  <2>1. Fruit(r) /\ Promises(r)
    BY <1>3 DEF PlanDelivered, Fruit, Promises
  <2>2. plan.change = 0 /\ r.change # 0
    BY <1>1, <2>1 DEF OnePlanning, FruitIsNew
  <2>3. /\ plan' = [plan EXCEPT !.change = r.change]
        /\ \/ Busy /\ state' = PlanFinished(state, r.change)
           \/ Busy /\ state' = PlanFailed(state, "stale_plan")
           \/ ~Busy /\ state' = state
    BY <1>3 DEF PlanDelivered
  <2>. QED  BY <1>2, <2>1, <2>2, <2>3
<1>4. CASE ~(r.result = "planned" /\ Fits(r))
  BY <1>2, <1>4 DEF PlanDelivered
<1>. QED  BY <1>3, <1>4

LEMMA ReportNext == ASSUME Inv, Next PROVE ReportIsOfPlan'
<1>0. /\ state \in GuiState /\ ReportIsOfPlan
      /\ plan \in [host : HostOrNone, sel : Selections \union {"none"}, change : 0..MaxPlans]
  BY DEF Inv, Typed, TypeOK
<1>. USE <1>0 DEF GuiState, Busy, ReportIsOfPlan
<1>1. ASSUME QuietSlots PROVE ReportIsOfPlan'
  BY <1>1 DEF QuietSlots, CancelRequested
<1>2. ASSUME NEW h \in Hosts, SelectHost(h) PROVE ReportIsOfPlan'
  BY <1>2 DEF SelectHost, Selected, Fresh, PreviewDropped, review
<1>3. ASSUME NEW sel \in Selections \union {"none"}, ChangeSelection(sel) PROVE ReportIsOfPlan'
  BY <1>3 DEF ChangeSelection, ReviewDropped, Invalidated, review
<1>4. ASSUME StartDiagnosis PROVE ReportIsOfPlan'
  BY <1>4, ZenonT(40) DEF StartDiagnosis, DiagnosisBegun, DiagnosisFailed, review
<1>5. ASSUME ChangeProfile PROVE ReportIsOfPlan'
  BY <1>5 DEF ChangeProfile, ReviewDropped, Invalidated, NewPlan, review
<1>6. ASSUME ReviewSelected PROVE ReportIsOfPlan'
  BY <1>6, ZenonT(40) DEF ReviewSelected, PlanBegun, PlanFailed, SelectionHash, review
<1>7. ASSUME TickApproval PROVE ReportIsOfPlan'
  BY <1>7 DEF TickApproval, Approvable, Approved, Expired, review
<1>8. ASSUME UntickApproval PROVE ReportIsOfPlan'
  BY <1>8 DEF UntickApproval, Approvable, Approved, review
<1>9. ASSUME PrepareApply PROVE ReportIsOfPlan'
  BY <1>9, ZenonT(40) DEF PrepareApply, Approvable, Approved, ResultsPrepared, Expired, review
<1>10. ASSUME RunApply PROVE ReportIsOfPlan'
  BY <1>10, ZenonT(40) DEF RunApply, ApplyBegun, ApplyFinished, review
<1>11. ASSUME ExpireReview PROVE ReportIsOfPlan'
  BY <1>11 DEF ExpireReview, Expired, review
<1>12. ASSUME NEW r \in runners, TaskEnds(r) PROVE ReportIsOfPlan'
  BY <1>12 DEF TaskEnds, review
<1>13. ASSUME NEW r \in runners, DiagnosisDelivered(r) PROVE ReportIsOfPlan'
  <2>1. CASE UNCHANGED <<state, plan>>
    BY <2>1
  <2>2. CASE /\ r.host = state.host /\ NewPlan(r.host)
             /\ state' = Invalidated(DiagnosisFinished(state, r.host, r.result))
    BY <2>2 DEF NewPlan, Invalidated, DiagnosisFinished
  <2>3. CASE UNCHANGED plan /\ state' = DiagnosisFailed(state)
    BY <2>3 DEF DiagnosisFailed
  <2>. QED  BY <1>13, <2>1, <2>2, <2>3 DEF DiagnosisDelivered, ReviewDropped, review
<1>14. ASSUME NEW r \in runners, PlanDelivered(r) PROVE ReportIsOfPlan'
  BY <1>14, PlanArrives, ZenonT(40) DEF PlanFinished, PlanFailed
<1>15. ASSUME NEW r \in runners, ApplyDelivered(r) PROVE ReportIsOfPlan'
  BY <1>15 DEF ApplyDelivered, ApplyFinished, review
<1>. QED  BY <1>1, <1>2, <1>3, <1>4, <1>5, <1>6, <1>7, <1>8, <1>9, <1>10, <1>11, <1>12,
     <1>13, <1>14, <1>15, Steps DEF Telling, Inv, Typed

LEMMA HashNext == ASSUME Inv, Next PROVE HashIsOfPlan'
<1>0. /\ state \in GuiState /\ ReportIsOfPlan /\ HashIsOfPlan /\ OnePlanning
      /\ plan \in [host : HostOrNone, sel : Selections \union {"none"}, change : 0..MaxPlans]
  BY DEF Inv, Typed, TypeOK
<1>. USE <1>0 DEF GuiState, Busy, HashIsOfPlan, Reviewing
<1>1. ASSUME QuietSlots PROVE HashIsOfPlan'
  BY <1>1 DEF QuietSlots, CancelRequested
<1>2. ASSUME NEW h \in Hosts, SelectHost(h) PROVE HashIsOfPlan'
  BY <1>2 DEF SelectHost, Selected, Fresh, PreviewDropped, review
<1>3. ASSUME NEW sel \in Selections \union {"none"}, ChangeSelection(sel) PROVE HashIsOfPlan'
  BY <1>3 DEF ChangeSelection, ReviewDropped, Invalidated, review
<1>4. ASSUME StartDiagnosis PROVE HashIsOfPlan'
  BY <1>4 DEF StartDiagnosis, DiagnosisBegun, DiagnosisFailed, review
<1>5. ASSUME ChangeProfile PROVE HashIsOfPlan'
  BY <1>5 DEF ChangeProfile, ReviewDropped, Invalidated, NewPlan, review
<1>6. ASSUME ReviewSelected PROVE HashIsOfPlan'
  BY <1>6 DEF ReviewSelected, PlanBegun, PlanFailed, SelectionHash, review
<1>7. ASSUME TickApproval PROVE HashIsOfPlan'
  BY <1>7 DEF TickApproval, Approvable, Approved, Expired, review
<1>8. ASSUME UntickApproval PROVE HashIsOfPlan'
  BY <1>8 DEF UntickApproval, Approvable, Approved, review
<1>9. ASSUME PrepareApply PROVE HashIsOfPlan'
  BY <1>9 DEF PrepareApply, Approvable, Approved, ResultsPrepared, Expired, review
<1>10. ASSUME RunApply PROVE HashIsOfPlan'
  BY <1>10 DEF RunApply, ApplyBegun, ApplyFinished, review
<1>11. ASSUME ExpireReview PROVE HashIsOfPlan'
  BY <1>11 DEF ExpireReview, Expired, review
<1>12. ASSUME NEW r \in runners, TaskEnds(r) PROVE HashIsOfPlan'
  BY <1>12 DEF TaskEnds, review
<1>13. ASSUME NEW r \in runners, DiagnosisDelivered(r) PROVE HashIsOfPlan'
  BY <1>13 DEF DiagnosisDelivered, DiagnosisFinished, DiagnosisFailed, ReviewDropped,
       Invalidated, NewPlan, review
<1>14. ASSUME NEW r \in runners, PlanDelivered(r) PROVE HashIsOfPlan'
  BY <1>14, PlanArrives, ZenonT(40) DEF PlanFinished, PlanFailed
<1>15. ASSUME NEW r \in runners, ApplyDelivered(r) PROVE HashIsOfPlan'
  BY <1>15 DEF ApplyDelivered, ApplyFinished, review
<1>. QED  BY <1>1, <1>2, <1>3, <1>4, <1>5, <1>6, <1>7, <1>8, <1>9, <1>10, <1>11, <1>12,
     <1>13, <1>14, <1>15, Steps DEF Telling, Inv, Typed

LEMMA RecordNext == ASSUME Inv, Next PROVE RecordIsOfPlan'
<1>0. /\ state \in GuiState /\ ReportIsOfPlan /\ RecordIsOfPlan /\ OnePlanning
      /\ plan \in [host : HostOrNone, sel : Selections \union {"none"}, change : 0..MaxPlans]
  BY DEF Inv, Typed, TypeOK
<1>. USE <1>0 DEF GuiState, Busy, RecordIsOfPlan
<1>1. ASSUME QuietSlots PROVE RecordIsOfPlan'
  BY <1>1 DEF QuietSlots, CancelRequested
<1>2. ASSUME NEW h \in Hosts, SelectHost(h) PROVE RecordIsOfPlan'
  BY <1>2 DEF SelectHost, Selected, Fresh, PreviewDropped, review
<1>3. ASSUME NEW sel \in Selections \union {"none"}, ChangeSelection(sel) PROVE RecordIsOfPlan'
  BY <1>3 DEF ChangeSelection, ReviewDropped, Invalidated, review
<1>4. ASSUME StartDiagnosis PROVE RecordIsOfPlan'
  BY <1>4 DEF StartDiagnosis, DiagnosisBegun, DiagnosisFailed, review
<1>5. ASSUME ChangeProfile PROVE RecordIsOfPlan'
  BY <1>5 DEF ChangeProfile, ReviewDropped, Invalidated, NewPlan, review
<1>6. ASSUME ReviewSelected PROVE RecordIsOfPlan'
  BY <1>6 DEF ReviewSelected, PlanBegun, PlanFailed, SelectionHash, review
<1>7. ASSUME TickApproval PROVE RecordIsOfPlan'
  BY <1>7 DEF TickApproval, Approvable, Approved, Expired, review
<1>8. ASSUME UntickApproval PROVE RecordIsOfPlan'
  BY <1>8 DEF UntickApproval, Approvable, Approved, review
<1>9. ASSUME PrepareApply PROVE RecordIsOfPlan'
  BY <1>9 DEF PrepareApply, Approvable, Approved, ResultsPrepared, Expired, review
<1>10. ASSUME RunApply PROVE RecordIsOfPlan'
  BY <1>10 DEF RunApply, ApplyBegun, ApplyFinished, review
<1>11. ASSUME ExpireReview PROVE RecordIsOfPlan'
  BY <1>11 DEF ExpireReview, Expired, review
<1>12. ASSUME NEW r \in runners, TaskEnds(r) PROVE RecordIsOfPlan'
  BY <1>12 DEF TaskEnds, review
<1>13. ASSUME NEW r \in runners, DiagnosisDelivered(r) PROVE RecordIsOfPlan'
  BY <1>13 DEF DiagnosisDelivered, DiagnosisFinished, DiagnosisFailed, ReviewDropped,
       Invalidated, NewPlan, review
<1>14. ASSUME NEW r \in runners, PlanDelivered(r) PROVE RecordIsOfPlan'
  BY <1>14, PlanArrives DEF PlanFinished, PlanFailed
<1>15. ASSUME NEW r \in runners, ApplyDelivered(r) PROVE RecordIsOfPlan'
  BY <1>15 DEF ApplyDelivered, ApplyFinished, review
<1>. QED  BY <1>1, <1>2, <1>3, <1>4, <1>5, <1>6, <1>7, <1>8, <1>9, <1>10, <1>11, <1>12,
     <1>13, <1>14, <1>15, Steps DEF Telling, Inv, Typed

----------------------------------------------------------------------------
(* One worker at a host.                                                   *)

\* Every worker was there before, with its host and its task.
Hosted == \A n \in runners' : \E r \in runners : n.host = r.host /\ n.kind = r.kind

Starting == StartDiagnosis \/ ReviewSelected \/ RunApply \/ RefreshBackups \/ SelectBackup
                \/ RunRestore

LEMMA AtHosted == ASSUME RunnersOK, HostExclusive, NEW r \in runners, NEW stage, At(r, stage)
                  PROVE  HostExclusive' /\ Hosted
BY DEF At, RunnersOK, RunnerType, HostExclusive, Hosted

LEMMA SameHosted == ASSUME HostExclusive, runners' = runners PROVE HostExclusive' /\ Hosted
BY DEF HostExclusive, Hosted

LEMMA CancelHosted == ASSUME RunnersOK, HostExclusive, NEW hosts, runners' = WithCancel(hosts)
                      PROVE  HostExclusive' /\ Hosted
<1>. DEFINE Told(r) == IF r.host \in hosts THEN [r EXCEPT !.cancel = TRUE] ELSE r
<1>1. \A r \in runners : Told(r).host = r.host /\ Told(r).kind = r.kind
  BY DEF RunnersOK, RunnerType
<1>2. \A n \in runners' : \E r \in runners : n = Told(r)
  BY DEF WithCancel
<1>. HIDE DEF Told
<1>. QED  BY <1>1, <1>2 DEF HostExclusive, Hosted

LEMMA StartExclusive == ASSUME HostExclusive, NEW r, StartRunner(r) \/ StartRefused(r)
                        PROVE  HostExclusive'
BY DEF StartRunner, StartRefused, IsActive, HostExclusive

LEMMA ExclusiveNext == ASSUME RunnersOK, HostExclusive, Next
                       PROVE  HostExclusive' /\ (Hosted \/ Starting)
<1>. USE DEF Starting
<1>. DEFINE Goal == HostExclusive' /\ (Hosted \/ Starting)
<1>1. ASSUME NEW h \in Hosts, SelectHost(h) PROVE Goal
  BY <1>1, SameHosted DEF SelectHost, PreviewDropped, workers
<1>2. ASSUME NEW sel \in Selections \union {"none"}, ChangeSelection(sel) PROVE Goal
  BY <1>2, SameHosted DEF ChangeSelection, ReviewDropped, workers
<1>3. ASSUME StartDiagnosis PROVE Goal
  BY <1>3, StartExclusive DEF StartDiagnosis
<1>4. ASSUME ChangeProfile PROVE Goal
  BY <1>4 DEF ChangeProfile, Superseded, HostExclusive, Hosted, RunnersOK, RunnerType
<1>5. ASSUME ReviewSelected PROVE Goal
  BY <1>5, StartExclusive, SameHosted DEF ReviewSelected, FactoryRefuses
<1>6. ASSUME TickApproval PROVE Goal
  BY <1>6, SameHosted DEF TickApproval, workers
<1>7. ASSUME UntickApproval PROVE Goal
  BY <1>7, SameHosted DEF UntickApproval, workers
<1>8. ASSUME PrepareApply PROVE Goal
  BY <1>8, SameHosted DEF PrepareApply, workers
<1>9. ASSUME RunApply PROVE Goal
  BY <1>9, StartExclusive, SameHosted DEF RunApply, FactoryRefuses
<1>10. ASSUME ExpireReview PROVE Goal
  BY <1>10, SameHosted DEF ExpireReview, workers
<1>11. ASSUME PlanExpires PROVE Goal
  BY <1>11, SameHosted DEF PlanExpires, workers
<1>12. ASSUME ExpirePreview PROVE Goal
  BY <1>12, SameHosted DEF ExpirePreview, PreviewDropped, workers
<1>13. ASSUME ToggleRestoreApproval PROVE Goal
  BY <1>13, SameHosted DEF ToggleRestoreApproval, workers
<1>14. ASSUME Cancel PROVE Goal
  BY <1>14, CancelHosted DEF Cancel, workers
<1>15. ASSUME RefreshBackups PROVE Goal
  BY <1>15, StartExclusive DEF RefreshBackups
<1>16. ASSUME SelectBackup PROVE Goal
  BY <1>16, StartExclusive DEF SelectBackup
<1>17. ASSUME RunRestore PROVE Goal
  BY <1>17, StartExclusive, SameHosted DEF RunRestore, FactoryRefuses
<1>18. ASSUME CancelRestore PROVE Goal
  BY <1>18, CancelHosted DEF CancelRestore, workers
<1>19. ASSUME UserCloses PROVE Goal
  BY <1>19, CancelHosted, SameHosted DEF UserCloses, CloseEvent, workers
<1>20. ASSUME ScheduledClose PROVE Goal
  BY <1>20, CancelHosted, SameHosted DEF ScheduledClose, CloseEvent, workers
<1>21. ASSUME NEW r \in runners, TaskEnds(r) PROVE Goal
  <2>1. PICK n : n.host = r.host /\ n.kind = r.kind /\ runners' = (runners \ {r}) \union {n}
    BY <1>21 DEF TaskEnds, RunnersOK, RunnerType
  <2>. QED  BY <2>1 DEF HostExclusive, Hosted
<1>22. ASSUME NEW r \in runners, DiagnosisDelivered(r) PROVE Goal
  <2>1. CASE At(r, "delivered")
    BY <1>22, <2>1, AtHosted DEF DiagnosisDelivered
  <2>2. CASE runners' = Superseded(runners \ {r}) \union {[r EXCEPT !.stage = "delivered"]}
    <3>1. /\ [r EXCEPT !.stage = "delivered"].host = r.host
          /\ [r EXCEPT !.stage = "delivered"].kind = r.kind
      BY DEF RunnersOK, RunnerType
    <3>. QED  BY <2>2, <3>1 DEF HostExclusive, Hosted, Superseded, RunnersOK, RunnerType
  <2>. QED  BY <1>22, <2>1, <2>2 DEF DiagnosisDelivered
<1>23. ASSUME NEW r \in runners, PlanDelivered(r) PROVE Goal
  BY <1>23, AtHosted DEF PlanDelivered, workers
<1>24. ASSUME NEW r \in runners, ApplyDelivered(r) PROVE Goal
  BY <1>24, AtHosted DEF ApplyDelivered, workers
<1>25. ASSUME NEW r \in runners, InventoryDelivered(r) PROVE Goal
  BY <1>25, AtHosted DEF InventoryDelivered, PreviewDropped, workers
<1>26. ASSUME NEW r \in runners, PreviewDelivered(r) PROVE Goal
  BY <1>26, AtHosted DEF PreviewDelivered, workers
<1>27. ASSUME NEW r \in runners, RestoreDelivered(r) PROVE Goal
  BY <1>27, AtHosted DEF RestoreDelivered, PreviewDropped, workers
<1>28. ASSUME NEW r \in runners, WorkerFinished(r) PROVE Goal
  BY <1>28, AtHosted DEF WorkerFinished, workers
<1>29. ASSUME NEW r \in runners, RunnerPopped(r) PROVE Goal
  BY <1>29 DEF RunnerPopped, HostExclusive, Hosted
<1>30. ASSUME ChangeLanguage PROVE Goal
  BY <1>30, SameHosted DEF ChangeLanguage, workers
<1>. QED  BY <1>1, <1>2, <1>3, <1>4, <1>5, <1>6, <1>7, <1>8, <1>9, <1>10, <1>11, <1>12,
     <1>13, <1>14, <1>15, <1>16, <1>17, <1>18, <1>19, <1>20, <1>21, <1>22, <1>23, <1>24,
     <1>25, <1>26, <1>27, <1>28, <1>29, <1>30 DEF Next, User, Clock, Worker, Slot

LEMMA PreviewNext == ASSUME RunnersOK, PreviewIsLocal, Next PROVE PreviewIsLocal'
<1>1. ASSUME NEW h \in Hosts, SelectHost(h) PROVE PreviewIsLocal'
  BY <1>1 DEF SelectHost, PreviewDropped, backups, PreviewIsLocal
<1>2. ASSUME NEW sel \in Selections \union {"none"}, ChangeSelection(sel) PROVE PreviewIsLocal'
  BY <1>2 DEF ChangeSelection, backups, PreviewIsLocal
<1>3. ASSUME StartDiagnosis PROVE PreviewIsLocal'
  BY <1>3 DEF StartDiagnosis, backups, PreviewIsLocal
<1>4. ASSUME ChangeProfile PROVE PreviewIsLocal'
  BY <1>4 DEF ChangeProfile, backups, PreviewIsLocal
<1>5. ASSUME ReviewSelected PROVE PreviewIsLocal'
  BY <1>5 DEF ReviewSelected, backups, PreviewIsLocal
<1>6. ASSUME TickApproval PROVE PreviewIsLocal'
  BY <1>6 DEF TickApproval, backups, PreviewIsLocal
<1>7. ASSUME UntickApproval PROVE PreviewIsLocal'
  BY <1>7 DEF UntickApproval, backups, PreviewIsLocal
<1>8. ASSUME PrepareApply PROVE PreviewIsLocal'
  BY <1>8 DEF PrepareApply, backups, PreviewIsLocal
<1>9. ASSUME RunApply PROVE PreviewIsLocal'
  BY <1>9 DEF RunApply, backups, PreviewIsLocal
<1>10. ASSUME ExpireReview PROVE PreviewIsLocal'
  BY <1>10 DEF ExpireReview, backups, PreviewIsLocal
<1>11. ASSUME PlanExpires PROVE PreviewIsLocal'
  BY <1>11 DEF PlanExpires, backups, PreviewIsLocal
<1>12. ASSUME ExpirePreview PROVE PreviewIsLocal'
  BY <1>12 DEF ExpirePreview, PreviewDropped, backups, PreviewIsLocal
<1>13. ASSUME ToggleRestoreApproval PROVE PreviewIsLocal'
  BY <1>13 DEF ToggleRestoreApproval, backups, PreviewIsLocal
<1>14. ASSUME Cancel PROVE PreviewIsLocal'
  BY <1>14 DEF Cancel, backups, PreviewIsLocal
<1>15. ASSUME RefreshBackups PROVE PreviewIsLocal'
  BY <1>15 DEF RefreshBackups, PreviewDropped, backups, PreviewIsLocal
<1>16. ASSUME SelectBackup PROVE PreviewIsLocal'
  BY <1>16 DEF SelectBackup, PreviewDropped, backups, PreviewIsLocal
<1>17. ASSUME RunRestore PROVE PreviewIsLocal'
  BY <1>17 DEF RunRestore, backups, PreviewIsLocal
<1>18. ASSUME CancelRestore PROVE PreviewIsLocal'
  BY <1>18 DEF CancelRestore, backups, PreviewIsLocal
<1>19. ASSUME UserCloses PROVE PreviewIsLocal'
  BY <1>19 DEF UserCloses, backups, PreviewIsLocal
<1>20. ASSUME ScheduledClose PROVE PreviewIsLocal'
  BY <1>20 DEF ScheduledClose, backups, PreviewIsLocal
<1>21. ASSUME NEW r \in runners, TaskEnds(r) PROVE PreviewIsLocal'
  BY <1>21 DEF TaskEnds, backups, PreviewIsLocal
<1>22. ASSUME NEW r \in runners, DiagnosisDelivered(r) PROVE PreviewIsLocal'
  BY <1>22 DEF DiagnosisDelivered, backups, PreviewIsLocal
<1>23. ASSUME NEW r \in runners, PlanDelivered(r) PROVE PreviewIsLocal'
  BY <1>23 DEF PlanDelivered, backups, PreviewIsLocal
<1>24. ASSUME NEW r \in runners, ApplyDelivered(r) PROVE PreviewIsLocal'
  BY <1>24 DEF ApplyDelivered, backups, PreviewIsLocal
<1>25. ASSUME NEW r \in runners, InventoryDelivered(r) PROVE PreviewIsLocal'
  BY <1>25 DEF InventoryDelivered, PreviewDropped, backups, PreviewIsLocal
<1>26. ASSUME NEW r \in runners, PreviewDelivered(r) PROVE PreviewIsLocal'
  BY <1>26 DEF PreviewDelivered, PreviewIsLocal, RunnersOK
<1>27. ASSUME NEW r \in runners, RestoreDelivered(r) PROVE PreviewIsLocal'
  BY <1>27 DEF RestoreDelivered, PreviewDropped, backups, PreviewIsLocal
<1>28. ASSUME NEW r \in runners, WorkerFinished(r) PROVE PreviewIsLocal'
  BY <1>28 DEF WorkerFinished, backups, PreviewIsLocal
<1>29. ASSUME NEW r \in runners, RunnerPopped(r) PROVE PreviewIsLocal'
  BY <1>29 DEF RunnerPopped, backups, PreviewIsLocal
<1>30. ASSUME ChangeLanguage PROVE PreviewIsLocal'
  BY <1>30 DEF ChangeLanguage, backups, PreviewIsLocal
<1>. QED  BY <1>1, <1>2, <1>3, <1>4, <1>5, <1>6, <1>7, <1>8, <1>9, <1>10, <1>11, <1>12,
     <1>13, <1>14, <1>15, <1>16, <1>17, <1>18, <1>19, <1>20, <1>21, <1>22, <1>23, <1>24,
     <1>25, <1>26, <1>27, <1>28, <1>29, <1>30 DEF Next, User, Clock, Worker, Slot

----------------------------------------------------------------------------
(* The change sets that are on their way, and those that were applied.     *)

LEMMA TellingQuiet ==
    ASSUME RunnersOK, Telling
    PROVE  Quiet \/ ReviewSelected \/ RunApply \/ \E r \in runners : TaskEnds(r)
<1>1. ASSUME NEW h, SelectHost(h) PROVE Quiet
  BY <1>1, SameQuiet DEF SelectHost, workers
<1>2. ASSUME NEW sel, ChangeSelection(sel) PROVE Quiet
  BY <1>2, SameQuiet DEF ChangeSelection, workers
<1>3. ASSUME StartDiagnosis PROVE Quiet
  BY <1>3, StartQuiet DEF StartDiagnosis, Kinds
<1>4. ASSUME NEW rs \in SUBSET runners, NEW x \in Superseded(rs)
      PROVE  \E r \in runners : Follows(x, r)
  BY <1>4 DEF Superseded, Follows, RunnersOK, RunnerType
<1>5. ASSUME ChangeProfile PROVE Quiet
  BY <1>4, <1>5 DEF ChangeProfile, Quiet
<1>6. ASSUME TickApproval \/ UntickApproval \/ PrepareApply \/ ExpireReview PROVE Quiet
  BY <1>6, SameQuiet DEF TickApproval, UntickApproval, PrepareApply, ExpireReview, workers
<1>7. ASSUME NEW r \in runners, DiagnosisDelivered(r) PROVE Quiet
  <2>1. CASE At(r, "delivered")
    BY <2>1, AtQuiet
  <2>2. CASE runners' = Superseded(runners \ {r}) \union {[r EXCEPT !.stage = "delivered"]}
    <3>1. Follows([r EXCEPT !.stage = "delivered"], r)
      BY DEF Follows, RunnersOK, RunnerType
    <3>2. runners \ {r} \in SUBSET runners
      OBVIOUS
    <3>. QED  BY <1>4, <2>2, <3>1, <3>2 DEF Quiet
  <2>. QED  BY <1>7, <2>1, <2>2 DEF DiagnosisDelivered
<1>8. ASSUME NEW r \in runners, PlanDelivered(r) \/ ApplyDelivered(r) PROVE Quiet
  BY <1>8, AtQuiet DEF PlanDelivered, ApplyDelivered
<1>. QED  BY <1>1, <1>2, <1>3, <1>5, <1>6, <1>7, <1>8 DEF Telling

LEMMA QuietFruit == ASSUME Quiet, NEW n \in runners', Fruit(n)
                    PROVE  \E r \in runners : Fruit(r) /\ r.change = n.change /\ r.host = n.host
BY DEF Quiet, Follows, Fruit

LEMMA QuietStarted == ASSUME Quiet, settled' = settled, NEW c, Started(c)' PROVE Started(c)
BY DEF Quiet, Follows, Started

LEMMA QuietPromises == ASSUME Quiet, Typed, plan' = plan, NEW n \in runners', Promises(n)'
                       PROVE  \E r \in runners : Promises(r)
<1>1. plan.sel # "superseded"
  BY SelectionsAssumption DEF Typed, TypeOK
<1>. QED  BY <1>1 DEF Quiet, Follows, Promises, Fits

\* A task that ends: what it made, and that the other fields stay.
LEMMA Ended ==
    ASSUME Typed, NEW r \in runners, TaskEnds(r)
    PROVE  /\ UNCHANGED <<state, plan, approvalRec, outcome, settled>>
           /\ \E n : /\ runners' = (runners \ {r}) \union {n}
                     /\ n.host = r.host /\ n.kind = r.kind /\ n.sel = r.sel
                     /\ r.stage = "running" /\ n.stage = "ended"
                     /\ \/ n.result # "planned" /\ n.change = r.change
                        \/ /\ n.kind = "plan" /\ n.result = "planned"
                           /\ r.change = 0 /\ n.change = planned + 1
<1>1. UNCHANGED <<state, plan, approvalRec, outcome, settled>> /\ r.stage = "running"
  BY DEF TaskEnds, review
<1>2. PICK result \in Results[r.kind] :
        /\ result = "planned" => r.change = 0 /\ planned < MaxPlans
        /\ runners' = (runners \ {r}) \union
               {[r EXCEPT !.stage = "ended", !.result = result,
                          !.change = IF result = "planned" THEN planned + 1 ELSE r.change]}
  BY DEF TaskEnds
<1>. DEFINE n == [r EXCEPT !.stage = "ended", !.result = result,
                           !.change = IF result = "planned" THEN planned + 1 ELSE r.change]
<1>3. /\ n.host = r.host /\ n.kind = r.kind /\ n.sel = r.sel /\ n.stage = "ended"
      /\ n.result = result
      /\ n.change = IF result = "planned" THEN planned + 1 ELSE r.change
  BY DEF Typed, RunnersOK, RunnerType
<1>4. result = "planned" => r.kind = "plan"
  BY KindOfPlanned DEF Typed, RunnersOK, RunnerType
<1>5. runners' = (runners \ {r}) \union {n}
  BY <1>2
<1>. HIDE DEF n
<1>. QED  BY <1>1, <1>2, <1>3, <1>4, <1>5

\* Review starts a planning task, which owns no change set yet or that of the plan.
LEMMA ReviewStarts ==
    ASSUME ReviewSelected
    PROVE  /\ UNCHANGED <<plan, approvalRec, outcome, planned, settled, told>>
           /\ \/ runners' = runners
              \/ \E n : /\ runners' = runners \union {n}
                        /\ n.kind = "plan" /\ n.stage = "running" /\ n.change = plan.change
<1>. DEFINE n == Runner(state.report, "plan", plan.sel, plan.change)
<1>1. n.kind = "plan" /\ n.stage = "running" /\ n.change = plan.change
  BY DEF Runner
<1>2. UNCHANGED <<plan, approvalRec, outcome, planned, settled, told>>
  BY DEF ReviewSelected, review, history
<1>3. runners' = runners \/ runners' = runners \union {n}
  BY DEF ReviewSelected, StartRunner, StartRefused, FactoryRefuses
<1>. HIDE DEF n
<1>. QED  BY <1>1, <1>2, <1>3

LEMMA ApplyStarts ==
    ASSUME RunApply
    PROVE  /\ UNCHANGED <<plan, approvalRec, outcome, planned, settled, told>> /\ approvalRec # 0
           /\ runButton /\ state.report # None
           /\ \/ runners' = runners
              \/ \E n : /\ runners' = runners \union {n} /\ plan.change # 0
                        /\ n.kind = "apply" /\ n.change = plan.change
                        /\ state' = ApplyBegun(state)
BY DEF RunApply, StartRunner, StartRefused, FactoryRefuses, Runner, review, history

\* When a step drops the change set of the page, keeps it, or takes one.
LEMMA PlanChange ==
    ASSUME Inv, Next
    PROVE  \/ plan'.change = 0 \/ plan' = plan
           \/ \E r \in runners : /\ PlanDelivered(r) /\ Fruit(r) /\ plan'.change = r.change
<1>0. Typed
  BY DEF Inv
<1>1. ASSUME NEW r \in runners, PlanDelivered(r)
      PROVE  plan' = plan \/ (Fruit(r) /\ plan'.change = r.change)
  BY <1>0, <1>1, PlanArrives DEF Typed, TypeOK
<1>2. ASSUME NEW r \in runners, TaskEnds(r) \/ ApplyDelivered(r) PROVE plan' = plan
  BY <1>2 DEF TaskEnds, ApplyDelivered, review
<1>3. ASSUME NEW r \in runners, DiagnosisDelivered(r) PROVE plan'.change = 0 \/ plan' = plan
  BY <1>3 DEF DiagnosisDelivered, NewPlan, review
<1>4. ASSUME ChangeProfile PROVE plan'.change = 0
  BY <1>4 DEF ChangeProfile, NewPlan
<1>5. ASSUME NEW sel, ChangeSelection(sel) PROVE plan'.change = 0
  BY <1>0, <1>5 DEF ChangeSelection, Typed, TypeOK
<1>6. ASSUME \/ \E h \in Hosts : SelectHost(h)
             \/ StartDiagnosis \/ TickApproval \/ UntickApproval \/ PrepareApply \/ ExpireReview
             \/ ReviewSelected \/ RunApply \/ QuietSlots
      PROVE  plan' = plan
  BY <1>6 DEF SelectHost, StartDiagnosis, TickApproval, UntickApproval, PrepareApply,
     ExpireReview, ReviewSelected, RunApply, QuietSlots, review
<1>. QED  BY <1>0, <1>1, <1>2, <1>3, <1>4, <1>5, <1>6, Steps DEF Telling, Typed

LEMMA OnePlanningNext == ASSUME Inv, Next PROVE OnePlanning'
<1>0. Typed /\ OnePlanning /\ HostExclusive
  BY DEF Inv
<1>1. ASSUME Quiet, plan' = plan PROVE OnePlanning'
  BY <1>0, <1>1, QuietPromises DEF OnePlanning
<1>3. CASE ReviewSelected
  BY <1>0, <1>3, ReviewStarts DEF OnePlanning, Promises, Fits
<1>4. CASE RunApply
  BY <1>0, <1>4, ApplyStarts DEF OnePlanning, Promises, Fits
<1>5. ASSUME NEW r \in runners, TaskEnds(r) PROVE OnePlanning'
  <2>1. PICK n : /\ runners' = (runners \ {r}) \union {n}
                 /\ n.host = r.host /\ n.kind = r.kind /\ n.sel = r.sel
                 /\ r.stage = "running" /\ n.stage = "ended"
                 /\ \/ n.result # "planned" /\ n.change = r.change
                    \/ /\ n.kind = "plan" /\ n.result = "planned"
                       /\ r.change = 0 /\ n.change = planned + 1
    BY <1>0, <1>5, Ended
  <2>2. plan' = plan
    BY <1>0, <1>5, Ended
  <2>. QED  BY <1>0, <2>1, <2>2 DEF OnePlanning, Promises, Fits
<1>6. ASSUME NEW r \in runners, PlanDelivered(r) PROVE OnePlanning'
  <2>1. Quiet
    BY <1>0, <1>6, AtQuiet DEF PlanDelivered, Typed
  <2>2. CASE plan' = plan
    BY <1>1, <2>1, <2>2
  <2>3. CASE Promises(r) /\ plan' = [plan EXCEPT !.change = r.change] /\ At(r, "delivered")
    <3>1. plan'.host = plan.host /\ plan'.sel = plan.sel
      BY <1>0, <2>3 DEF Typed, TypeOK
    <3>2. ASSUME NEW n \in runners', Promises(n)' PROVE FALSE
      <4>1. n \in runners \ {r}
        BY <1>0, <2>3, <3>2 DEF At, Promises, Typed, RunnersOK, RunnerType
      <4>2. n.host = plan.host /\ r.host = plan.host
        BY <2>3, <3>1, <3>2 DEF Promises, Fits
      <4>. QED  BY <1>0, <4>1, <4>2 DEF HostExclusive
    <3>. QED  BY <3>2 DEF OnePlanning
  <2>. QED  BY <1>6, <2>2, <2>3, PlanArrives
<1>7. \/ Quiet \/ ReviewSelected \/ RunApply \/ \E r \in runners : TaskEnds(r)
  BY <1>0, Steps, TellingQuiet DEF QuietSlots, Typed
<1>8. CASE plan'.change = 0
  BY <1>8 DEF OnePlanning
<1>. QED  BY <1>1, <1>3, <1>4, <1>5, <1>6, <1>7, <1>8, PlanChange

LEMMA SettledChange == ASSUME RunnersOK, Next
                       PROVE  UNCHANGED <<settled, told>> \/ \E r \in runners : ApplyDelivered(r)
BY Steps DEF Telling, history, QuietSlots, SelectHost, ChangeSelection, StartDiagnosis, ChangeProfile,
   ReviewSelected, TickApproval, UntickApproval, PrepareApply, RunApply, ExpireReview, TaskEnds,
   DiagnosisDelivered, PlanDelivered

LEMMA FruitNext == ASSUME Inv, Next PROVE FruitIsNew'
<1>0. Typed /\ FruitIsNew /\ HostExclusive
  BY DEF Inv
<1>1. SUFFICES ASSUME NEW n \in runners', Fruit(n)
               PROVE  /\ n.change # 0 /\ n.change # plan'.change /\ ~Started(n.change)'
                      /\ \A s \in runners' : Fruit(s) /\ s.change = n.change => s.host = n.host
  BY DEF FruitIsNew, Fruit
<1>2. CASE Quiet
  <2>1. PICK r \in runners : Fruit(r) /\ r.change = n.change /\ r.host = n.host
    BY <1>1, <1>2, QuietFruit
  <2>2. n.change # 0 /\ n.change # plan.change /\ ~Started(n.change)
    BY <1>0, <2>1 DEF FruitIsNew
  <2>3. \A s \in runners' : Fruit(s) /\ s.change = n.change => s.host = n.host
    BY <1>0, <1>2, <2>1, QuietFruit DEF FruitIsNew
  <2>4. n.change # plan'.change
    <3>1. ASSUME NEW p \in runners, PlanDelivered(p), Fruit(p), plan'.change = p.change
          PROVE  n.change # plan'.change
      <4>1. n \in runners \ {p}
        BY <1>0, <1>1, <3>1 DEF PlanDelivered, At, Fruit, Typed, RunnersOK, RunnerType
      <4>2. n.change # p.change
        BY <1>0, <1>1, <3>1, <4>1 DEF FruitIsNew, HostExclusive
      <4>. QED  BY <3>1, <4>2
    <3>. QED  BY <2>2, <3>1, PlanChange
  <2>5. ~Started(n.change)'
    <3>1. CASE settled' = settled
      BY <1>2, <2>2, <3>1, QuietStarted
    <3>2. ASSUME NEW a \in runners, ApplyDelivered(a) PROVE ~Started(n.change)'
      <4>1. a.kind = "apply" /\ (settled' = settled \/ settled' = settled \union {a.change})
        BY <3>2 DEF ApplyDelivered
      <4>. QED  BY <1>2, <2>2, <4>1 DEF Started, Quiet, Follows
    <3>. QED  BY <1>0, <3>1, <3>2, SettledChange DEF Typed
  <2>. QED  BY <2>2, <2>3, <2>4, <2>5
<1>3. CASE ReviewSelected
  BY <1>0, <1>1, <1>3, ReviewStarts DEF FruitIsNew, Fruit, Started
<1>4. CASE RunApply
  BY <1>0, <1>1, <1>4, ApplyStarts DEF FruitIsNew, Fruit, Started
<1>5. ASSUME NEW r \in runners, TaskEnds(r)
      PROVE  /\ n.change # 0 /\ n.change # plan'.change /\ ~Started(n.change)'
             /\ \A s \in runners' : Fruit(s) /\ s.change = n.change => s.host = n.host
  <2>1. UNCHANGED <<plan, settled>>
    BY <1>0, <1>5, Ended
  <2>2. PICK e : /\ runners' = (runners \ {r}) \union {e}
                 /\ e.host = r.host /\ e.kind = r.kind /\ e.sel = r.sel
                 /\ r.stage = "running" /\ e.stage = "ended"
                 /\ \/ e.result # "planned" /\ e.change = r.change
                    \/ /\ e.kind = "plan" /\ e.result = "planned"
                       /\ r.change = 0 /\ e.change = planned + 1
    BY <1>0, <1>5, Ended
  <2>3. /\ planned \in Nat /\ plan.change \in Nat /\ plan.change <= planned
        /\ \A c \in settled : c \in Nat /\ c <= planned
        /\ \A x \in runners : x.change \in Nat /\ x.change <= planned
    BY <1>0, GuiBoundsAssumption DEF Typed, TypeOK, Numbered, RunnersOK, RunnerType
  <2>4. \A c : Started(c)' /\ c # planned + 1 => Started(c)
    BY <2>1, <2>2 DEF Started
  <2>5. \A c : c = planned + 1 => ~Started(c)'
    BY <2>1, <2>2, <2>3 DEF Started
  <2>6. CASE e.result = "planned"
    <3>1. e.change = planned + 1
      BY <2>2, <2>6
    <3>2. CASE n = e
      BY <1>1, <2>1, <2>2, <2>3, <2>5, <3>1, <3>2
    <3>3. CASE n # e
      <4>1. n \in runners /\ n.change # planned + 1
        BY <2>2, <2>3, <3>3
      <4>. QED  BY <1>0, <1>1, <2>1, <2>2, <2>4, <3>1, <4>1 DEF FruitIsNew
    <3>. QED  BY <3>2, <3>3
  <2>7. CASE e.result # "planned"
    <3>1. n \in runners /\ \A s \in runners' : Fruit(s) => s \in runners
      BY <1>1, <2>2, <2>7 DEF Fruit
    <3>2. n.change # planned + 1
      BY <2>3, <3>1
    <3>. QED  BY <1>0, <1>1, <2>1, <2>4, <3>1, <3>2 DEF FruitIsNew
  <2>. QED  BY <2>6, <2>7
<1>. QED  BY <1>0, <1>2, <1>3, <1>4, <1>5, Steps, TellingQuiet DEF QuietSlots, Typed

\* What may bring a review that can be approved to the page.
Brought == \/ plan'.change = 0
           \/ \E r \in runners : PlanDelivered(r) /\ Fruit(r) /\ plan'.change = r.change

LEMMA ReviewingNext == ASSUME Inv, Next PROVE (Reviewing' => Reviewing \/ Brought)
<1>0. /\ state \in GuiState
      /\ plan \in [host : HostOrNone, sel : Selections \union {"none"}, change : 0..MaxPlans]
  BY DEF Inv, Typed, TypeOK
<1>. DEFINE Goal == (Reviewing' => Reviewing \/ Brought)
<1>. USE <1>0 DEF GuiState, Busy, Reviewing
<1>1. ASSUME QuietSlots PROVE Goal
  BY <1>1 DEF QuietSlots, CancelRequested
<1>2. ASSUME NEW h \in Hosts, SelectHost(h) PROVE Goal
  BY <1>2 DEF SelectHost, Selected, Fresh, PreviewDropped, review
<1>3. ASSUME NEW sel \in Selections \union {"none"}, ChangeSelection(sel) PROVE Goal
  BY <1>3 DEF ChangeSelection, Brought
<1>4. ASSUME StartDiagnosis PROVE Goal
  BY <1>4 DEF StartDiagnosis, DiagnosisBegun, DiagnosisFailed, review
<1>5. ASSUME ChangeProfile PROVE Goal
  BY <1>5 DEF ChangeProfile, NewPlan, Brought
<1>6. ASSUME ReviewSelected PROVE Goal
  BY <1>6 DEF ReviewSelected, PlanBegun, PlanFailed, SelectionHash, review
<1>7. ASSUME TickApproval PROVE Goal
  BY <1>7 DEF TickApproval, Approvable, Approved, Expired, review
<1>8. ASSUME UntickApproval PROVE Goal
  BY <1>8 DEF UntickApproval, Approvable, Approved, review
<1>9. ASSUME PrepareApply PROVE Goal
  BY <1>9 DEF PrepareApply, Approvable, Approved, ResultsPrepared, Expired, review
<1>10. ASSUME RunApply PROVE Goal
  BY <1>10 DEF RunApply, ApplyBegun, ApplyFinished, review
<1>11. ASSUME ExpireReview PROVE Goal
  BY <1>11 DEF ExpireReview, Expired, review
<1>12. ASSUME NEW r \in runners, TaskEnds(r) PROVE Goal
  BY <1>12 DEF TaskEnds, review
<1>13. ASSUME NEW r \in runners, DiagnosisDelivered(r) PROVE Goal
  <2>1. \/ Brought \/ UNCHANGED state \/ state' = DiagnosisFailed(state)
    BY <1>13 DEF DiagnosisDelivered, NewPlan, Brought
  <2>. QED  BY <2>1 DEF DiagnosisFailed
<1>14. ASSUME NEW r \in runners, PlanDelivered(r) PROVE Goal
  <2>1. \/ Brought \/ UNCHANGED state \/ state'.error # "none"
    BY <1>14, PlanArrives DEF PlanFailed, Brought
  <2>. QED  BY <2>1
<1>15. ASSUME NEW r \in runners, ApplyDelivered(r) PROVE Goal
  BY <1>15 DEF ApplyDelivered, ApplyFinished, review
<1>. QED  BY <1>1, <1>2, <1>3, <1>4, <1>5, <1>6, <1>7, <1>8, <1>9, <1>10, <1>11, <1>12,
     <1>13, <1>14, <1>15, Steps DEF Telling, Inv, Typed

LEMMA OutcomeNext == ASSUME Inv, Next PROVE  \/ outcome' = outcome \/ plan'.change = 0 \/ Reviewing
                           \/ \E a \in runners : ApplyDelivered(a)
<1>0. plan \in [host : HostOrNone, sel : Selections \union {"none"}, change : 0..MaxPlans]
  BY DEF Inv, Typed, TypeOK
<1>. DEFINE Goal == \/ outcome' = outcome \/ plan'.change = 0 \/ Reviewing
                    \/ \E a \in runners : ApplyDelivered(a)
<1>. USE <1>0
<1>1. ASSUME QuietSlots PROVE Goal
  BY <1>1 DEF QuietSlots
<1>2. ASSUME NEW h \in Hosts, SelectHost(h) PROVE Goal
  BY <1>2 DEF SelectHost, review
<1>3. ASSUME NEW sel \in Selections \union {"none"}, ChangeSelection(sel) PROVE Goal
  BY <1>3 DEF ChangeSelection, Brought
<1>4. ASSUME StartDiagnosis PROVE Goal
  BY <1>4 DEF StartDiagnosis, review
<1>5. ASSUME ChangeProfile PROVE Goal
  BY <1>5 DEF ChangeProfile, NewPlan, Brought
<1>6. ASSUME ReviewSelected PROVE Goal
  BY <1>6 DEF ReviewSelected, review
<1>7. ASSUME TickApproval PROVE Goal
  BY <1>7 DEF TickApproval, review
<1>8. ASSUME UntickApproval PROVE Goal
  BY <1>8 DEF UntickApproval, review
<1>9. ASSUME PrepareApply PROVE Goal
  BY <1>9 DEF PrepareApply, Approvable, Reviewing
<1>10. ASSUME RunApply PROVE Goal
  BY <1>10 DEF RunApply, review
<1>11. ASSUME ExpireReview PROVE Goal
  BY <1>11 DEF ExpireReview, review
<1>12. ASSUME NEW r \in runners, TaskEnds(r) PROVE Goal
  BY <1>12 DEF TaskEnds, review
<1>13. ASSUME NEW r \in runners, DiagnosisDelivered(r) PROVE Goal
  BY <1>13 DEF DiagnosisDelivered, NewPlan, Brought, review
<1>14. ASSUME NEW r \in runners, PlanDelivered(r) PROVE Goal
  BY <1>14 DEF PlanDelivered, review
<1>15. ASSUME NEW r \in runners, ApplyDelivered(r) PROVE Goal
  BY <1>15 DEF ApplyDelivered, review
<1>. QED  BY <1>1, <1>2, <1>3, <1>4, <1>5, <1>6, <1>7, <1>8, <1>9, <1>10, <1>11, <1>12,
     <1>13, <1>14, <1>15, Steps DEF Telling, Inv, Typed

LEMMA StartedNext == ASSUME Inv, Next PROVE StartedIsOver'
<1>0. Typed /\ FruitIsNew /\ StartedIsOver /\ HostExclusive
  BY DEF Inv
<1>1. state \in GuiState /\ plan.change \in Nat /\ 0 \notin settled'
  BY <1>0, GuiBoundsAssumption, TypedNext DEF Typed, TypeOK, Numbered
<1>2. CASE plan'.change = 0
  BY <1>1, <1>2 DEF StartedIsOver
<1>3. ASSUME NEW r \in runners, PlanDelivered(r), Fruit(r), plan'.change = r.change
      PROVE  StartedIsOver'
  <2>1. ~Started(r.change)
    BY <1>0, <1>3 DEF FruitIsNew
  <2>2. settled' = settled /\ Quiet
    BY <1>0, <1>3, AtQuiet DEF PlanDelivered, Typed, history
  <2>3. ~Started(r.change)'
    BY <2>1, <2>2, QuietStarted
  <2>. QED  BY <1>3, <2>3 DEF StartedIsOver, Started
<1>4. SUFFICES ASSUME plan' = plan,
                      Quiet \/ RunApply \/ ReviewSelected \/ \E r \in runners : TaskEnds(r)
               PROVE  StartedIsOver'
  BY <1>0, <1>2, <1>3, PlanChange, Steps, TellingQuiet DEF QuietSlots, Typed
<1>5. ASSUME NEW a \in runners, ApplyDelivered(a) PROVE StartedIsOver'
  <2>1. /\ a.kind = "apply" /\ Quiet
        /\ \/ settled' = settled /\ outcome' = outcome
           \/ settled' = settled \union {a.change} /\ outcome' \in ApplyStatus
    BY <1>0, <1>5, AtQuiet DEF ApplyDelivered, Typed
  <2>2. state' = state \/ state'.step = "results"
    BY <1>1, <1>5 DEF ApplyDelivered, ApplyFinished, GuiState
  <2>3. \A c : Started(c)' => Started(c)
    BY <2>1 DEF Started, Quiet, Follows
  <2>4. Reviewing' => Reviewing
    BY <2>2 DEF Reviewing, Busy
  <2>5. outcome \in ApplyStatus \union {"none"} /\ "none" \notin ApplyStatus
    BY <1>0, ApplyStatusAssumption DEF Typed, TypeOK
  <2>6. plan.change \in settled' => outcome' # "none"
    BY <1>0, <2>1, <2>5 DEF StartedIsOver
  <2>7. plan.change # 0 /\ Started(plan.change)' => ~Reviewing'
    BY <1>0, <1>4, <2>3, <2>4 DEF StartedIsOver
  <2>. QED  BY <1>4, <2>6, <2>7 DEF StartedIsOver, Started
<1>6. CASE RunApply
  <2>1. settled' = settled /\ outcome' = outcome
    BY <1>6, ApplyStarts
  <2>2. state'.step = "results"
    BY <1>1, <1>6 DEF RunApply, ApplyBegun, ApplyFinished, GuiState
  <2>. QED  BY <1>0, <1>4, <2>1, <2>2 DEF StartedIsOver, Reviewing
<1>7. CASE ReviewSelected
  <2>1. settled' = settled /\ outcome' = outcome
    BY <1>7, ReviewStarts
  <2>2. state'.status = "running" \/ state'.error = "other"
    BY <1>1, <1>7 DEF ReviewSelected, PlanBegun, PlanFailed, GuiState
  <2>. QED  BY <1>0, <1>4, <2>1, <2>2 DEF StartedIsOver, Reviewing, Busy
<1>8. ASSUME NEW r \in runners, TaskEnds(r) PROVE StartedIsOver'
  <2>1. UNCHANGED <<state, settled, outcome>>
    BY <1>0, <1>8, Ended
  <2>2. Started(plan.change)' => Started(plan.change)
    <3>1. PICK e : /\ runners' = (runners \ {r}) \union {e} /\ e.kind = r.kind
                   /\ e.kind = "plan" \/ e.change = r.change
      BY <1>0, <1>8, Ended
    <3>. QED  BY <1>4, <2>1, <3>1 DEF Started
  <2>. QED  BY <1>0, <1>4, <2>1, <2>2 DEF StartedIsOver, Reviewing, Busy, Started
<1>9. ASSUME Quiet, settled' = settled PROVE StartedIsOver'
  <2>1. \A c : Started(c)' => Started(c)
    BY <1>9, QuietStarted
  <2>2. StartedIsOver' \/ (Reviewing' => Reviewing)
    BY <1>2, <1>3, ReviewingNext DEF Brought
  <2>3. StartedIsOver' \/ outcome' = outcome \/ Reviewing
    BY <1>2, <1>5, OutcomeNext
  <2>. QED  BY <1>0, <1>2, <1>4, <1>9, <2>1, <2>2, <2>3 DEF StartedIsOver, Started
<1>. QED  BY <1>0, <1>4, <1>5, <1>6, <1>7, <1>8, <1>9, SettledChange DEF Typed

\* A rendering turns Run off when an outcome is there, which it is for a change
\* set of the page that reported a status; without one the page was told nothing.
LEMMA ButtonIsRight == ASSUME Inv, Next PROVE ButtonIsIdle' /\ TakenIsOff'
<1>1. ButtonIsIdle /\ TakenIsOff /\ TypeOK' /\ RecordIsOfPlan' /\ StartedIsOver'
  BY TypedNext, RecordNext, StartedNext DEF Inv
<1>2. CASE Render
  <2>1. runButton' => ~Busy' /\ outcome' = "none"
    BY <1>2 DEF Render, Runnable
  <2>2. approvalRec' # 0 /\ outcome' = "none" => approvalRec' \notin settled'
    BY <1>1 DEF RecordIsOfPlan, StartedIsOver
  <2>3. told' \subseteq settled'
    BY <1>1 DEF TypeOK
  <2>. QED  BY <2>1, <2>2, <2>3 DEF ButtonIsIdle, TakenIsOff
<1>3. CASE Kept
  BY <1>1, <1>3 DEF Kept, ButtonIsIdle, TakenIsOff
<1>. QED  BY <1>2, <1>3, ButtonNext DEF Inv

----------------------------------------------------------------------------
(* The theorems.                                                           *)

LEMMA InitInv == Init => Inv
<1>. SUFFICES ASSUME Init PROVE Inv
  OBVIOUS
<1>. USE GuiBoundsAssumption, HostsAssumption DEF Init, Fresh, NoPlan, None
<1>1. TypeOK
  <2>1. state \in GuiState
    BY DEF GuiState, HostOrNone
  <2>2. 0 \in 0..MaxPlans /\ 0 \in 0..MaxStarts
    OBVIOUS
  <2>. QED  BY <2>1, <2>2 DEF TypeOK, HostOrNone
<1>2. RunnersOK /\ HostExclusive /\ OnePlanning /\ FruitIsNew
  BY DEF RunnersOK, HostExclusive, OnePlanning, FruitIsNew
<1>3. Numbered /\ ReportIsOfPlan /\ HashIsOfPlan /\ RecordIsOfPlan /\ PreviewIsLocal
  BY DEF Numbered, ReportIsOfPlan, HashIsOfPlan, RecordIsOfPlan, PreviewIsLocal, Reviewing
<1>4. StartedIsOver /\ ButtonIsIdle /\ TakenIsOff
  BY DEF StartedIsOver, Started, ButtonIsIdle, TakenIsOff
<1>. QED  BY <1>1, <1>2, <1>3, <1>4 DEF Inv, Typed

LEMMA StutterInv == Inv /\ UNCHANGED vars => Inv'
BY DEF Inv, vars, review, backups, window, workers, history, ButtonIsIdle, TakenIsOff, Typed, TypeOK, RunnersOK, Numbered,
   ReportIsOfPlan, HostExclusive, OnePlanning, Promises, Fits, HashIsOfPlan, Reviewing, Busy,
   RecordIsOfPlan, FruitIsNew, StartedIsOver, Started, PreviewIsLocal

THEOREM InvHolds == Spec => []Inv
<1>1. Inv /\ [Next]_vars => Inv'
  BY TypedNext, ExclusiveNext, ReportNext, OnePlanningNext, HashNext, RecordNext, FruitNext,
     StartedNext, PreviewNext, ButtonIsRight, StutterInv DEF Inv, Typed
<1>. QED  BY <1>1, InitInv, PTL DEF Spec

\* Every variable keeps its type.
THEOREM TypeHolds == Spec => []TypeOK
BY InvHolds, PTL DEF Inv, Typed

\* Never two workers at one host, whatever is clicked and whatever slots raise
\* (QtWorkerCoordinator._active).
THEOREM HostExclusiveHolds == Spec => []HostExclusive
BY InvHolds, PTL DEF Inv

\* For any number of hosts, change sets and workers: an approval on the page is
\* of the change set on the page, and what Run would apply is that change set,
\* for the selected host and its report.
THEOREM ApprovalMatchesPlanHolds == Spec => []ApprovalMatchesPlan
<1>1. Inv => ApprovalMatchesPlan
  BY DEF Inv, Typed, ReportIsOfPlan, HashIsOfPlan, RecordIsOfPlan, Reviewing,
     ApprovalMatchesPlan, Approvable, Approved
<1>. QED  BY <1>1, InvHolds, PTL

\* Run is off for every change set whose status the page took, whichever slots
\* have rendered it since: a record's change set is the plan's, and a rendering
\* finds the outcome that was stored with its status.
THEOREM TakenStaysOff == Spec => []TakenIsOff
BY InvHolds, PTL DEF Inv

\* Therefore such a change set is never applied again, though the slot of Run does
\* not look at the outcome: only Run starts an apply, and the button is off for it.
THEOREM ToldIsNeverApplied == Spec => [][\A c \in told : Applies(c)' => Applies(c)]_vars
<1>. DEFINE Once == \A c \in told : Applies(c)' => Applies(c)
<1>1. ASSUME Inv, Next PROVE Once
  <2>0. Typed /\ RecordIsOfPlan /\ TakenIsOff
    BY <1>1 DEF Inv
  <2>1. CASE Quiet
    BY <2>1 DEF Quiet, Follows, Applies
  <2>2. CASE ReviewSelected
    BY <2>2, ReviewStarts DEF Applies
  <2>3. CASE RunApply
    <3>1. plan.change = approvalRec /\ approvalRec \notin told
      BY <2>0, <2>3, ApplyStarts DEF RecordIsOfPlan, TakenIsOff
    <3>. QED  BY <2>3, <3>1, ApplyStarts DEF Applies
  <2>4. ASSUME NEW r \in runners, TaskEnds(r) PROVE Once
    BY <2>0, <2>4, Ended DEF Applies
  <2>. QED  BY <1>1, <2>0, <2>1, <2>2, <2>3, <2>4, Steps, TellingQuiet DEF QuietSlots, Typed
<1>2. ASSUME UNCHANGED vars PROVE Once
  BY <1>2 DEF vars, workers, Applies
<1>3. Inv /\ [Next]_vars => [Once]_vars
  BY <1>1, <1>2
<1>. QED  BY <1>3, InvHolds, PTL DEF Spec

\* A restore runs on the host whose backup was previewed, though a preview that
\* arrives late is shown under another host: both are the local one.
THEOREM RestoreIsForPreviewHolds == Spec => RestoreIsForPreview
<1>. DEFINE Same == \A r \in runners' : r.kind = "restore" /\ ~IsActive(r.host) => r.host = preview
<1>1. ASSUME Inv, Next PROVE Same
  <2>0. RunnersOK /\ HostExclusive /\ PreviewIsLocal
    BY <1>1 DEF Inv, Typed
  <2>1. CASE Hosted
    BY <2>1 DEF Hosted, IsActive
  <2>2. CASE RunRestore
    <3>1. CASE state.host = Local
      <4>1. preview = Local
        BY <2>0, <2>2 DEF RunRestore, PreviewIsLocal
      <4>. QED  BY <2>2, <3>1, <4>1 DEF RunRestore, StartRunner, StartRefused, FactoryRefuses,
                Runner, IsActive
    <3>2. CASE state.host # Local
      <4>1. runners' = runners
        BY <2>2, <3>2 DEF RunRestore, RestoreCandidate, FactoryRefuses
      <4>. QED  BY <4>1 DEF IsActive
    <3>. QED  BY <3>1, <3>2
  <2>3. CASE StartDiagnosis \/ ReviewSelected \/ RunApply \/ RefreshBackups \/ SelectBackup
    BY <2>3 DEF StartDiagnosis, ReviewSelected, RunApply, RefreshBackups, SelectBackup,
       StartRunner, StartRefused, FactoryRefuses, Runner, IsActive
  <2>. QED  BY <1>1, <2>0, <2>1, <2>2, <2>3, ExclusiveNext DEF Starting
<1>2. ASSUME UNCHANGED vars PROVE Same
  BY <1>2 DEF vars, workers, IsActive
<1>3. Inv /\ [Next]_vars => [Same]_vars
  BY <1>1, <1>2
<1>. QED  BY <1>3, InvHolds, PTL DEF Spec, RestoreIsForPreview
=============================================================================
