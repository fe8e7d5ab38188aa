---------------------------- MODULE PlanWorkflow ----------------------------
(***************************************************************************)
(* The plan state machine of domain/workflow.py: an optimization plan      *)
(* moves along a fixed relation between statuses, never back, and stops in *)
(* one of three terminal statuses.  Every apply coordinator drives one     *)
(* PlanStateMachine; the modules that model a coordinator are checked to   *)
(* implement this specification.                                           *)
(***************************************************************************)

CONSTANT InitialStatus  \* PlanStateMachine(plan_id, status): the status a machine is built with

VARIABLE status

PlanStatus == {"draft", "reviewed", "approved", "backed_up", "applying",
               "validating", "committed", "rolling_back", "rolled_back",
               "recovery_required"}

\* The table _ALLOWED.
Allowed ==
    [draft             |-> {"reviewed"},
     reviewed          |-> {"approved"},
     approved          |-> {"backed_up"},
     backed_up         |-> {"applying"},
     applying          |-> {"validating", "rolling_back"},
     validating        |-> {"committed", "rolling_back"},
     rolling_back      |-> {"rolled_back", "recovery_required"},
     committed         |-> {},
     rolled_back       |-> {},
     recovery_required |-> {}]

\* The property `terminal`.
TerminalStatus == {s \in PlanStatus : Allowed[s] = {}}

TransitionTo(target) ==
    /\ target \in Allowed[status]
    /\ status' = target

Init == status = InitialStatus

Next == \E target \in PlanStatus : TransitionTo(target)

Spec == Init /\ [][Next]_status
=============================================================================
