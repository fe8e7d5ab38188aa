---------------------------- MODULE MCGuiWorkflow ---------------------------
(* The instances of GuiWorkflow that TLC checks. *)
EXTENDS GuiWorkflow

\* The part of the behaviours AppliedOnce is searched in: reviews and applies,
\* every diagnosis and every planning a success, nothing cancelled, no backup
\* looked at and the window left open.
OnlyReviews ==
    /\ ~closePending /\ ~closed
    /\ \A r \in runners : /\ r.kind \in {"diagnose", "plan", "apply"} /\ ~r.cancel
                          /\ r.kind = "diagnose" => r.result \in {"none", "complete"}
                          /\ r.kind = "plan" => r.result \in {"none", "planned"}
=============================================================================
