---------------------------- MODULE ApplyContract ---------------------------
(***************************************************************************)
(* What every apply route promises about the files it was approved to      *)
(* change, whatever its mechanism (docs/safe-apply.md, sections 6 to 9 and *)
(* 12).  While the operation is open a target may be in any state; it      *)
(* closes in one of the phases                                             *)
(*   untouched - no target was written,                                    *)
(*   committed - every target was changed,                                 *)
(*   restored  - no target still holds the change,                         *)
(*   attention - the user is told to recover by hand,                      *)
(* and writes nothing afterwards; where a helper process may outlive the   *)
(* operation (MayOutlive) it can still write after "attention", and after  *)
(* no other ending.  A target that another program wrote last is           *)
(* "foreign": the operation no longer answers for it.                      *)
(***************************************************************************)
CONSTANTS Targets, MayOutlive

VARIABLES phase,  \* how far the operation is
          holds   \* who gave each target its content

vars == <<phase, holds>>

Phases == {"open", "untouched", "committed", "restored", "attention"}
Holdings == {"original", "changed", "restored", "foreign"}

Init == /\ phase = "open"
        /\ holds = [t \in Targets |-> "original"]

\* The operation replaces a target by the approved content, or puts back
\* what its backup holds.
Write(t) == /\ phase = "open" \/ (MayOutlive /\ phase = "attention")
            /\ \E h \in {"changed", "restored"} : holds' = [holds EXCEPT ![t] = h]
            /\ UNCHANGED phase

\* Another program writes the target, before or after the operation closes.
ForeignWrite(t) == /\ holds' = [holds EXCEPT ![t] = "foreign"]
                   /\ UNCHANGED phase

Close(verdict, acceptable) ==
    /\ phase = "open"
    /\ \A t \in Targets : holds[t] \in acceptable
    /\ phase' = verdict
    /\ UNCHANGED holds

Next == \/ \E t \in Targets : Write(t) \/ ForeignWrite(t)
        \/ Close("untouched", {"original", "foreign"})
        \/ Close("committed", {"changed", "foreign"})
        \/ Close("restored", {"original", "restored", "foreign"})
        \/ Close("attention", Holdings)

Spec == Init /\ [][Next]_vars
=============================================================================
