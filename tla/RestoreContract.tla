--------------------------- MODULE RestoreContract --------------------------
(***************************************************************************)
(* What the two manual restore routes promise of an authorization,         *)
(* whatever fails: it is used up before anything is written, it writes at  *)
(* most once, and the one result that is recorded for it comes after the   *)
(* write and says "committed" only if there was one.  An authorization can *)
(* stay without a result for ever; it is still used up.                    *)
(***************************************************************************)
EXTENDS Naturals

CONSTANT Requests

VARIABLES used,     \* authorizations with an attempt record
          puts,     \* how often each has replaced its target
          verdict   \* the recorded result of each

vars == <<used, puts, verdict>>

Init == used = {} /\ puts = [r \in Requests |-> 0] /\ verdict = [r \in Requests |-> "none"]

Consume(r) == r \notin used /\ used' = used \union {r} /\ UNCHANGED <<puts, verdict>>

Put(r) == /\ r \in used /\ puts[r] = 0 /\ verdict[r] = "none"
          /\ puts' = [puts EXCEPT ![r] = 1] /\ UNCHANGED <<used, verdict>>

Settle(r, v) == /\ r \in used /\ verdict[r] = "none" /\ (v = "committed" => puts[r] = 1)
                /\ verdict' = [verdict EXCEPT ![r] = v] /\ UNCHANGED <<used, puts>>

Next == \E r \in Requests :
            \/ Consume(r)
            \/ Put(r)
            \/ \E v \in {"committed", "failed", "unknown"} : Settle(r, v)

Spec == Init /\ [][Next]_vars
=============================================================================
