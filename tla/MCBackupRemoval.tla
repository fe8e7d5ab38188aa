-------------------------- MODULE MCBackupRemoval --------------------------
(***************************************************************************)
(* Instances of BackupRemoval for TLC.                                     *)
(***************************************************************************)
EXTENDS BackupRemoval, TLC

CONSTANTS b1, b2, d1, d2, p1, p2, q1

\* b1 is the older backup; both are past their date.
Dates == (b1 :> 1) @@ (b2 :> 2)
TheBackupOf == [d \in Deletions |-> b1]

\* Operations of the program under way; helpers on the remote host go on
\* beside them.  Bound: one operation after the other; two deletions or local
\* prunes, or one of each, at once until something goes wrong.
Busy == {d \in Deletions : dpc[d] \notin DeletionEnds \union {"request"} \/ task[d] # NoTask}
        \union {r \in LocalPrunes : run[r] \notin RunEnds \union {"list"}}
        \union {q \in RemotePrunes : client[q] \notin ClientEnds \union {"start"}}
Bounded == \/ Cardinality(Busy) <= 1
           \/ events = 0 /\ Cardinality(Busy) = 2 /\ Busy \subseteq Deletions \union LocalPrunes

\* The two deletions are of the same backup.
Alike == Permutations({d1, d2}) \union Permutations({p1, p2})
=============================================================================
