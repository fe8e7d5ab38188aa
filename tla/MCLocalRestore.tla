--------------------------- MODULE MCLocalRestore ---------------------------
EXTENDS LocalRestore, TLC
CONSTANTS t1, t2, b1, b2, c1, c2
MCItemOf == b1 :> c1 @@ b2 :> Absent
MCJournalOf == b1 :> "committed" @@ b2 :> "recovery_required"
=============================================================================
