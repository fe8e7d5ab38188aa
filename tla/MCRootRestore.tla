---------------------------- MODULE MCRootRestore ---------------------------
EXTENDS RootRestore
CONSTANTS r1, a1, a2, c1, c2
\* The two applies are interchangeable: a2 is the later one.
InOrder == applying[a2] = "idle" \/ applying[a1] = "done"
=============================================================================
