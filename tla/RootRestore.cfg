SPECIFICATION FairSpec
CONSTANTS
    r1 = r1
    a1 = a1
    a2 = a2
    c1 = c1
    c2 = c2
    Absent = Absent
    Requests = {r1}
    Again = {r1}
    Applies = {a1, a2}
    Contents = {c1, c2}
    MaxEvents = 1
PROPERTY ImplementsContract
INVARIANT ToldTruth
PROPERTY NoBlindOverwrite
PROPERTY Termination
CHECK_DEADLOCK FALSE
CONSTRAINT InOrder
