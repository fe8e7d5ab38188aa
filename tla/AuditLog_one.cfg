CONSTANTS
    Writers = {w1}
    MayFail = TRUE
    MaxEvents = 7
SPECIFICATION Spec
CHECK_DEADLOCK FALSE
INVARIANTS HeadLagsByOne
PROPERTIES AppendOnly
