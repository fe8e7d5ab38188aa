CONSTANTS
    Writers = {w1, w2}
    MayFail = FALSE
    MaxEvents = 3
SPECIFICATION Spec
CHECK_DEADLOCK FALSE
INVARIANTS VerifiedIsComplete
