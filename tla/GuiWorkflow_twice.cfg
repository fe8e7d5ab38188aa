CONSTANTS
    Hosts = {local, remote}
    Local = local
    Selections = {"s1"}
    MaxPlans = 2
    MaxStarts = 7
    ApplyStatus = {"rolled_back"}
SPECIFICATION Spec
CHECK_DEADLOCK FALSE
CONSTRAINT OnlyReviews
PROPERTIES AppliedOnce
