CONSTANTS
    Hosts = {local, remote}
    Local = local
    Selections = {"s1"}
    MaxPlans = 2
    MaxStarts = 3
    ApplyStatus = {"committed"}
SPECIFICATION FairSpec
CHECK_DEADLOCK FALSE
INVARIANTS HostExclusive ApprovalMatchesPlan TakenIsOff
PROPERTIES RestoreIsForPreview CloseEnds BusyEnds
