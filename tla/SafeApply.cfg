CONSTANTS
    NTargets = 2
    Before = before
    After = after
    Foreign = {foreign}
    Garbage = garbage
    MayFail = TRUE
    MaxEdits = 2
    MaxDamage = 1
SPECIFICATION FairSpec
CHECK_DEADLOCK FALSE
INVARIANTS Recoverable RolledBackIsRestored AuditAgrees
PROPERTIES ImplementsContract ImplementsWorkflow Termination
