CONSTANTS
    Before = before
    After = after
    Foreign = {foreign}
    Edits = {before, foreign}
    MayFail = TRUE
    LateReplace = FALSE
    MayCancel = TRUE
    MaxEdits = 2
SPECIFICATION FairSpec
CHECK_DEADLOCK FALSE
INVARIANTS Recoverable RolledBackIsRestored OutcomeIsTrue
PROPERTIES ImplementsContract
PROPERTIES Termination
