CONSTANTS
    Before = before
    After = after
    Foreign = {foreign}
    Edits = {before, foreign}
    MayFail = FALSE
    LateReplace = TRUE
    MayCancel = FALSE
    MaxEdits = 0
SPECIFICATION Spec
CHECK_DEADLOCK FALSE
INVARIANTS RolledBackIsRestored
