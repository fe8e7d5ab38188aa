CONSTANTS
    Before = before
    After = after
    Foreign = {foreign}
    MaxEdits = 2
SPECIFICATION FairSpec
CHECK_DEADLOCK FALSE
INVARIANTS BothCopiesFirst RollbackOnProof NothingForgotten
PROPERTIES SentOnce ImplementsContract Termination
