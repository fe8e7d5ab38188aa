SPECIFICATION FairSpec
CONSTANTS
    t1 = t1
    t2 = t2
    b1 = b1
    b2 = b2
    c1 = c1
    c2 = c2
    Absent = Absent
    Tasks = {t1, t2}
    Backups = {b1, b2}
    Contents = {c1, c2}
    ItemOf <- MCItemOf
    JournalOf <- MCJournalOf
    MaxEvents = 1
INVARIANT EvidenceIsTrue
INVARIANT ReviewedContent
PROPERTY ImplementsContract
PROPERTY NoBlindOverwrite
PROPERTY Termination
CHECK_DEADLOCK FALSE
