SPECIFICATION Spec
CONSTANTS
    b1 = b1
    b2 = b2
    d1 = d1
    d2 = d2
    p1 = p1
    p2 = p2
    q1 = q1
    Backups = {b1, b2}
    CreatedAt <- Dates
    Expired = {b1, b2}
    ProtectedFirst = {}
    KeepGenerations = 10
    MaxEvents = 2
    Deletions = {d1, d2}
    BackupOf <- TheBackupOf
    LocalPrunes = {p1, p2}
    RemotePrunes = {q1}
    MaxExecutions = 2
CONSTRAINT Bounded
SYMMETRY Alike
CHECK_DEADLOCK FALSE
INVARIANT ResultsAreTrue
INVARIANT EvidenceOutlivesDoubt
INVARIANT SentOnce
INVARIANT PrunesKeepOne
PROPERTY OriginalGoesLast
