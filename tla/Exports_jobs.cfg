SPECIFICATION FairSpec
CONSTANTS
    w1 = w1
    w2 = w2
    c1 = c1
    Worker = {w1, w2}
    Client = {c1}
    MaxJob = 3
    MaxFacts = 2
    MaxRows = 1
    Batch = 2
    Limit = 2
    MaxCrash = 1
    Heavy = {2}
    Unsafe = {2}
CHECK_DEADLOCK FALSE
INVARIANTS ReadyHasFile ExpiredHasNoFile
PROPERTIES OnlyHeavyJobsBlock OnlyUnsafeFilesBlock
CONSTRAINT Meetings
