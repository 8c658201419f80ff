SPECIFICATION UsageFairSpec
CONSTANTS
    w1 = w1
    w2 = w2
    b1 = b1
    b2 = b2
    NoRow = NoRow
    Worker = {w1, w2}
    Event = {1, 2, 3, 4}
    Bucket = {b1, b2}
    BucketOf <- MCBucketOf
    Units <- MCUnits
    Latency <- MCLatency
    Limit = 2
    MaxCrash = 2
CHECK_DEADLOCK FALSE
INVARIANTS NoFalseAlarm
PROPERTIES CountsOnce
