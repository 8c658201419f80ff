SPECIFICATION FairSpec
CONSTANTS
    e1 = e1
    v1 = v1
    v2 = v2
    w1 = w1
    w2 = w2
    c1 = c1
    NoJob = NoJob
    Endpoint = {e1}
    Event = {v1, v2}
    Worker = {w1, w2}
    Command = {c1}
    Subscribers <- AllSubscribe
    EndpointLimit = 1
    BatchLimit = 1
    AutoAttempts = 2
    LifetimeAttempts = 3
    DeliveryEnabled = TRUE
    MaxVersion = 2
    MaxCrashes = 1
INVARIANTS JobIsCurrent AttemptsBounded DuplicatesExplained
PROPERTIES DeliveredIsFinal EveryDeliverySettles
CHECK_DEADLOCK FALSE
