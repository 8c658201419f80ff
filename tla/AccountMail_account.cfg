SPECIFICATION FairSpec
CONSTANTS
    w1 = w1
    w2 = w2
    here = here
    there = there
    Worker = {w1, w2}
    Address = {here, there}
    MaxRow = 2
    MaxPassword = 2
    MaxAttempts = 2
    HourlyLimit = 1
    MaxCrash = 1
CHECK_DEADLOCK FALSE
INVARIANTS DeliveriesRecorded
PROPERTIES MailGoesToOwner NewestLinkVerifies ImplementsOutbox
CONSTRAINT Constraint
