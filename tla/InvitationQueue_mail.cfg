SPECIFICATION QueueFairSpec
CONSTANTS
    w1 = w1
    w2 = w2
    t1 = t1
    t2 = t2
    i1 = i1
    i2 = i2
    NoInvitation = NoInvitation
    Worker = {w1, w2}
    Tenant = {t1, t2}
    Invitation = {i1, i2}
    Batch = 1
    MaxAttempts = 2
    MaxCrash = 1
CHECK_DEADLOCK FALSE
INVARIANTS InvitationsRecorded
PROPERTIES MailedWhileActive OnlyArchivedStarve
CONSTRAINT Overlap
