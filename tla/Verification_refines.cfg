SPECIFICATION FairSpec
CONSTANTS
    r1 = r1
    r2 = r2
    k1 = k1
    k2 = k2
    i1 = i1
    i2 = i2
    rate = rate
    quota = quota
    read = read
    AnyFamily = AnyFamily
    SharedBudget = SharedBudget
    NoEvent = NoEvent
    MaxUnits = 2
    Request = {r1, r2}
    Key = {k1}
    Idem = {i1, i2}
    Policy = {quota}
    QuotaPolicy = {quota}
    Dimension <- MixedDimension
    Target <- AnyTarget
    Scope = {}
    Input <- SpendInput
    Limit = {2}
    Delta <- Credit
    AdjustmentCap = 1
    MaxPeriod = 2
    MaxVersion = 1
PROPERTIES ImplementsLedger EveryCallAnswered
CONSTRAINT Undisturbed
CHECK_DEADLOCK FALSE
