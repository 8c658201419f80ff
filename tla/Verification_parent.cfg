SPECIFICATION FairSpec
CONSTANTS
    r1 = r1
    r2 = r2
    k1 = k1
    k2 = k2
    i1 = i1
    i2 = i2
    rate = rate
    quota = quota
    read = read
    AnyFamily = AnyFamily
    SharedBudget = SharedBudget
    NoEvent = NoEvent
    MaxUnits = 2
    Request = {r1}
    Key = {k1}
    Idem = {i1}
    Policy = {quota}
    QuotaPolicy = {quota}
    Dimension <- MixedDimension
    Target <- AnyTarget
    Scope = {}
    Input <- OneInput
    Limit = {2}
    Delta = {}
    AdjustmentCap = 0
    MaxPeriod = 1
    MaxVersion = 1
PROPERTIES ParentDisableBlocksDecisions
CHECK_DEADLOCK FALSE
