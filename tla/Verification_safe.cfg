SPECIFICATION Spec
CONSTANTS
    r1 = r1
    r2 = r2
    k1 = k1
    k2 = k2
    i1 = i1
    i2 = i2
    rate = rate
    quota = quota
    read = read
    AnyFamily = AnyFamily
    SharedBudget = SharedBudget
    NoEvent = NoEvent
    MaxUnits = 2
    Request = {r1, r2}
    Key = {k1, k2}
    Idem = {i1, i2}
    Policy = {rate, quota}
    QuotaPolicy = {quota}
    Dimension <- KeyDimension
    Target <- OneTarget
    Scope = {read}
    Input <- AllInput
    Limit = {1, 2}
    Delta <- CreditDebit
    AdjustmentCap = 1
    MaxPeriod = 1
    MaxVersion = 2
CONSTRAINT Stories
SYMMETRY Calls
INVARIANTS LedgerBalanced RotationKeepsBudget AllowedIsSettled
PROPERTIES QuotaNeverOverspent NoAllowAfterRevocation
CHECK_DEADLOCK FALSE
