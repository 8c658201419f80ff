SPECIFICATION RateSpec
CONSTANTS
    window = window
    bucketful = bucketful
    own = own
    f1 = f1
    f2 = f2
    Policy <- MCPolicy
    Family = {f1, f2}
    PerKey = {own}
    Applicable <- MCApplicable
    Config <- MCConfig
    Initial <- MCInitial
    Second = 2
    MaxTime = 9
    MaxVersion = 2
    Shared = Shared
    NoBucket = NoBucket
    NoPromise = NoPromise
CONSTRAINT Constraint
INVARIANTS BudgetRespected NothingElseConsumed RetryAfterExact
