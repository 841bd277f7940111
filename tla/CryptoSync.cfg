CONSTANTS
    Handlers = {h1}
    Syncers = {s1}
    PreviewIds = {p1, p2}
    ApiKeys = {k1}
    StepKeys = {step}
    Sides = {"buy"}
    Values = {1}
    MaxBuyOrder = 2
    MaxDailyBuy = 3
    ManualRequirement = 0
    MaxAttempts = 2
    None = None
    MaxDay = 0
    MaxRegistrations = 0
    StoreCanFail = FALSE
SYMMETRY LedgerSymmetry
SPECIFICATION Spec
INVARIANTS
    LockClosesToggles
    
CHECK_DEADLOCK FALSE
