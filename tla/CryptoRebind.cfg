CONSTANTS
    Handlers = {h1}
    Syncers = {s1}
    PreviewIds = {p1}
    ApiKeys = {k1, k2}
    StepKeys = {}
    Sides = {"buy"}
    Values = {1}
    MaxBuyOrder = 2
    MaxDailyBuy = 3
    ManualRequirement = 1
    MaxAttempts = 2
    None = None
    MaxDay = 0
    MaxRegistrations = 1
    StoreCanFail = FALSE
SYMMETRY LedgerSymmetry
SPECIFICATION Spec
INVARIANTS
    AutomationEarned
PROPERTIES
    LockedBuildSendsNothing
CHECK_DEADLOCK FALSE
