CONSTANTS
    Handlers = {h1, h2}
    Syncers = {}
    PreviewIds = {p1, p2}
    ApiKeys = {k1}
    StepKeys = {}
    Sides = {"buy", "sell"}
    Values = {2}
    MaxBuyOrder = 2
    MaxDailyBuy = 3
    ManualRequirement = 1
    MaxAttempts = 3
    None = None
    MaxDay = 1
    MaxRegistrations = 0
    StoreCanFail = TRUE
SYMMETRY LedgerSymmetry
SPECIFICATION Spec
INVARIANTS
    TypeOK
    OnePostPerPreview
    
CHECK_DEADLOCK FALSE
