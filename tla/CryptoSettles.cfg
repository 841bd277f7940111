CONSTANTS
    Handlers = {h1, h2}
    Syncers = {s1}
    PreviewIds = {p1}
    ApiKeys = {k1}
    StepKeys = {}
    Sides = {"buy"}
    Values = {1}
    MaxBuyOrder = 2
    MaxDailyBuy = 3
    ManualRequirement = 1
    MaxAttempts = 1
    None = None
    MaxDay = 0
    MaxRegistrations = 0
    StoreCanFail = FALSE
SPECIFICATION FairSpec
PROPERTIES
    
    ImplementsJournal
CHECK_DEADLOCK FALSE
