CONSTANTS
    Handlers = {h1, h2}
    m1 = m1
    auto1 = auto1
    Manual = {m1}
    Automated = {auto1}
    Sells = {}
    Value <- MCValue
    Accounts = {a1, a2}
    ApiKeys = {k1}
    a1 = a1
    PreviewAccount <- MCPreviewAccount
    MaxBuyOrder = 2
    MaxDailyBuy = 2
    RequiredManual = 1
    None = None
    MaxDay = 1
    MaxForgotten = 1
SYMMETRY HandlerSymmetry
SPECIFICATION Spec
INVARIANTS
    TypeOK
    LockMeansUnknown
    AutomationEarned
    BudgetIsCounted
PROPERTIES
    ImplementsJournal
CHECK_DEADLOCK FALSE
