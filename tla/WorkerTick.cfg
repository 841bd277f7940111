CONSTANTS
    Runners = {cron, tick}
    Ladders <- MCEditedLadders
    Prices = {3, 6}
    TakeLevel = 12
    StopLevel = 3
    BuyStopLevel = 5
    MaxDailyBuys = 1
    MaxDailySells = 1
    MaxPositionValue = 9
    Backend = "file"
    MaxDay = 1
SPECIFICATION Spec
SYMMETRY RunnerSymmetry
INVARIANTS
    TypeOK
    
    ExecutedStepsWereSent
    DailyBuysCounted
CHECK_DEADLOCK FALSE
