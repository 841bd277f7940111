CONSTANTS
    Runners = {cron}
    Ladders <- MCShortLadder
    Prices = {3, 12}
    TakeLevel = 12
    StopLevel = 3
    BuyStopLevel = 5
    MaxDailyBuys = 1
    MaxDailySells = 1
    MaxPositionValue = 9
    Backend = "supabase"
    MaxDay = 1
SPECIFICATION FairSpec
PROPERTIES
    PendingStopsEntries
    PendingKeptUntilLiquidated
    
CHECK_DEADLOCK FALSE
