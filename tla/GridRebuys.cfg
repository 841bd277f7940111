CONSTANTS
    Runners = {cron}
    Modes = {"percent-grid", "loop-grid"}
    Rungs = {1, 2}
    Drop <- MCDrop
    Rise <- MCRise
    BasePrice = 100
    Prices = {60, 70, 100}
    StopLossPct = 20
    MaxLossPct = 30
    MaxDailyBuys = 2
    MaxDailySells = 2
    MaxDay = 1
    MaxLots = 2
    MaxFaults = 1
SPECIFICATION Spec
INVARIANTS
    RungBoughtOnce
CHECK_DEADLOCK FALSE
