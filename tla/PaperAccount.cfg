CONSTANTS
    first = first
    second = second
    US = US
    KR = KR
    share = share
    in = in
    out = out
    stop = stop
    Requests = {first, second}
    Jobs <- MCJobs
    Sessions = {US, KR}
    Symbols = {share}
    Steps = {in, out, stop}
    StepOf <- MCStepOf
    Stages = {profit}
    Prices = {1}
    Quantities = {4}
    InitialCash = 6
    MaxDailyEntries = 1
    MaxPositions = 2
    MaxDay = 1
    MaxRequests = 3
SPECIFICATION Spec
INVARIANTS
    TypeOK
    StepFilledOnce
    EntriesADay
    
CHECK_DEADLOCK FALSE
