CONSTANTS
    Requests = {q1, q2}
    Runs = {r1, r2}
    MaxChanges = 4
SPECIFICATION FairSpec
INVARIANTS
    TypeOK
    OneCycle
    EnabledStaysArmed
PROPERTIES
    EnabledRuns
CHECK_DEADLOCK FALSE
