SPECIFICATION FairSpec
CONSTANTS
    Ticks = {1, 2}
    Workers = {w1, w2}
    Maintainers = {w1}
    MaxCalls = 2
    MaxFaults = 1
INVARIANTS TypeOK
PROPERTIES TickNeverVanishes FreshSurvives CleanupConverges
CHECK_DEADLOCK FALSE
