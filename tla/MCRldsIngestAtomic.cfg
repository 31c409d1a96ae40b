SPECIFICATION FairSpec
CONSTANTS
    t1 = t1
    t2 = t2
    t3 = t3
    p1 = p1
    p2 = p2
    Threads = {t1, t2, t3}
    Processes = {p1, p2}
    Runs = {r1, r2}
    Free = Free
    Orphaned = Orphaned
    ProcessOf <- MCProcessOf
    StepsOf <- MCStepsOf
    NEpisodes = 2
    BatchSize = 2
    MaxCalls = 3
    Faults = {}
CHECK_DEADLOCK FALSE
INVARIANTS AlreadyIngestedIsComplete
PROPERTIES IngestIsAtomic CallsEnd
