SPECIFICATION FairSpec
CONSTANTS
    Views = {1, 2}
    FileCount <- MCFileCount
    Workers = {w1, w2}
    Maintainers = {w1}
    Grace = 2
    Attempts = 2
    LastPublish = 2
    MaxClock = 3
    MaxForced = 1
    MaxFaults = 1
    None = None
INVARIANTS PublishedViewsAreComplete
PROPERTIES PointerNeverRegresses LastViewSurvives LatestHeals OrphanFilesReclaimed
CHECK_DEADLOCK FALSE
