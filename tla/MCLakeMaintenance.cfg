SPECIFICATION FairSpec
CONSTANTS
    NTables = 1
    MaxVersion = 3
    Maintainers = {m1, m2}
    Creators = {c1}
    Retain = 1
    Quiet = TRUE
    Faults = TRUE
    None = None
INVARIANTS PinnedVersionsSurvive
PROPERTIES GarbageIsCollected
CHECK_DEADLOCK FALSE
