SPECIFICATION Spec
CONSTANTS
    NTables = 1
    MaxVersion = 5
    Maintainers = {m1}
    Creators = {c1}
    Retain = 2
    Quiet = FALSE
    Faults = FALSE
    None = None
INVARIANTS PinnedVersionsSurvive
CHECK_DEADLOCK FALSE
