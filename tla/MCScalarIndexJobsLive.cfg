SPECIFICATION FairSpec
CONSTANTS
    Callers = {c1, c2}
    Maintainers = {m1}
    Modes = {"async", "sync"}
    Offered = {"request"}
    Overlaps = {3}
    None = None
PROPERTIES StuckJobsEnd
CHECK_DEADLOCK FALSE
