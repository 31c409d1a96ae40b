SPECIFICATION FairSpec
CONSTANTS
    Runs = {r1}
    Workers = {w1, w2}
    MaxContent = 2
    MaxCalls = 1
    MaxFaults = 1
    Overlaps = {FALSE, TRUE}
    None = None
PROPERTIES OnlyUnreferencedDropped ManifestsConverge CatalogConverges
CHECK_DEADLOCK FALSE
