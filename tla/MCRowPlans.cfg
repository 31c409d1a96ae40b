SPECIFICATION FairSpec
CONSTANTS
    Plans = {1, 2}
    ChunkCount <- MCChunkCount
    Compilers = {k1}
    Pruners = {r1}
    Compactors = {c1}
    Records = {t1}
    TableOf <- MCTableOf
    Retain = 1
    Grace = 1
    LastCompile = 2
    MaxClock = 4
    MaxFaults = 1
    Overlaps = {FALSE}
    None = None
INVARIANTS OnlyOldPlansAreLost EvidenceIsReplayable NoStrandedChunks
PROPERTIES HalfPrunedConverges OrphansReclaimed
CHECK_DEADLOCK FALSE
