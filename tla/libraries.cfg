SPECIFICATION LibrariesSpec
CONSTANTS
    d1 = d1
    d2 = d2
    d3 = d3
    d4 = d4
    NoData = NoData
    Data = {d1, d2, d3, d4}
    Id <- SharedId
    NoId = "none"
    KeptId <- CutIds
    MaxSize = 3
    Libs = {"CArrayMgr", "na_array"}
    MaxElements = 4
    MaxAttributes = 2
    Names = {"SIM", "PSTN"}
    MaxListed = 3
    MaxBlocks = 10
    MobilePPPs = 2
INVARIANTS
    ItemsOwned
    IterationVisitsAll
    TreeIsDocument
    FreedOnce
    PointersAlive
    TermReleases
PROPERTY ImplementsQueue
\* A document is read once, and a configuration loaded and freed once.
CHECK_DEADLOCK FALSE
