SPECIFICATION FairSpec
CONSTANTS
    Configs <- AtMostOneConfigured
    Leftover <- LeftoverOnSim2
INVARIANTS
    TypeOK
    DialsSelectedSim
    DialHasCredentials
PROPERTIES
    RecordsLiveSim
    SourcesInOrder
    ApnSearchEnds
    FallbackHappens
    ShutdownUnlessSearching
