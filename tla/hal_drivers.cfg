SPECIFICATION FairSpec
CONSTANTS
    c1 = c1
    c2 = c2
    NoClient = NoClient
    Clients = {c1, c2}
    Priority <- Ranked
    Wants <- FirstOrBoth
    Drivers = {"gtm900b", "g600", "uc864e"}
    RestoredAfter = 0
    RemovedAfter = 1
    MaxMoves = 1
INVARIANTS
    TypeOK
    SwitchOnAlone
    SimInUse
PROPERTIES
    HoldersAreTold
    ReadyAgain
CHECK_DEADLOCK FALSE
