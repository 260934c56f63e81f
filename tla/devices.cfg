SPECIFICATION DevicesSpec
CONSTANTS
    Programs = {"gprs", "gtm900b", "g600", "uc864e", "cx930xx"}
    Room <- AnyRoom
    Timeout = 3
    MaxBacklog = 2
    MaxNoise = 1
    SlotCount = 2
    Users = {"u1", "u2"}
    NoUser = "none"
    Rank <- UserRank
    RingHold = 1
    Modules = {"uc864e", "gtm900b"}
    Carriers = {"c1", "c2"}
    NoName = "unnamed"
INVARIANTS
    StaleNotTaken
    SlotAlone
    CarrierIsNamed
PROPERTIES
    RingFromItsLine
    CommandEnds
    BootEnds
\* A command ends, and so does the driver.
CHECK_DEADLOCK FALSE
