SPECIFICATION FairSpec
CONSTANTS
    Configs <- BothConfigured
    Leftover <- NoLeftover
PROPERTY DoorsCheckedAlways
