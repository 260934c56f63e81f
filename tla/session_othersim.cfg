SPECIFICATION Spec
CONSTANTS
    Configs <- BothConfigured
    Leftover <- NoLeftover
PROPERTY TriesOtherSim
