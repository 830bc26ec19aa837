SPECIFICATION FairSpec
CONSTANTS
    NumServers = 2
    Window = 1
    NumChunks = 1
    Commands = {"activate"}
    MaxKeys = 9
    MaxBlocks = 3
    Faults = {}
    MaxFaults = 0
    MaxCommands = 2
    NumberOfTries = 1
CHECK_DEADLOCK FALSE
PROPERTY ActivationEnds
