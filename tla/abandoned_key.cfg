SPECIFICATION Spec
CONSTANTS
    NumServers = 2
    Window = 1
    NumChunks = 1
    Commands = {"enable"}
    MaxKeys = 9
    MaxBlocks = 3
    Faults = {"crash"}
    MaxFaults = 1
    MaxCommands = 0
    NumberOfTries = 1
CHECK_DEADLOCK FALSE
INVARIANT NoKeyAbandoned
