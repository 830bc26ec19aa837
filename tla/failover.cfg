SPECIFICATION FairSpec
CONSTANTS
    NumServers = 2
    Window = 1
    NumChunks = 1
    Commands = {"enable", "retire", "set_peers"}
    MaxKeys = 9
    MaxBlocks = 3
    Faults = {"crash", "ingest_error"}
    MaxFaults = 1
    MaxCommands = 2
    NumberOfTries = 1
CHECK_DEADLOCK FALSE
INVARIANT OneActive
PROPERTIES LossWhileIdle KeepsScanning
