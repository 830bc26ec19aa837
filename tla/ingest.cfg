SPECIFICATION Spec
CONSTANTS
    NumServers = 2
    Window = 1
    NumChunks = 2
    Commands <- AllCommands
    MaxKeys = 3
    MaxBlocks = 4
    Faults = {"crash", "overflow"}
    MaxFaults = 1
    MaxCommands = 3
    NumberOfTries = 1
CHECK_DEADLOCK FALSE
INVARIANTS TypeOK InvocationHeld RngSequences NoSkippedBlock
PROPERTIES ExpiryKept LossAnnounced
