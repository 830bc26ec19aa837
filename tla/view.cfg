SPECIFICATION ViewSpec
CONSTANTS
    s1 = s1
    Store = {s1}
    BatchSize = 1
    MaxQueued = 0
    MaxRequest = 1
    Window = 2
    MaxKeys = 2
    MaxBlocks = 2
    MaxInvocations = 2
    MaxFaults = 1
INVARIANTS TypeOK PipelineWhole ViewComplete ClientComplete
PROPERTY ClientCatchesUp
