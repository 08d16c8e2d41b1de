SPECIFICATION MCSpec
CONSTANTS
    RingBytes = 4
    PopMax = 2
    DrainLimit = 2
    PktMax = 4
    DmaLens <- MCLens
    Rates <- MCRates
    ChunkSizes <- MCChunks
    BufCounts <- MCBufs
    DefaultBufs = 8
    Packets <- MCPackets
    AllocFails = TRUE
    Down = Down
    MaxEvents = 3
    Full = 8
    Shifted <- MCShifted
CHECK_DEADLOCK FALSE
INVARIANTS PlaysInOrder SettingsTaken NoOverflow
PROPERTY AudioFlows
