SPECIFICATION MCSpec
CONSTANTS
    NumSlots = 3
    Types <- AllDrivers
    Drv <- TableOf
    NoDriver = NoDriver
    Boards <- AllBoards
    MaxPasses = 2
    Rows <- AllRows
    Settings = {s1, s2}
    Unset = Unset
    PinPlatforms = {"esp32s3", "rp2040", "stm32", "arduino"}
    Pins = {0, 1, 4, 7}
    LineWidth = 4
    NumIsrSlots = 3
    Interrupting = {0, 1, 7}
    NoPin = NoPin
    StorePlatforms = {"esp32s3", "rp2040", "stm32", "arduino"}
    Keys = {101, 102}
    Values <- ShortAndLong
    Size = 11
    PageSize = 4
    NoJob = NoJob
INVARIANTS
    SlotsServed
    LeftClean
    PortsServe
    PinsServe
    StoreKeeps
CHECK_DEADLOCK FALSE
