SPECIFICATION SessionSpec
CONSTANTS
    Peers = {k1, k2}
    MaxInits = 2
    MaxMessages = 2
INVARIANT BothDerive
