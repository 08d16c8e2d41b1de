SPECIFICATION MCSpec
CONSTANTS
    Buses <- MCBuses
    None = None
    Configs = {c1, c2}
    Default = Default
    MaxRestarts = 1
    Word = 16
    Interval = 5
    Tasks = {t1, t2}
    Faults = {f}
    Handlers = {1, 2, 3, 4, 5}
    MaxFaults = 2
    Indexes = 3
INVARIANTS ServesWhenReady ManifestSound PairedWhole ServicesSound
PROPERTY ComesUp
