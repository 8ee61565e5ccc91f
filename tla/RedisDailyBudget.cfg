SPECIFICATION SharedSpec
CONSTANTS
    Instance = {a, b}
    NoTtl = NoTtl
    Cap = 2
    TicksPerSecond = 2
    SecondsPerDay = 2
    LastDay = 1
    MaxRequests = 4
    MaxFaults = 2
INVARIANTS EveryKeyExpires
PROPERTIES CapSpec
CHECK_DEADLOCK FALSE
