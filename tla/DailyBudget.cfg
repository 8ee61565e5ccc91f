SPECIFICATION Spec
CONSTANTS
    Thread = {t1, t2}
    NoThread = NoThread
    Cap = 2
    LastDay = 2
    MaxRestarts = 2
INVARIANTS CounterCovers
PROPERTIES CapSpec
