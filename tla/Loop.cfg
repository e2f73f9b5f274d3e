CONSTANTS
    Workers = {a, b}
    Budgets <- LoopEvents
SPECIFICATION LiveSpec
CHECK_DEADLOCK FALSE
INVARIANTS
    TypeOK
    CountedWhileConsuming
    PauseHonoured
PROPERTIES
    BlockStays
    LatchReachesStore
    ConvergesOnDesired
    BlockSpreads
