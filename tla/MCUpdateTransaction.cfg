CONSTANTS
    Worker = worker
    Watchdog = watchdog
    Boots = {boot}
    Helpers = {h1}
    NoProc = nobody
    Faults = TRUE
    MaxLoss = 1
SPECIFICATION Spec
INVARIANTS OutcomeHonest RestoredPairStays OneMutator
PROPERTIES ImplementsAtomicUpdate
CHECK_DEADLOCK FALSE
