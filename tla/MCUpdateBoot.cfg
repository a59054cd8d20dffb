CONSTANTS
    Worker = worker
    Watchdog = watchdog
    Boots = {boot}
    Helpers = {h1}
    NoProc = nobody
    Faults = FALSE
    MaxLoss = 1
SPECIFICATION FairSpec
PROPERTIES BootRestoresPair
CHECK_DEADLOCK FALSE
