SPECIFICATION Spec
CONSTANTS
    w = w
    s = s
    b1 = b1
    b2 = b2
    none = none
    Worker <- w
    Watchdog <- s
    Boots <- MCBoots
    NoProc <- none
    Armed = 1
    Deadline = 2
    MaxUtc = 3
INVARIANTS CommitExcludesRecovery ExclusiveRecovery PastWindow1IsCommitted
PROPERTY ImplementsArbiter
CHECK_DEADLOCK FALSE
