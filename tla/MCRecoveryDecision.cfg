CONSTANTS
    Worker = worker
    Helpers = {h1, h2}
    BootHelpers = {h2}
    BootSup = bootsup
    NoProc = nobody
    Armed = 1
    Deadline = 2
    MaxUtc = 2
    MaxSettle = 2
SPECIFICATION Spec
INVARIANTS CommitExcludesRecovery RestoredMeansWindow2
PROPERTIES ImplementsArbiter
CHECK_DEADLOCK FALSE
