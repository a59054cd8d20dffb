SPECIFICATION SupervisorSpec
CONSTANTS
    Processes = {"renew", "cli", "gui"}
    RenewPins = {"r1"}
    SetupPins = {"s1"}
    MaxKeys = 2
    Faults <- AllFaults
    MaxFaults = 2
    Deadline = 2
    MaxTick = 4
    MaxFailures = 1
    MayStop = TRUE
    Epochs = {"own", "foreign"}
INVARIANTS Recoverable  NotEarly
CHECK_DEADLOCK FALSE
