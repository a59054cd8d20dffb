SPECIFICATION ConsoleSpec
CONSTANTS
    Kinds = {"start", "renew", "list", "download", "upload"}
    Leases = {1}
    Ops = {1}
    LeaseTime = 2
    Results = 2
    MaxTime = 2
    MaxCommands = 2
    MaxFaults = 1
    MaxWindows = 1
    Tasks <- Bodies
    Method <- Methods
    Slots = 2
    SiblingFound = TRUE
    MaxMessages = 2
    MaxUpdates = 1
    MaxLosses = 1
    MaxEvents = 1
    MaxStops = 1
INVARIANTS RunOnce DrainQuiet ToldTruth
CHECK_DEADLOCK FALSE
