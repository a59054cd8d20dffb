SPECIFICATION DeskSpec
CONSTANTS
    Limit = 3
    MaxRecords = 4
    MaxPowerLoss = 2
    s1 = s1
    s2 = s2
    Streams = {s1, s2}
    Backend = "ffmpeg"
    Grace = 1
    Fallback = 2
    Stall = 1
    MaxRestarts = 1
    Window = 2
    Stubborn = FALSE
    Around = {"session", "source", "crash"}
    MaxT = 4
    MaxLaunch = 3
    MaxExpiry = 4
    Cmds <- RepeatedIds
    Kind <- Repeated
    Lease = 1
    ControlGrace = 0
    Depth = 2
    CacheSize = 6
    MaxSends = 2
    MaxControlTime = 1
INVARIANTS AckedKept   
SYMMETRY StreamSymmetry
CHECK_DEADLOCK FALSE
