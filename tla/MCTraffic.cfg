SPECIFICATION TrafficSpec
CONSTANTS
    ProbeTimeout = 2
    SubackDeadline = 1
    FrameTimeout = 2
    Snapshots = {1}
    MaxConn = 2
    MaxLinkTime = 1
    MaxCalls = 2
    MaxFrames = 0
    MaxWork = 1
    MaxSnap = 0
    Buffer = 2
    Drain = 1
    Base = 1
    BackoffCap = 3
    IdleTimeout = 1
    HttpWorkers = {w1, w2}
    Requests <- Answered
    UpdateProbe = FALSE
    Header = 2
    Cap = 3
    MaxCerts = 2
    MaxPolicy = 1
    MaxHttpConns = 1
    UpLimit = 1
    Loops = {"mqtt", "stream", "reverse"}
    Ends <- RecordEnds
    MaxMsg = 1
    BufLen = 2
    PlainBytes = 3
SYMMETRY HttpSymmetry
INVARIANTS OneConnection PreambleFirst  OneTunnel InStep InOrder
CHECK_DEADLOCK FALSE
