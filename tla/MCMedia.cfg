SPECIFICATION MediaSpec
CONSTANTS
    MaxT = 5
    Skews = {0, 3}
    MaxLease = 2
    MaxExpiry = 4
    MaxBoots = 2
    Sns = {1}
    Ports = {11, 12}
    ManualPorts = {21}
    Kinds = {"v1", "desktop", "camera"}
    MaxRoutes = 1
    MaxClients = 2
    QueueFrames = 2
    MaxEpoch = 3
    MaxGen = 3
    SessionIds = {21, 22}
    SessionSns = {31}
    PoolPorts = {1, 2}
    MaxSessions = 2
    StaticSns = {}
    StaticPort = 9
    TTL = 1
    MaxSessionTime = 1
    MaxServerBoots = 1
    UseFailed = FALSE
INVARIANTS WithinGrant  ForwardedRight
CHECK_DEADLOCK FALSE
