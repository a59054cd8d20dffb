SPECIFICATION CaptureSpec
CONSTANTS
    Commands <- AllCommands
    MaxCommands = 2
    MaxEvents = 1
    QueueCap = 2
    WriterTimeout = 2
    IdrMin = 2
    MetricsMs = 1
    MaxTime = 3
    WindowMs = 2
    HoldOffMs = 4
    FloorBad = 5
    P95MinSamples = 20
    Windows <- AllWindows
    Requests = {1, 2, 3}
    Sources <- Screens
    Inis <- SomeInis
    MaxLate = 1
    MaxLadderTime = 27
  
PROPERTIES  StepEarned
CHECK_DEADLOCK FALSE
