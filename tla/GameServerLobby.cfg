SPECIFICATION Spec
CONSTANTS
    Width = 2
    Height = 1
    TurningSpeed = 90
    NumSockets = 3
    MaxClients = 3
    Names = {1, 2}
    Sessions = {1}
    TurnBytes = {0, 1}
    PruneEvery = 2
    StartHeadings = {0}
    HalfPixel = 1
    Cos <- AxisCos
    Sin <- AxisSin
    UintRange = 65536
    NameLen <- ShortNames
    MaxNamesLen = 6
    Timeout = 1
    GameIds = {1}
INVARIANTS
    TwoSnakes NoReadyPairLeftWaiting
PROPERTIES
    NoMidGameJoin
