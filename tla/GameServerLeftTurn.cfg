SPECIFICATION Spec
CONSTANTS
    Width = 2
    Height = 1
    TurningSpeed = 6
    NumSockets = 2
    MaxClients = 2
    Names = {1, 2}
    Sessions = {1}
    TurnBytes = {0, 1, 255}
    PruneEvery = 1
    StartHeadings = {0}
    HalfPixel = 1
    Cos <- AxisCos
    Sin <- AxisSin
    UintRange = 65536
    NameLen <- ShortNames
    MaxNamesLen = 4
    Timeout = 1
    GameIds = {1}
PROPERTIES
    TurnsAsAsked
