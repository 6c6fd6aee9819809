SPECIFICATION Spec
CONSTANTS
    Width = 3
    Height = 2
    TurningSpeed = 90
    NumSockets = 2
    MaxClients = 2
    Names = {1, 2}
    Sessions = {1}
    TurnBytes = {0, 255}
    PruneEvery = 1
    StartHeadings = {0}
    HalfPixel = 1
    Cos <- AxisCos
    Sin <- AxisSin
    UintRange = 65536
    NameLen <- ShortNames
    MaxNamesLen = 4
    Timeout = 1
    GameIds = {1}
INVARIANTS
    TypeOK PixelsMatchLog HeadIsLastPixel LogWellFormed OneSurvivor
PROPERTIES
    TurnsAsAsked PlaysByTheRules
