SPECIFICATION FairSpec
CONSTANTS
    Width = 2
    Height = 2
    TurningSpeed = 90
    HalfPixel = 1
    Cos <- AxisCos
    Sin <- AxisSin
    UintRange = 65536
    IntHalf = 32768
    OptionRange = 16384
    PortRange = 14000
    ServerLines <- NoLines
    Names <- OneName
    Hosts <- OneHost
    Ports <- NoPorts
    MaxKeyPieces = 2
    MaxPieces = 3
    MaxGames = 1
    Impostors = {}
PROPERTIES
    ClosingEndsTheClient
CHECK_DEADLOCK FALSE
