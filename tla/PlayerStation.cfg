SPECIFICATION FairSpec
CONSTANTS
    Width = 2
    Height = 2
    TurningSpeed = 90
    HalfPixel = 1
    Cos <- AxisCos
    Sin <- AxisSin
    UintRange = 65536
    IntHalf = 32768
    OptionRange = 16384
    PortRange = 14000
    ServerLines <- SomeServerLines
    Names <- SomeNames
    Hosts <- SomeHosts
    Ports <- SomePorts
    MaxKeyPieces = 3
    MaxPieces = 3
    MaxGames = 2
    Impostors = {2}
INVARIANTS
    ConfigurationIsSound NamesArrive ExecutesWholeLines FieldHoldsOneGame HeldKeySteersThatWay
PROPERTIES
    OptionsAreAsWritten SettingsAreAsWritten HeldKeyIsHeard ReadingFreesTheClient
CHECK_DEADLOCK FALSE
