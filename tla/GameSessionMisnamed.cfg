SPECIFICATION Spec
CONSTANTS
    Faults = {}
    MaxWire = 1
    MaxUplink = 1
    NumClients = 1
    NamesLens = {128}
    LongestNames = {63}
    MaxSend = 2
    MaxGames = 2
    MaxLog = 4
    MaxQueue = 2
INVARIANTS
    LinesNameTheRightPlayer
