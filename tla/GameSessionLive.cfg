SPECIFICATION FairSpec
CONSTANTS
    Faults = {}
    MaxWire = 1
    MaxUplink = 1
    NumClients = 1
    NamesLens = {128}
    LongestNames = {63}
    MaxSend = 5
    MaxGames = 2
    MaxLog = 3
    MaxQueue = 1
INVARIANTS
    DatagramsAreReadInFull
PROPERTIES
    FollowsTheLogs KnowsTheCurrentGame
