SPECIFICATION Spec
CONSTANTS
    Faults = {"loss", "delay", "repeat"}
    MaxWire = 2
    MaxUplink = 1
    NumClients = 1
    NamesLens = {128}
    LongestNames = {63, 70}
    MaxSend = 2
    MaxGames = 2
    MaxLog = 3
    MaxQueue = 1
INVARIANTS
    NumbersAreGapless AcceptsGenuineEvents NeverQuits
