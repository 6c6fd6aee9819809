SPECIFICATION FairSpec
CONSTANTS
    NumClients = 2
    NamesLens = {476, 500}
    LongestNames = {63}
    MaxSend = 2
    MaxGames = 2
    MaxLog = 4
INVARIANTS
    TypeOK DatagramsAreGenuine DatagramsFit AnnouncementsArePending
PROPERTIES
    RoundsEnd AskedEventIsSent
