CONSTANTS
    Client = Client
    Server = Server
    Transports = {"tcp", "ws"}
    Lossy = {Client, Server}
    MaxRequests = 1
    MaxForeign = 1
    MaxWire = 1
SPECIFICATION FairSpec
INVARIANTS
    TypeOK
    OnlyEarlyDropped
PROPERTIES
    RefusedServesNothing
    TimerStops
    LoopEnds
    PingsDieOut
CHECK_DEADLOCK FALSE
