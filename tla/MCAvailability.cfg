CONSTANTS
    Client = Client
    Server = Server
    Transports = {"tcp", "ws"}
    Lossy = {Client, Server}
    MaxRequests = 1
    MaxForeign = 2
    MaxWire = 1
SPECIFICATION Spec
INVARIANT AvailabilityTruthful
CHECK_DEADLOCK FALSE
