CONSTANTS
    Client = Client
    Server = Server
    NoRequest = NoRequest
    MASK = 3
    r1 = r1
    r2 = r2
    r3 = r3
    r4 = r4
    Requests = {r1, r2, r3}
    Owner <- AckOwner
    Kind <- AckKind
    MaxItems = 1
    AckFirst = TRUE
    Breaks = {Server}
    Throwing = {}
SPECIFICATION FairSpec
INVARIANTS
    NothingMissing
    NoAnswerLost
PROPERTIES
    RequestSettles
    ImplementsInteraction
CHECK_DEADLOCK FALSE
