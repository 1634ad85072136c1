CONSTANTS
    Client = Client
    Server = Server
    NoRequest = NoRequest
    MASK = 3
    r1 = r1
    r2 = r2
    r3 = r3
    r4 = r4
    Requests = {r1}
    Owner <- OneOwner
    Kind <- OneResponse
    MaxItems = 1
    AckFirst = FALSE
    Breaks = {}
    Throwing = {}
SPECIFICATION Spec
INVARIANT NoAnswerLost
CHECK_DEADLOCK FALSE
