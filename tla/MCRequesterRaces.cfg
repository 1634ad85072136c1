CONSTANTS
    Client = Client
    Server = Server
    NoRequest = NoRequest
    MASK = 3
    r1 = r1
    r2 = r2
    r3 = r3
    r4 = r4
    Requests = {r1, r2, r3, r4}
    Owner <- RaceOwner
    Kind <- RaceKind
    MaxItems = 2
    AckFirst = FALSE
    Breaks = {}
    Throwing = {r1}
SPECIFICATION Spec
INVARIANTS
    TypeOK
    OwnAnswers
    SignalOrder
    InOrder
    OutcomeTruthful
    SendersAreOpen
CHECK_DEADLOCK FALSE
