CONSTANTS
    Undefined = Undefined
    WellKnown <- MCWellKnown
    Reserved <- MCReserved
    Entries <- MCEntries
    MaxEntries = 2
    MaxIterators = 2
    RoutingType <- ROUTING
    StreamPrefix <- MCStreamPrefix
    FirePrefix <- MCFirePrefix
    Services <- MCServices
    Methods <- MCMethods
    Instances <- MCInstances
    ArgumentLists <- MCArguments
    Results <- MCResults
    Responders = {"router", "response", "stream", "fnf", "channel"}
SPECIFICATION Spec
INVARIANTS
    TypeOK
    EntriesComeOutOnce
    CalledAsAsked
    OutcomeTold
PROPERTY FindsLatest
CHECK_DEADLOCK FALSE
