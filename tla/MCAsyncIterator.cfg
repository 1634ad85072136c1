CONSTANTS
    Sources = {"iterable", "asyncIterable", "processor", "error"}
    MaxItems = 4
    Errors = {"truthy", "falsy"}
SPECIFICATION Spec
INVARIANTS
    TypeOK
    EndsWithAll
PROPERTY ImplementsChannel
CHECK_DEADLOCK FALSE
