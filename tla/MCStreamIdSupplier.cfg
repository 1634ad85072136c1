CONSTANTS
    MASK = 7
    InitialValue = 0
SPECIFICATION Spec
INVARIANTS
    TypeOK
    ResultIsNext
PROPERTY LoopEnds
