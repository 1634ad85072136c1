CONSTANTS
    Undefined = Undefined
    Sizes = {0, 2}
    Numbers = {7, 66051}
    MaxData = 8
SPECIFICATION BufferSpec
INVARIANTS
    BufferTypeOK
    FieldsIntact
CHECK_DEADLOCK FALSE
