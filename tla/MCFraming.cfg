CONSTANTS
    Undefined = Undefined
    NoFrame = NoFrame
    Written <- MCAll
    MaxFrames = 2
    CutFrames <- MCCut
SPECIFICATION Spec
INVARIANTS
    TypeOK
    ChunkFaithful
    FirstFrameRecognised
    TurnsTakeBytes
CHECK_DEADLOCK FALSE
