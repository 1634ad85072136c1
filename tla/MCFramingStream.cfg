CONSTANTS
    Undefined = Undefined
    NoFrame = NoFrame
    Written <- MCStreams
    MaxFrames = 1
    CutFrames <- MCNone
SPECIFICATION Spec
INVARIANT StreamRequestFaithful
CHECK_DEADLOCK FALSE
