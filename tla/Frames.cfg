SPECIFICATION Spec
CONSTANTS
    Channels = {c1, c2}
    c1 = c1
    c2 = c2
    MaxOps = 2
    PublishParts = {3}
    BufferFrames = 1
    MaxFaults = 1
    MaxPauses = 1
SYMMETRY Symmetry
CHECK_DEADLOCK FALSE
INVARIANTS
    TypeOK
    Contiguous
PROPERTIES
    SentWhenOk
    AnswerSettlesOwn
