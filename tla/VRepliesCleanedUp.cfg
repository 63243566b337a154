SPECIFICATION Spec
CONSTANTS
    Channels = {c1}
    c1 = c1
    MaxOps = 1
    PublishParts = {3}
    BufferFrames = 1
    MaxFaults = 2
    MaxPauses = 0
CHECK_DEADLOCK FALSE
INVARIANT RepliesCleanedUp
