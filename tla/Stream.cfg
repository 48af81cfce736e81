SPECIFICATION Spec
CONSTANTS
    A = a
    B = b
    Initiators <- BothDialed
    Sends <- MixedFrames
    HeaderLen = 2
    MaxPayload = 2
    Window = 3
    Chunk = 2
    MaxFaults = 1
INVARIANTS
    ReadBufferBounded
    RefusesOnlyBadFrames
PROPERTIES
    ImplementsFrameStream
    FramesFlow
CHECK_DEADLOCK FALSE
