SPECIFICATION Spec
CONSTANTS
    A = a
    B = b
    Initiators <- BothDialed
    Sends <- OneFrameEach
    HeaderLen = 1
    MaxPayload = 1
    Window = 2
    Chunk = 1
    MaxFaults = 0
INVARIANTS
    EndsShareStream
CHECK_DEADLOCK FALSE
