SPECIFICATION FairSpec
CONSTANTS
    A = a
    B = b
    Conns <- OneConn
    Msgs <- OneFromA
    TooLong <- AllFit
    Redundant = FALSE
    Faults = {"stream"}
    MaxFaults = 1
PROPERTIES
    ClosedHandlerTearsDown
CHECK_DEADLOCK FALSE
