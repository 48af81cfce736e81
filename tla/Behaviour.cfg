SPECIFICATION Spec
CONSTANTS
    A = a
    B = b
    Conns <- TwoConns
    Msgs <- TwoFromA
    TooLong <- AllFit
    Redundant = TRUE
    Faults = {"link", "stream", "timeout"}
    MaxFaults = 1
INVARIANTS
    SessionOnLiveConnection
    AtMostOnce
    AckedWasDelivered
CHECK_DEADLOCK FALSE
