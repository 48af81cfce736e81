SPECIFICATION FairSpec
CONSTANTS
    A = a
    B = b
    Conns <- TwoConns
    Msgs <- ThreeFromA
    TooLong <- SecondTooLong
    Redundant = FALSE
    Faults = {"link", "text", "attempt"}
    MaxFaults = 1
INVARIANTS
    InOrder
    NoSpuriousFailure
PROPERTIES
    EveryTextAcknowledged
    SessionRecovers
CHECK_DEADLOCK FALSE
