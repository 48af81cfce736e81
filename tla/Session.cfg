SPECIFICATION Spec
CONSTANTS
    Lo = lo
    Hi = hi
    Bodies = {b1}
    Controls = {c1}
    MsgIds = {1, 2}
    Sid = sid
    StaleSid = stale
    Garbage = garbage
    MaxSeq = 2
    SeenWindow = 1
INVARIANTS
    TypeOK
    NonceUnique
    InOrderExactlyOnce
    AcksAreTruthful
PROPERTIES
    ImplementsChannel
CHECK_DEADLOCK FALSE
