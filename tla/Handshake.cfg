SPECIFICATION FairSpec
CONSTANTS
    Lo = lo
    Hi = hi
    Stranger = stranger
    None = none
    Malformed = malformed
    MaxFaults = 3
INVARIANTS
    PeerIsAuthentic
    EstablishedAgrees
PROPERTIES
    SettlesAsDialed
    NoHalfOpenSession
CHECK_DEADLOCK FALSE
