SPECIFICATION FairSpec
CONSTANTS
    a1 = a1
    a2 = a2
    Addrs <- MCAddrs
    Conns <- MCConns
    MaxAttempts = 2
    TTL = 1
    MaxNow = 2
    MaxTrouble = 3
    Troubles <- AllTroubles
CHECK_DEADLOCK FALSE
INVARIANTS
    GuardIsReleasable
    RediscoveryIsSingle
    LostPeerIsPursued
PROPERTIES
    LostPeerIsFound
