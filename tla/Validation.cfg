SPECIFICATION FairSpec
CONSTANTS
    Addrs = {x}
    LocalAddr = localAddr
    Probers = {p1, p2}
    None = none
    ValidationTimeout = 1
    ProbeTimeout = 1
    RevalidateInterval = 2
    MaxAttempts = 2
    MaxAddrs = 2
    MaxQueue = 1
    MaxDials = 1
    MaxOthers = 1
INVARIANTS
    ValidatedAgrees
    ValidatedWasReached
PROPERTIES
    CandidateIsDecided
    StaleAddressLeavesRecord
CHECK_DEADLOCK FALSE
