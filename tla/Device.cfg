SPECIFICATION Spec
CONSTANTS
    p1 = p1
    p2 = p2
    i1 = i1
    i2 = i2
    Procs <- MCProcs
    Ids <- MCIds
    Ports <- MCPorts
    DefaultPort = DefaultPort
    chosenPort = chosenPort
    Texts = {t1}
    Inbox = {u1}
    Absent = Absent
    Torn = Torn
    NL = NL
    MaxStarts = 3
    MaxFaults = 1
INVARIANTS
    CutsLeaveWholeFiles
    NodesAreTheDevice
    ReportsAreTrue
    LogDamageIsBounded
PROPERTIES
    IdentityIsKept
    SendEnds
    AckedIsLogged
CHECK_DEADLOCK FALSE
