SPECIFICATION Spec
CONSTANTS
    Hosts = {b1, r}
    Relay = r
    BootSets = {{b1}, {r}}
    Ips = {i1}
    CircuitLocal = FALSE
    MaxAddrs = 8
    MaxAttempts = 2
    MaxChanges = 2
    MaxConns = 1
    MaxDials = 2
INVARIANTS
    GuardsAreExact
    RecordIsCurrent
    PathIsHonest
PROPERTIES
    NodeJoins
    RecordSettles
CHECK_DEADLOCK FALSE
