SPECIFICATION Spec
CONSTANTS
    Hosts = {b1, r}
    Relay = r
    BootSets = {{b1}}
    Ips = {i1}
    CircuitLocal = FALSE
    MaxAddrs = 8
    MaxAttempts = 2
    MaxChanges = 0
    MaxConns = 1
    MaxDials = 2
INVARIANTS
    RecordVerifies
CHECK_DEADLOCK FALSE
