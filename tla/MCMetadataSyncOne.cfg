\* Two syncs of one connection at the same time.
SPECIFICATION Spec
CONSTANTS
    r1 = r1
    r2 = r2
    Requests <- TwoRequests
    MaxRetries = 2
    MaxVersion = 1
    Faults <- NoFaults
INVARIANTS
    AtMostOneSync
CHECK_DEADLOCK FALSE
