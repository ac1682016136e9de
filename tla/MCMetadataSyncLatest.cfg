\* An older sync overwrites the result of a newer one.
SPECIFICATION Spec
CONSTANTS
    r1 = r1
    r2 = r2
    Requests <- TwoRequests
    MaxRetries = 2
    MaxVersion = 2
    Faults <- NoFaults
INVARIANTS
    LatestSettingsKept
CHECK_DEADLOCK FALSE
