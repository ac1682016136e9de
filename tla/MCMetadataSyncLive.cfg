\* Liveness without faults of the environment.
SPECIFICATION FairSpec
CONSTANTS
    r1 = r1
    r2 = r2
    Requests <- TwoRequests
    MaxRetries = 2
    MaxVersion = 1
    Faults <- NoFaults
INVARIANTS
    SettledStatusIsAnOutcome
PROPERTIES
    SyncSettles
    EveryoneFinishes
CHECK_DEADLOCK FALSE
