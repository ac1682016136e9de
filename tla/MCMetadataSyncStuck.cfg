\* A lost task or message leaves SYNCING for ever.
SPECIFICATION FairSpec
CONSTANTS
    r1 = r1
    r2 = r2
    Requests <- TwoRequests
    MaxRetries = 1
    MaxVersion = 1
    Faults <- ProcessFaults
PROPERTIES
    SyncSettles
CHECK_DEADLOCK FALSE
