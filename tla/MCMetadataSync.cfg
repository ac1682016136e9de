\* Safety under every fault.
SPECIFICATION Spec
CONSTANTS
    r1 = r1
    r2 = r2
    Requests <- TwoRequests
    MaxRetries = 2
    MaxVersion = 2
    Faults <- AllFaults
SYMMETRY RequestSymmetry
INVARIANTS
    TypeOK
    SyncingHasCause
    RowConsistent
    RowNeedsConnection
    RetriesExactlyBounded
PROPERTIES
    DataReplacedOnlyBySuccess
CHECK_DEADLOCK FALSE
