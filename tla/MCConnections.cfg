SPECIFICATION FairSpec
CONSTANTS
    c1 = c1
    c2 = c2
    c3 = c3
    k1 = k1
    k2 = k2
    a = a
    b = b
    new = new
    own = own
    own2 = own2
    own3 = own3
    long = long
    Calls = {c1, c2, c3}
    Existing = {k1, k2}
    OwnSlug = own
    TooLong = long
    Names <- MCNames
    Candidates <- MCCandidates
    Patches <- MCPatches
    Can <- MCCan
    Who <- MCWho
    Faults = {"audit", "crash"}
INVARIANTS
    TypeOK
    RowsConsistent
    TestAnswerIsStored
    AloneAsPromised
    UndocumentedHasCause
PROPERTIES
    ChangesKept
    CallsEnd
CHECK_DEADLOCK FALSE
