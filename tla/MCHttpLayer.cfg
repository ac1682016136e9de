SPECIFICATION Spec
CONSTANTS
    probe1 = probe1
    probe2 = probe2
    session1 = session1
    session2 = session2
    session3 = session3
    me1 = me1
    me2 = me2
    me3 = me3
    any = any
    e1 = e1
    e2 = e2
    p1 = p1
    p2 = p2
    Threads = {p1, p2}
    Workers = {w}
    Requests = {probe1, probe2, session1, session2, session3, me1, me2, me3, any}
    Executions = {e1, e2}
    Incoming <- MCIncoming
    MayFail = {"database", "redis", "broker", "workers"}
    MaxOutages = 1
    Tokens = {"token"}
    Patches <- MCPatches
    Asks <- MCAsks
    Traffic <- MCTraffic
INVARIANTS
    TraceIdsKept
    AnswersHaveReasons
PROPERTIES
    UndoesOverlappingOnly
SYMMETRY ThreadSymmetry
CHECK_DEADLOCK FALSE
