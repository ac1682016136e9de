SPECIFICATION FairSpec
CONSTANTS
    Registrations = {r1, r2}
    Verifications = {v1}
    ResetRequests = {q1, q2}
    Confirmations = {c1}
    MaxMailRetries = 1
    Faults = {"broker", "web_crash", "worker_crash", "audit", "smtp"}
INVARIANTS
    TypeOK
    RegisteredIsComplete
    InactiveHasCause
PROPERTIES
    UserFieldsKept
    RegistrationIsMailed
CHECK_DEADLOCK FALSE
