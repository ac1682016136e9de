SPECIFICATION FairSpec
CONSTANTS
    Invitations = {i1, i2, i3, i4}
    Earlier = {i1, i2}
    Acceptances = {a1, a2}
    MaxMailRetries = 1
    Faults = {"broker", "web_crash", "worker_crash", "audit", "smtp"}
INVARIANTS
    TypeOK
    OneMembershipPerUser
    InviteeHasAWayIn
    PendingTogetherOnlyByRace
    OnlyCreatedInvitesAreMailed
PROPERTIES
    MembershipIsKept
    CallsAndMailsEnd
CHECK_DEADLOCK FALSE
