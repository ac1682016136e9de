\* Three concurrent syncs of one project and a reader.
SPECIFICATION Spec
CONSTANTS
    w1 = w1
    w2 = w2
    w3 = w3
    g1 = g1
    bug = bug
    story = story
    summary = summary
    own = own
    kanban = kanban
    s1 = s1
    high = high
    label = label
    Nobody = Nobody
    Writers = {w1, w2, w3}
    Readers = {g1}
    Fetched <- SameSite
INVARIANTS
    TypeOK
    ReadsAreWholeTables
PROPERTIES
    AtomicReplacement
    WritersFinish
CHECK_DEADLOCK FALSE
