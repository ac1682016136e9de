\* Two syncs of different projects of one site.
SPECIFICATION Spec
CONSTANTS
    w1 = w1
    w2 = w2
    w3 = w3
    g1 = g1
    bug = bug
    story = story
    summary = summary
    own = own
    kanban = kanban
    s1 = s1
    high = high
    label = label
    Nobody = Nobody
    Writers = {w1, w2}
    Readers = {g1}
    Fetched <- OtherProject
INVARIANTS
    CacheIsOneSync
CHECK_DEADLOCK FALSE
