--------------------------- MODULE MetadataCache ----------------------------
(***************************************************************************)
(* What the cached metadata of a connection promises its readers: it is    *)
(* always the whole result of one sync, or empty before the first one.     *)
(***************************************************************************)
CONSTANTS
    Writers,  \* the syncs that may store their result
    Result,   \* Result[w] is the set of rows sync w stores
    Nobody    \* the owner of the cache before the first sync

VARIABLES
    owner,    \* the sync the metadata row describes
    rows      \* the rows of the metadata's tables

Init == owner = Nobody /\ rows = {}

Replace(w) == owner' = w /\ rows' = Result[w]

Next == \E w \in Writers : Replace(w)

Spec == Init /\ [][Next]_<<owner, rows>>
=============================================================================
