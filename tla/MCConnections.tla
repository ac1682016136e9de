---------------------------- MODULE MCConnections ----------------------------
\* Connections on small sets of calls, connections, names and slugs.
EXTENDS Connections

CONSTANTS c1, c2, c3, k1, k2, a, b, new, own, own2, own3, long

MCNames == [k \in {k1, k2} |-> IF k = k1 THEN a ELSE b]

\* "lengthy" is as long as a name may be, and the workspace has its slug.
MCCandidates == [n \in {"team", "lengthy"} |->
    IF n = "team" THEN <<own2, own3>> ELSE <<own, long>>]

MCPatches ==
    {[name |-> new, settings |-> "new", active |-> TRUE],
     [name |-> a], [name |-> b, settings |-> "new"], [name |-> new]}

\* The third call can only delete.
MCCan == [c \in {c1, c2, c3} |->
    CASE c = c1 -> WorkspaceOps \cup ConnectionOps
      [] c = c2 -> {"workspace_create", "jira_connection_create", "jira_connection_update",
                    "jira_connection_test"}
      [] OTHER  -> {"workspace_delete"}]

MCWho == [c \in {c1, c2, c3} |-> IF c = c1 THEN Roles \ {"owner"} ELSE {"owner"}]
=============================================================================
