----------------------------- MODULE MCHttpLayer -----------------------------
\* HttpLayer on small sets of requests and executions, together those that meet
\* on shared state.
EXTENDS HttpLayer, TLC

CONSTANTS probe1, probe2, session1, session2, session3, me1, me2, me3, any, e1, e2, p1, p2

MCTraffic ==
    {{probe1, probe2}, {session1, session2, session3}, {me1, me2, me3},
     {any, probe1}, {any, e1}, {e1, e2}}

MCIncoming == [u \in Units |->
    CASE u \in {probe1, session1, me1, e1} -> "none"
      [] u \in {session3, any, e2}         -> "blank"
      [] OTHER                             -> "x"]

MCPatches ==
    {<<>>, [locale |-> "a"], [timezone |-> "b"], [invalid |-> "a"], [malformed |-> "a"]}

MCAsks == [r \in Requests |->
    CASE r \in {probe1, probe2}     -> Asking({"ready"})
      [] r = session1               -> Asking({"auth_login", "auth_logout"})
      [] r \in {session2, session3} ->
             {ask \in Asking({"auth_logout", "auth_refresh"}) : ask.with \in Tokens}
      [] r \in {me1, me2, me3}      ->
             {ask \in Asking({"profile_update"}) :
                 ask.with = "valid" /\ DOMAIN ask.given \cap ProfileFields # {}}
      [] OTHER                      -> Asking(Operations)]

ThreadSymmetry == Permutations(Threads)
=============================================================================
