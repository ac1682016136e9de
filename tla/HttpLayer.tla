------------------------------ MODULE HttpLayer ------------------------------
(***************************************************************************)
(* The server threads and the workers together: probes, logins, logouts,   *)
(* refreshes and profile requests interleaved step by step with each other,*)
(* with tasks and with outages of what they depend on, each with the trace *)
(* id its process has bound.                                               *)
(***************************************************************************)
EXTENDS Readiness, Sessions

CONSTANTS
    Asks,    \* what each request may ask
    Traffic  \* the sets of requests and executions that may come together

Operations == DOMAIN HealthDocs \cup DOMAIN SessionDocs \cup DOMAIN ProfileDocs
Documented == [op \in Operations |->
    CASE op \in DOMAIN HealthDocs  -> HealthDocs[op]
      [] op \in DOMAIN SessionDocs -> SessionDocs[op]
      [] OTHER                     -> ProfileDocs[op]]

Credentials(op) ==
    CASE op = "auth_login"                        -> {"right", "wrong", "missing"}
      [] op \in {"auth_logout", "auth_refresh"}   -> Tokens \cup {"bad", "missing"}
      [] op \in {"profile_get", "profile_update"} -> {"valid", "bad", "none"}
      [] OTHER                                    -> {"none"}

\* All that can be asked of the operations ops.
Asking(ops) ==
    UNION {[op : {op}, with : Credentials(op),
            given : IF op = "profile_update" THEN Patches ELSE {<<>>}] : op \in ops}

ASSUME AsksAssumption == \A r \in Requests : Asks[r] \subseteq Asking(Operations)
ASSUME TrafficAssumption == Traffic \subseteq SUBSET Units

VARIABLE seen  \* for each thread, what was true at some and at all times of its
               \* request; the properties alone read it

vars == <<contextVars, probe, sessionVars, seen>>

\* What can explain an answer of process p.
Facts(p) ==
    down \cup {fact \in {"unverified", "revoked", "probe_gone"} :
                  \/ fact = "unverified" /\ user # "active"
                  \/ fact = "revoked"    /\ job[p].with \in blacklisted
                  \/ fact = "probe_gone" /\ job[p].at = "probe_set" /\ ~probe}

Nothing == [ever |-> {}, always |-> {}]

\* The facts, and the fields of the profile that are written.
Observe ==
    LET written == {f \in ProfileFields : profile'[f] # profile[f]} IN
    seen' = [p \in Threads |->
        CASE job'[p] = NoJob -> Nothing
          [] job'[p] # NoJob /\ Idle(p) -> [ever |-> Facts(p)', always |-> Facts(p)']
          [] OTHER -> [ever   |-> seen[p].ever \cup Facts(p)' \cup written,
                       always |-> seen[p].always \cap Facts(p)']]

Init ==
    /\ bound = [p \in Processes |-> Unbound]
    /\ job = [p \in Processes |-> NoJob]
    /\ left \in Traffic
    /\ down = {} /\ outages = 0
    /\ probe = FALSE
    /\ user \in {"absent", "active"}
    /\ blacklisted = {}
    /\ profile = DefaultProfile
    /\ seen = [p \in Threads |-> Nothing]

-----------------------------------------------------------------------------
(* Requests.                                                                *)

Begin(p) ==
    \E r \in left \cap Requests : \E ask \in Asks[r] :
        Accept(p, r, [NoJob EXCEPT !.op = ask.op, !.at = "begun",
                                   !.with = ask.with, !.given = ask.given])

RequestStep(p) ==
    \/ Begin(p) /\ UNCHANGED <<probe, sessionVars>>
    \/ ReadinessStep(p) /\ UNCHANGED sessionVars
    \/ SessionStep(p) /\ UNCHANGED probe

BackgroundStep ==
    \/ \E p \in Workers : TaskStep(p) /\ UNCHANGED <<probe, sessionVars>>
    \/ \E p \in Processes : Finish(p) /\ UNCHANGED <<probe, sessionVars>>
    \/ \E d \in Dependencies : (GoesDown(d) \/ ComesBack(d)) /\ UNCHANGED <<probe, sessionVars>>
    \/ ProbeExpires /\ UNCHANGED sessionVars
    \/ (AccountRegistered \/ AccountVerified) /\ UNCHANGED probe

Next == (BackgroundStep \/ \E p \in Threads : RequestStep(p)) /\ Observe

Spec == Init /\ [][Next]_vars

-----------------------------------------------------------------------------
(* Safety.                                                                  *)

\* The id a request or an execution has from the beginning.
OwnId(u) == IF u \in Requests THEN ResolveTraceId(u, 1) ELSE ExtractTraceId(u, 1)

\* Everything that is written for a request or an execution has its id: the one
\* it brought, or the one generated for it.  An id never goes over to what the
\* process runs next, whatever failed in between.  The one exception: after a
\* task that brought no id has failed, log_task_failure and the end of that task
\* have another generated id, which nothing else has.
TraceIdsKept ==
    \A p \in Processes : \A o \in job[p].out :
        \/ o.id = OwnId(job[p].unit)
        \/ /\ job[p].op = "failed_task" /\ o.kind \in {"failure", "finished"}
           /\ o.id = GenerateTraceId(job[p].unit, 2)

\* 200 of a probe means that no dependency was down all the time, 503 that one
\* was down at some time, or that the key of the probe was deleted by another
\* probe, or expired, between its writing and its reading.
ProbeHasReason(op, status, ever, always) ==
    op = "ready" =>
        /\ status = 200 => always \cap Dependencies = {}
        /\ status = 503 => ever \cap (Dependencies \cup {"probe_gone"}) # {}

\* A login is refused with the right password only if the account was not yet
\* verified, and accepted only if it was.  A token whose logout was answered 204
\* is refused from then on, and refused for no other reason but an outage; of
\* two successful logouts of one token each began before the other's end.  A
\* profile is shown to, and changed by, an active account only, and a valid token
\* is refused to no active one.
SessionHasReason(op, with, status, ever, always) ==
    /\ op = "auth_login" =>
           /\ status = 200 => with = "right" /\ "unverified" \notin always
           /\ status = 403 \/ (status = 401 /\ with = "right") => "unverified" \in ever
    /\ op \in {"auth_logout", "auth_refresh"} =>
           /\ status \in {200, 204} => with \in Tokens /\ "revoked" \notin always
           /\ status = 204 => with \in blacklisted
           /\ status = 401 /\ with \in Tokens =>
                  "revoked" \in ever \/ (op = "auth_logout" /\ "database" \in ever)
    /\ op \in {"profile_get", "profile_update"} =>
           /\ status \in {200, 400} => with = "valid" /\ "unverified" \notin always
           /\ status = 401 /\ with = "valid" => "unverified" \in ever

\* Every answer tells the truth about some moment between the request and its
\* answer, and what the documentation does not list has one of three reasons: the
\* 500 of an outage of the database (of a probe as well: its log_action) or of a
\* malformed time zone, a missing field, or the 401 that logout gives for every
\* failure.
AnswersHaveReasons ==
    \A p \in Threads : job[p].at = "answered" =>
        LET j == job[p]
            status == j.answer.status
            ever == seen[p].ever
            always == seen[p].always
        IN  /\ ProbeHasReason(j.op, status, ever, always)
            /\ SessionHasReason(j.op, j.with, status, ever, always)
            /\ status = 500 => "database" \in ever \/ "malformed" \in DOMAIN j.given
            /\ status \notin Documented[j.op] =>
                   \/ status = 500
                   \/ status = 400 /\ j.with = "missing"
                   \/ status = 401 /\ j.op = "auth_logout"

\* A PATCH of the profile changes a field it does not give only if another PATCH
\* has written that field since the first one began: no PATCH undoes what had
\* been answered before it (profile.save() of the row read before).
UndoesOverlappingOnly ==
    [][\A f \in ProfileFields : profile'[f] # profile[f] =>
           \E p \in Threads :
               /\ job[p].at = "profile_read" /\ job'[p].at = "profile_saved"
               /\ f \in DOMAIN job[p].given \/ f \in seen[p].ever]_vars
=============================================================================
