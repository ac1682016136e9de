------------------------------ MODULE Readiness ------------------------------
(***************************************************************************)
(* GET /health/ and GET /ready/, whose four checks run one after another;    *)
(* the check of Redis writes, reads and deletes one key that all probes    *)
(* share.                                                                  *)
(***************************************************************************)
EXTENDS TraceContext

VARIABLE probe  \* whether Redis holds the key "healthcheck:probe"

\* The check of d is over, and the next begins.
Checked(p, d, ok, next) ==
    Move(p, [job[p] EXCEPT !.at = next, !.failing = IF ok THEN @ ELSE @ \cup {d}])

Unreachable(d) == d \in down

\* check_database
CheckDatabase(p) ==
    /\ job[p].at = "begun" /\ job[p].op = "ready"
    /\ \/ DatabaseWorks(p) /\ Checked(p, "database", TRUE, "redis")
       \/ DatabaseFails(p) /\ Checked(p, "database", FALSE, "redis")
    /\ UNCHANGED <<bound, left, down, outages, probe>>

\* check_redis: cache.set, cache.get and cache.delete; what they raise is caught.
SetProbe(p) ==
    /\ job[p].at = "redis"
    /\ IF Unreachable("redis")
       THEN Checked(p, "redis", FALSE, "broker") /\ UNCHANGED probe
       ELSE Goto(p, "probe_set") /\ probe' = TRUE
    /\ UNCHANGED <<bound, left, down, outages>>

GetProbe(p) ==
    /\ job[p].at = "probe_set"
    /\ IF Unreachable("redis") \/ ~probe THEN Checked(p, "redis", FALSE, "broker")
                                         ELSE Goto(p, "probe_read")
    /\ UNCHANGED <<bound, left, down, outages, probe>>

DeleteProbe(p) ==
    /\ job[p].at = "probe_read"
    /\ Checked(p, "redis", ~Unreachable("redis"), "broker")
    /\ probe' = (probe /\ Unreachable("redis"))
    /\ UNCHANGED <<bound, left, down, outages>>

\* The key lives ten seconds.
ProbeExpires ==
    /\ probe
    /\ probe' = FALSE
    /\ UNCHANGED contextVars

\* check_celery_broker
CheckBroker(p) ==
    /\ job[p].at = "broker"
    /\ Checked(p, "broker", ~Unreachable("broker"), "workers")
    /\ UNCHANGED <<bound, left, down, outages, probe>>

\* check_celery_workers: the ping goes through the broker.
CheckWorkers(p) ==
    /\ job[p].at = "workers"
    /\ Checked(p, "workers", ~Unreachable("broker") /\ ~Unreachable("workers"), "checked")
    /\ UNCHANGED <<bound, left, down, outages, probe>>

\* is_ready and the answer.  log_action writes to the database that may be what
\* has failed; nobody catches what it raises then.
AnswerReady(p) ==
    LET j == job[p] IN
    /\ j.at = "checked"
    /\ \/ j.failing = {} /\ Reply(p, j, 200)
       \/ j.failing # {} /\ DatabaseWorks(p) /\ Reply(p, Put(j, "audit", j.trace), 503)
       \/ j.failing # {} /\ DatabaseFails(p) /\ Raise(p, Unexpected)
    /\ UNCHANGED <<bound, left, down, outages, probe>>

AnswerLive(p) ==
    /\ job[p].at = "begun" /\ job[p].op = "live"
    /\ Reply(p, job[p], 200)
    /\ UNCHANGED <<bound, left, down, outages, probe>>

ReadinessStep(p) ==
    \/ CheckDatabase(p) \/ SetProbe(p) \/ GetProbe(p) \/ DeleteProbe(p)
    \/ CheckBroker(p) \/ CheckWorkers(p) \/ AnswerReady(p) \/ AnswerLive(p)

\* The responses core/openapi_health.py lists.
HealthDocs == [live |-> {200}, ready |-> {200, 503}]
=============================================================================
