---------------------------- MODULE TraceContext ----------------------------
(***************************************************************************)
(* The trace id of the process that runs: a context variable that          *)
(* TraceIdMiddleware binds for a request and the signal hooks of Celery    *)
(* bind for a task, and that log lines, audit records and error bodies     *)
(* read.  A thread of the server handles requests one after another, a     *)
(* worker process tasks; neither starts with a clean variable.             *)
(*                                                                         *)
(* Readiness and Sessions say what a request does, HttpLayer puts them     *)
(* together.                                                               *)
(*                                                                         *)
(* A definition named Bug... is the one after it with a plausible mistake; *)
(* no specification uses it.  It shows which property notices the mistake. *)
(***************************************************************************)
EXTENDS Errors

CONSTANTS
    Threads,     \* the threads of the web server
    Workers,     \* the worker processes of Celery
    Requests,    \* the HTTP requests
    Executions,  \* the executions of tasks; each retry is one of its own
    Incoming,    \* what each brings as its id: a name, white space ("blank") or "none"
    MayFail,     \* the dependencies that may be down
    MaxOutages   \* how often that happens

Units == Requests \cup Executions
Processes == Threads \cup Workers
Dependencies == {"database", "redis", "broker", "workers"}

ASSUME UnitsAssumption == Requests \cap Executions = {} /\ DOMAIN Incoming = Units
ASSUME ProcessesAssumption == Threads \cap Workers = {}
ASSUME OutagesAssumption == MayFail \subseteq Dependencies /\ MaxOutages \in Nat

VARIABLES
    bound,    \* trace_id_var, for each process
    job,      \* the request or task each process is running
    left,     \* the requests and executions that have not begun
    down,     \* the dependencies that are down
    outages   \* how often one went down

contextVars == <<bound, job, left, down, outages>>

-----------------------------------------------------------------------------
(* core/context.py                                                          *)

ClientId(name) == [by |-> "client", of |-> name, nth |-> 0]
Unbound == [by |-> "nobody", of |-> "none", nth |-> 0]

\* generate_trace_id: no two UUIDs are equal.
GenerateTraceId(u, nth) == [by |-> "server", of |-> u, nth |-> nth]

\* resolve_trace_id, of a request: the header is stripped first.
ResolveTraceId(r, nth) ==
    IF Incoming[r] \in {"none", "blank"} THEN GenerateTraceId(r, nth) ELSE ClientId(Incoming[r])

\* _extract_trace_id, of a task: white space is an id like any other.
ExtractTraceId(e, nth) ==
    IF Incoming[e] = "none" THEN GenerateTraceId(e, nth) ELSE ClientId(Incoming[e])

-----------------------------------------------------------------------------
(* What a process is running.                                               *)

\* "with" is the credential of the request, "given" its body, "out" what was
\* written under which id, and "lost" whether the database went down meanwhile.
NoJob ==
    [unit |-> "none", op |-> "none", at |-> "idle", trace |-> Unbound, with |-> "none",
     given |-> <<>>, copy |-> <<>>, failing |-> {}, lost |-> FALSE, out |-> {},
     answer |-> Answer(0, "none")]

Idle(p) == job[p] = NoJob

Move(p, j) == job' = [job EXCEPT ![p] = j]
Goto(p, next) == Move(p, [job[p] EXCEPT !.at = next])

\* A line, a record, a body or a header with an id.
Put(j, kind, id) == [j EXCEPT !.out = @ \cup {[kind |-> kind, id |-> id]}]

\* log_action and add_trace_id without an explicit id.
Audit(p) == Put(job[p], "audit", bound[p])

\* A connection that was lost is not opened again before the end of the job.
DatabaseWorks(p) == "database" \notin down
DatabaseFails(p) == "database" \in down \/ job[p].lost

-----------------------------------------------------------------------------
(* Requests: TraceIdMiddleware.                                             *)

\* Without a header, a variable that is set is left as it is.
BugAccept(p, r, j) ==
    LET id == IF Incoming[r] \in {"none", "blank"} /\ bound[p] # Unbound
              THEN bound[p] ELSE ResolveTraceId(r, 1) IN
    /\ Idle(p) /\ r \in left
    /\ left' = left \ {r}
    /\ bound' = [bound EXCEPT ![p] = id]
    /\ Move(p, [j EXCEPT !.unit = r, !.trace = id])
    /\ UNCHANGED <<down, outages>>

\* The thread takes request r; j says what it asks.
Accept(p, r, j) ==
    LET id == ResolveTraceId(r, 1) IN
    /\ Idle(p) /\ r \in left
    /\ left' = left \ {r}
    /\ bound' = [bound EXCEPT ![p] = id]
    /\ Move(p, [j EXCEPT !.unit = r, !.trace = id])
    /\ UNCHANGED <<down, outages>>

\* The response of job j, on its way out; build_error_payload reads the variable.
Answered(p, j, answer) ==
    LET headed == Put(j, "header", j.trace) IN
    [(IF answer.code = "none" THEN headed ELSE Put(headed, "body", bound[p]))
        EXCEPT !.at = "answered", !.answer = answer]

Reply(p, j, status) == Move(p, Answered(p, j, Success(status)))
Raise(p, exc) == Move(p, Answered(p, job[p], Handle(exc)))

\* The process takes up something else; the variable keeps its value.
Finish(p) ==
    /\ job[p].at \in {"answered", "finished"}
    /\ Move(p, NoJob)
    /\ UNCHANGED <<bound, left, down, outages>>

-----------------------------------------------------------------------------
(* Tasks: core/celery_hooks.py, around a task that writes an audit record.  *)

\* bind_trace_id_task_prerun
TaskPrerun(p) ==
    \E e \in left \cap Executions :
        LET id == ExtractTraceId(e, 1) IN
        /\ p \in Workers /\ Idle(p)
        /\ left' = left \ {e}
        /\ bound' = [bound EXCEPT ![p] = id]
        /\ Move(p, Put([NoJob EXCEPT !.unit = e, !.op = "task", !.at = "running", !.trace = id],
                       "started", id))
        /\ UNCHANGED <<down, outages>>

\* The task writes its record (ping gives its own argument as the id) and
\* returns or is retried.
TaskReturns(p) ==
    /\ job[p].at = "running"
    /\ DatabaseWorks(p)
    /\ Move(p, [Audit(p) EXCEPT !.at = "ran"])
    /\ UNCHANGED <<bound, left, down, outages>>

\* An exception leaves it, after its record or instead of it.
TaskRaises(p) ==
    /\ job[p].at = "running"
    /\ \/ DatabaseWorks(p) /\ Move(p, [Audit(p) EXCEPT !.at = "raised", !.op = "failed_task"])
       \/ Move(p, [job[p] EXCEPT !.at = "raised", !.op = "failed_task"])
    /\ UNCHANGED <<bound, left, down, outages>>

\* log_task_failure: an id that came with the task is found again, a generated
\* one is not.  Celery swallows an exception of log_action.
LogTaskFailure(p) ==
    LET id == ExtractTraceId(job[p].unit, 2)
        ran == [job[p] EXCEPT !.at = "ran"] IN
    /\ job[p].at = "raised"
    /\ bound' = [bound EXCEPT ![p] = id]
    /\ \/ DatabaseWorks(p) /\ Move(p, Put(ran, "failure", id))
       \/ DatabaseFails(p) /\ Move(p, ran)
    /\ UNCHANGED <<left, down, outages>>

\* clear_trace_id_task_postrun
TaskPostrun(p) ==
    /\ job[p].at = "ran"
    /\ Move(p, [Put(job[p], "finished", bound[p]) EXCEPT !.at = "finished"])
    /\ bound' = [bound EXCEPT ![p] = Unbound]
    /\ UNCHANGED <<left, down, outages>>

\* The time limit kills the process, and another takes its place.
WorkerKilled(p) ==
    /\ job[p].at \in {"running", "raised", "ran"}
    /\ bound' = [bound EXCEPT ![p] = Unbound]
    /\ Move(p, NoJob)
    /\ UNCHANGED <<left, down, outages>>

TaskStep(p) ==
    \/ TaskPrerun(p) \/ TaskReturns(p) \/ TaskRaises(p) \/ LogTaskFailure(p)
    \/ TaskPostrun(p) \/ WorkerKilled(p)

-----------------------------------------------------------------------------
(* The environment.                                                         *)

GoesDown(d) ==
    /\ d \in MayFail \ down
    /\ outages < MaxOutages
    /\ down' = down \cup {d}
    /\ outages' = outages + 1
    /\ job' = [p \in Processes |->
                  IF d = "database" /\ ~Idle(p) THEN [job[p] EXCEPT !.lost = TRUE] ELSE job[p]]
    /\ UNCHANGED <<bound, left>>

ComesBack(d) ==
    /\ d \in down
    /\ down' = down \ {d}
    /\ UNCHANGED <<bound, job, left, outages>>
=============================================================================
