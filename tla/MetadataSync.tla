---------------------------- MODULE MetadataSync ----------------------------
(***************************************************************************)
(* The Jira metadata sync of one connection: the web handler that starts a *)
(* sync, the Celery task that carries it out and its retries, and the      *)
(* database rows they share with the connection editor, the workspace      *)
(* deletion and the polling reader.                                        *)
(*                                                                         *)
(* Every action is one database statement or transaction, one broker call  *)
(* or one exchange with Jira: the code takes no lock and, outside the      *)
(* commit of a successful sync, opens no transaction, so any two of them   *)
(* may interleave.  A POST publishes at most one message, so a request and *)
(* the task it publishes share their identifier.                           *)
(*                                                                         *)
(* A definition named Bug... is the one after it with a plausible mistake; *)
(* no specification uses it.  It shows which property notices the mistake. *)
(***************************************************************************)
EXTENDS Naturals, FiniteSets

CONSTANTS
    Requests,    \* the POST .../metadata/sync calls of a behaviour
    MaxRetries,  \* max_retries of the Celery task (2 in the code)
    MaxVersion,  \* BOUND: how many settings the connection goes through
    Faults       \* which failures of the environment may happen

FaultKinds == {"broker", "web_crash", "worker_crash", "audit", "db"}

ASSUME RetriesAssumption == MaxRetries \in Nat
ASSUME VersionAssumption == MaxVersion \in Nat \ {0}
ASSUME FaultsAssumption  == Faults \subseteq FaultKinds

VARIABLES
    connection,  \* the JiraConnection row
    metadata,    \* the JiraProjectMetadata row, with the version of its data
    pc,          \* where each request handler is
    task,        \* where each Celery task is
    attempts,    \* executions of each task so far
    snapshot,    \* the connection version a running task has read
    failure      \* what the last execution of each task raised

vars == <<connection, metadata, pc, task, attempts, snapshot, failure>>

-----------------------------------------------------------------------------
(* Status values and control points.                                        *)

JiraSyncStatus == {"pending", "syncing", "fresh", "failed"}

\* Answered requests: 202, 409, any other error answer, no answer or a 500.
Answers  == {"accepted", "conflict", "rejected", "crashed"}
InFlight == {"admitted", "checked", "marked", "enqueued"}

\* A worker holds the task and has not written the result of this execution.
Working == {"loaded", "fetching", "fetched", "failing"}
\* A worker holds the task.
Running == Working \cup {"committed", "raised"}
\* The broker holds the message.
Waiting == {"queued", "retrying"}
Ended   == {"succeeded", "failed", "lost"}

Failures == {"none", "auth", "other"}

\* 0 stands for "no version": no data fetched, nothing read.
Versions == 0 .. MaxVersion

TypeOK ==
    /\ connection \in [exists : BOOLEAN, active : BOOLEAN, version : 1 .. MaxVersion]
    /\ metadata \in [exists : BOOLEAN, status : JiraSyncStatus,
                     error : BOOLEAN, data : Versions]
    /\ pc \in [Requests -> {"idle"} \cup InFlight \cup Answers]
    /\ task \in [Requests -> {"none"} \cup Waiting \cup Running \cup Ended]
    /\ attempts \in [Requests -> 0 .. MaxRetries + 1]
    /\ snapshot \in [Requests -> Versions]
    /\ failure \in [Requests -> Failures]

\* A row just created, or (exists = FALSE) the absence of one.
MetadataRow(exists) ==
    [exists |-> exists, status |-> "pending", error |-> FALSE, data |-> 0]

Init ==
    /\ connection \in [exists : {TRUE}, active : BOOLEAN, version : {1}]
    /\ metadata = MetadataRow(FALSE)
    /\ pc = [r \in Requests |-> "idle"]
    /\ task = [r \in Requests |-> "none"]
    /\ attempts = [r \in Requests |-> 0]
    /\ snapshot = [r \in Requests |-> 0]
    /\ failure = [r \in Requests |-> "none"]

taskVars == <<task, attempts, snapshot, failure>>

-----------------------------------------------------------------------------
(* The row of the metadata, and the writes the code makes to it.            *)

\* The foreign key is not enforced.
BugGetOrCreateNoFK ==
    metadata' = IF metadata.exists THEN metadata ELSE MetadataRow(TRUE)

\* get_or_create: the foreign key refuses a row without its connection.
GetOrCreateMetadata ==
    /\ connection.exists
    /\ metadata' = IF metadata.exists THEN metadata ELSE MetadataRow(TRUE)

\* last_error is missing from update_fields.
BugSaveSyncingKeepsError == metadata' = [metadata EXCEPT !.status = "syncing"]

\* metadata.save in start_metadata_sync.
SaveSyncing ==
    metadata' = [metadata EXCEPT !.status = "syncing", !.error = FALSE]

\* status is missing from update_fields.
BugSaveFreshNoStatus(version) ==
    metadata' = [metadata EXCEPT !.error = FALSE, !.data = version]

\* The transaction that replaces the cached rows and marks them fresh.
SaveFresh(version) ==
    metadata' = [metadata EXCEPT !.status = "fresh", !.error = FALSE, !.data = version]

\* queryset.update in the except branch: no row, no effect.
SaveFailed ==
    metadata' = IF metadata.exists
                THEN [metadata EXCEPT !.status = "failed", !.error = TRUE]
                ELSE metadata

-----------------------------------------------------------------------------
(* POST .../metadata/sync: start_metadata_sync.                             *)

Goto(r, next) == pc' = [pc EXCEPT ![r] = next]

\* get_connection, _require_admin and the is_active check on the row read: 404,
\* 403 or 400 whenever the caller or the path calls for it.
ReqLoad(r) ==
    /\ pc[r] = "idle"
    /\ \/ connection.exists /\ connection.active /\ Goto(r, "admitted")
       \/ Goto(r, "rejected")
    /\ UNCHANGED <<connection, metadata, taskVars>>

\* get_or_create the row and test the status it had when it was read.
ReqCheck(r) ==
    /\ pc[r] = "admitted"
    /\ GetOrCreateMetadata
    /\ Goto(r, IF metadata'.status = "syncing" THEN "conflict" ELSE "checked")
    /\ UNCHANGED <<connection, taskVars>>

\* The connection was deleted since it was read: IntegrityError, a 500.
ReqCheckGone(r) ==
    /\ pc[r] = "admitted"
    /\ ~connection.exists
    /\ Goto(r, "crashed")
    /\ UNCHANGED <<connection, metadata, taskVars>>

\* The status read by ReqCheck is not read again.
ReqMark(r) ==
    /\ pc[r] = "checked"
    /\ metadata.exists
    /\ SaveSyncing
    /\ Goto(r, "marked")
    /\ UNCHANGED <<connection, taskVars>>

\* save(update_fields=...) that matches no row raises DatabaseError.
ReqMarkGone(r) ==
    /\ pc[r] = "checked"
    /\ ~metadata.exists
    /\ Goto(r, "crashed")
    /\ UNCHANGED <<connection, metadata, taskVars>>

\* sync_jira_metadata.delay
ReqEnqueue(r) ==
    /\ pc[r] = "marked"
    /\ task' = [task EXCEPT ![r] = "queued"]
    /\ Goto(r, "enqueued")
    /\ UNCHANGED <<connection, metadata, attempts, snapshot, failure>>

\* log_action and the 202 answer.
ReqAnswer(r) ==
    /\ pc[r] = "enqueued"
    /\ Goto(r, "accepted")
    /\ UNCHANGED <<connection, metadata, taskVars>>

\* A statement, delay or log_action raises, or the process dies: nothing is undone.
ReqCrash(r) ==
    /\ \/ "db" \in Faults /\ pc[r] \in {"admitted", "checked"}
       \/ "broker" \in Faults /\ pc[r] = "marked"
       \/ "audit" \in Faults /\ pc[r] = "enqueued"
       \/ "web_crash" \in Faults /\ pc[r] \in InFlight
    /\ Goto(r, "crashed")
    /\ UNCHANGED <<connection, metadata, taskVars>>

-----------------------------------------------------------------------------
(* The Celery task: sync_jira_metadata running run_metadata_sync.           *)

Step(t, next) == task' = [task EXCEPT ![t] = next]
Fails(t, kind) == failure' = [failure EXCEPT ![t] = kind]

\* A worker takes the message and reads the connection; is_active is not tested.
TaskLoad(t) ==
    /\ task[t] \in Waiting
    /\ connection.exists
    /\ Step(t, "loaded")
    /\ Fails(t, "none")
    /\ attempts' = [attempts EXCEPT ![t] = @ + 1]
    /\ snapshot' = [snapshot EXCEPT ![t] = connection.version]
    /\ UNCHANGED <<connection, metadata, pc>>

\* The message is put back without counting the execution.
BugTaskLoadGoneRequeues(t) ==
    /\ task[t] \in Waiting
    /\ ~connection.exists
    /\ Step(t, "retrying")
    /\ UNCHANGED <<connection, metadata, pc, attempts, snapshot, failure>>

\* DoesNotExist, or a failed SELECT, raised before the try block: nobody writes
\* FAILED.
TaskLoadGone(t) ==
    /\ task[t] \in Waiting
    /\ ~connection.exists \/ "db" \in Faults
    /\ Step(t, "raised")
    /\ Fails(t, "other")
    /\ attempts' = [attempts EXCEPT ![t] = @ + 1]
    /\ UNCHANGED <<connection, metadata, pc, snapshot>>

TaskOpen(t) ==
    /\ task[t] = "loaded"
    /\ GetOrCreateMetadata
    /\ Step(t, "fetching")
    /\ UNCHANGED <<connection, pc, attempts, snapshot, failure>>

\* IntegrityError, or a failed get_or_create, also before the try block.
TaskOpenGone(t) ==
    /\ task[t] = "loaded"
    /\ ~connection.exists \/ "db" \in Faults
    /\ Step(t, "raised")
    /\ Fails(t, "other")
    /\ UNCHANGED <<connection, metadata, pc, attempts, snapshot>>

\* The fetch stands before the try block.
BugTaskFetchOutsideTry(t) ==
    /\ task[t] = "fetching"
    /\ \/ Step(t, "fetched") /\ UNCHANGED failure
       \/ \E kind \in {"auth", "other"} : Step(t, "raised") /\ Fails(t, kind)
    /\ UNCHANGED <<connection, metadata, pc, attempts, snapshot>>

\* decrypt_secret and fetch_project_metadata, with the settings read by TaskLoad.
TaskFetch(t) ==
    /\ task[t] = "fetching"
    /\ \/ Step(t, "fetched") /\ UNCHANGED failure
       \/ \E kind \in {"auth", "other"} : Step(t, "failing") /\ Fails(t, kind)
    /\ UNCHANGED <<connection, metadata, pc, attempts, snapshot>>

TaskCommit(t) ==
    /\ task[t] = "fetched"
    /\ metadata.exists
    /\ SaveFresh(snapshot[t])
    /\ Step(t, "committed")
    /\ UNCHANGED <<connection, pc, attempts, snapshot, failure>>

\* The old rows are deleted outside the transaction.
BugTaskCommitFailsHalfway(t) ==
    /\ task[t] = "fetched"
    /\ metadata' = [metadata EXCEPT !.data = 0]
    /\ Step(t, "failing")
    /\ Fails(t, "other")
    /\ UNCHANGED <<connection, pc, attempts, snapshot>>

\* The transaction stands after the except branch.
BugTaskCommitFailsOutsideTry(t) ==
    /\ task[t] = "fetched"
    /\ Step(t, "raised")
    /\ Fails(t, "other")
    /\ UNCHANGED <<connection, metadata, pc, attempts, snapshot>>

\* The transaction rolls back: the row is gone, or the database refuses the data.
TaskCommitFails(t) ==
    /\ task[t] = "fetched"
    /\ Step(t, "failing")
    /\ Fails(t, "other")
    /\ UNCHANGED <<connection, metadata, pc, attempts, snapshot>>

\* log_action("jira_metadata.sync.succeeded"), still inside the try block.
TaskSucceed(t) ==
    /\ task[t] = "committed"
    /\ \/ Step(t, "succeeded") /\ UNCHANGED failure
       \/ "audit" \in Faults /\ Step(t, "failing") /\ Fails(t, "other")
    /\ UNCHANGED <<connection, metadata, pc, attempts, snapshot>>

\* The except branch: write FAILED, read the row back, log, re-raise.
TaskFail(t) ==
    /\ task[t] = "failing"
    /\ \/ SaveFailed
       \/ "db" \in Faults /\ UNCHANGED metadata
    /\ Step(t, "raised")
    /\ UNCHANGED <<connection, pc, attempts, snapshot, failure>>

\* Off by one: max_retries is taken for the number of executions to repeat.
BugTaskRetryOnceMore(t) ==
    /\ task[t] = "raised"
    /\ attempts[t] <= MaxRetries + 1
    /\ Step(t, "retrying")
    /\ UNCHANGED <<connection, metadata, pc, attempts, snapshot, failure>>

\* autoretry_for=(Exception,): whatever was raised, until max_retries.
TaskRetry(t) ==
    /\ task[t] = "raised"
    /\ attempts[t] <= MaxRetries
    /\ Step(t, "retrying")
    /\ UNCHANGED <<connection, metadata, pc, attempts, snapshot, failure>>

\* The backoff gives up before the last retry.
BugTaskGiveUpEarly(t) ==
    /\ task[t] = "raised"
    /\ attempts[t] >= MaxRetries
    /\ Step(t, "failed")
    /\ UNCHANGED <<connection, metadata, pc, attempts, snapshot, failure>>

TaskGiveUp(t) ==
    /\ task[t] = "raised"
    /\ attempts[t] > MaxRetries
    /\ Step(t, "failed")
    /\ UNCHANGED <<connection, metadata, pc, attempts, snapshot, failure>>

\* Messages are acknowledged before they run, so a worker that dies or hits
\* CELERY_TASK_TIME_LIMIT loses its task.  So does a retry that cannot be
\* published, or a broker that restarts: it keeps its messages in memory.
TaskLost(t) ==
    /\ \/ "worker_crash" \in Faults /\ task[t] \in Running
       \/ "broker" \in Faults /\ task[t] \in {"raised"} \cup Waiting
    /\ Step(t, "lost")
    /\ UNCHANGED <<connection, metadata, pc, attempts, snapshot, failure>>

-----------------------------------------------------------------------------
(* The other writers of the two rows.                                       *)

\* PATCH of the connection's settings; the metadata row is not touched.
UpdateConnection ==
    /\ connection.exists
    /\ connection.version < MaxVersion
    /\ connection' = [connection EXCEPT !.version = @ + 1]
    /\ UNCHANGED <<metadata, pc, taskVars>>

\* POST .../deactivate, or a PATCH of is_active either way.
SwitchActive ==
    /\ connection.exists
    /\ connection' = [connection EXCEPT !.active = ~@]
    /\ UNCHANGED <<metadata, pc, taskVars>>

\* DELETE of the workspace: the cascade takes the connection and its metadata.
DeleteWorkspace ==
    /\ connection.exists
    /\ connection' = [connection EXCEPT !.exists = FALSE]
    /\ metadata' = MetadataRow(FALSE)
    /\ UNCHANGED <<pc, taskVars>>

\* A GET of the metadata writes too: it creates the row it is asked for.
GetMetadata ==
    /\ ~metadata.exists
    /\ GetOrCreateMetadata
    /\ UNCHANGED <<connection, pc, taskVars>>

-----------------------------------------------------------------------------
RequestStep(r) ==
    \/ ReqLoad(r) \/ ReqCheck(r) \/ ReqCheckGone(r)
    \/ ReqMark(r) \/ ReqMarkGone(r) \/ ReqEnqueue(r) \/ ReqAnswer(r)

TaskStep(t) ==
    \/ TaskLoad(t) \/ TaskLoadGone(t) \/ TaskOpen(t) \/ TaskOpenGone(t)
    \/ TaskFetch(t) \/ TaskCommit(t) \/ TaskCommitFails(t) \/ TaskSucceed(t)
    \/ TaskFail(t) \/ TaskRetry(t) \/ TaskGiveUp(t)

Fault(r) == ReqCrash(r) \/ TaskLost(r)

Environment ==
    \/ UpdateConnection
    \/ SwitchActive
    \/ DeleteWorkspace
    \/ GetMetadata

Next ==
    \/ \E r \in Requests : RequestStep(r) \/ TaskStep(r) \/ Fault(r)
    \/ Environment

Spec == Init /\ [][Next]_vars

\* A handler that has begun runs on, and there is a worker for every message;
\* nobody has to send a request, and no fault has to happen.
Fairness ==
    \A r \in Requests : /\ WF_vars(pc[r] # "idle" /\ RequestStep(r))
                        /\ WF_vars(TaskStep(r))

FairSpec == Spec /\ Fairness

-----------------------------------------------------------------------------
(* Safety.                                                                  *)

\* r will still write an outcome over the SYNCING it, or another, has set.
OwesOutcome(r) == pc[r] = "marked" \/ task[r] \in Working \cup {"queued"}

\* r set SYNCING and a failure of the environment took what would reset it.
Orphaned(r) ==
    \/ pc[r] = "crashed" /\ task[r] = "none"
    \/ task[r] = "lost"
    \/ "db" \in Faults /\ task[r] \in {"raised", "retrying", "failed"}

\* A row says SYNCING only while somebody is on the way to overwrite it, or
\* after a named failure; racing requests, failing fetches, retries, edits and
\* deletions never leave it there (start_metadata_sync, run_metadata_sync).
SyncingHasCause ==
    metadata.exists /\ metadata.status = "syncing"
        => \E r \in Requests : OwesOutcome(r) \/ Orphaned(r)

\* The three fields a reader of the row relates stay together whoever wrote
\* last: an error text exactly on FAILED, data on every FRESH row, and no data
\* on a row that was never synced.
RowConsistent ==
    metadata.exists =>
        /\ metadata.error <=> metadata.status = "failed"
        /\ metadata.status = "fresh" => metadata.data # 0
        /\ metadata.status = "pending" => metadata.data = 0

\* No handler or task that read the connection before the workspace was deleted
\* brings a metadata row back (get_or_create in _get_or_create_metadata).
RowNeedsConnection == metadata.exists => connection.exists

\* Whatever it raises, a task is executed 1 + max_retries times before it is
\* given up, and never more often.
RetriesExactlyBounded ==
    \A t \in Requests :
        /\ attempts[t] <= MaxRetries + 1
        /\ task[t] = "failed" => attempts[t] = MaxRetries + 1
        /\ task[t] = "retrying" => attempts[t] <= MaxRetries

Settled == \A r \in Requests :
    pc[r] \in {"idle"} \cup Answers /\ task[r] \in {"none"} \cup Ended

\* Without failures of the environment, once everybody has finished the row
\* reports the end of one of the tasks: no SYNCING is left, and FAILED is not
\* left by a task that went on to succeed.
SettledStatusIsAnOutcome ==
    Faults = {} /\ Settled /\ metadata.exists =>
        /\ metadata.status # "syncing"
        /\ metadata.status = "fresh" => \E t \in Requests : task[t] = "succeeded"
        /\ metadata.status = "failed" => \E t \in Requests : task[t] = "failed"

\* The cached data is replaced as a whole by one task's fetch, with the row
\* turning FRESH: a failed, retried or lost execution leaves the previous data.
DataReplacedOnlyBySuccess ==
    [][metadata'.exists /\ metadata'.data # metadata.data =>
          /\ metadata'.status = "fresh"
          /\ \E t \in Requests : task[t] = "fetched" /\ metadata'.data = snapshot[t]]_vars

(* Liveness.                                                                *)

\* A client that polls a SYNCING row sees another status, or no row.
SyncSettles ==
    (metadata.exists /\ metadata.status = "syncing")
        ~> ~(metadata.exists /\ metadata.status = "syncing")

\* Every request that begins is answered and its task, if any, comes to an end.
EveryoneFinishes ==
    \A r \in Requests :
        pc[r] # "idle" ~> pc[r] \in Answers /\ task[r] \in {"none"} \cup Ended

-----------------------------------------------------------------------------
(* What the documentation says of the program, and the code does not do.    *)

\* jira/openapi.py:431 "Sync already running (`SYNC_IN_PROGRESS`)."
AtMostOneSync == Cardinality({t \in Requests : task[t] \in Running}) <= 1

\* jira/openapi.py:393 "Returns cached metadata for the connection's Jira
\* project.": once a sync with the present settings has succeeded, a FRESH row
\* holds data fetched with them.
LatestSettingsKept ==
    metadata.exists /\ metadata.status = "fresh"
        /\ (\E t \in Requests : task[t] = "succeeded" /\ snapshot[t] = connection.version)
    => metadata.data = connection.version
=============================================================================
