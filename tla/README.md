# Verification of the Jira import backend

TLA+ models of the services of this repository (Django, PostgreSQL, Celery over Redis, the
Jira REST API), the TLC runs that check them on small instances, and theorems about every
component that TLAPS checks for every value of the constants. Paths are relative to `src/`.

## 1. The system

A tenant is a *workspace*. Its members configure *Jira connections*; an asynchronous *sync*
fetches the metadata of a connection's project and caches it in the database; clients poll
the cache. Accounts, workspaces and invites stand around this. All state is in PostgreSQL
(autocommit unless the code opens a transaction, READ COMMITTED otherwise) and in the
messages Redis holds for Celery. Web processes and workers share nothing else.

| Component | Code | State | Operations | Hard behaviours |
|---|---|---|---|---|
| Metadata sync | `jira/services/metadata.py`, `jira/tasks.py` | status, error and data of `JiraProjectMetadata`; queued, running and retrying tasks | POST sync, task `sync_jira_metadata`, GET metadata | check-then-set of SYNCING; failures between two writes; retries beside new syncs; a row that disappears |
| Metadata store | `_persist_metadata`, `_prefetch_metadata` | five tables of cached rows | delete and insert all, read all | concurrent replacements, readers without a transaction, deadlocks |
| Jira client | `jira/services/jira_client.py` | none beyond a call | `verify_credentials`, `fetch_project_metadata` | nested retries, paging over data that changes |
| Connections | `jira/services/connection.py`, `test.py`, `jira/views.py` | settings, `is_active`, `last_test_*` | list, create, get, edit, deactivate, test | overlapping edits and tests; names decided by an index; a workspace deleted under a call |
| Accounts | `accounts/services/`, `accounts/tasks.py` | users, one-time links | register, verify, reset, confirm | no transaction anywhere: partial failures, races for one address |
| Sessions, profile | `accounts/services/auth.py`, `profile.py`, the JWT library | blacklisted refresh tokens, profiles | login, logout, refresh, GET and PATCH `/api/me/` | no transaction; the whole row saved; failures reported as something else |
| Workspaces | `tenants/services/workspace.py`, `slug.py`, `membership.py` | workspaces, memberships | list, create, get, rename, delete, members | a slug looked up and inserted later; a cascade over everything below |
| Invites | `tenants/services/invite.py`, `tenants/tasks.py` | invites | invite, accept | re-invites and acceptances in overlapping transactions; a message sent inside one |
| Trace ids, task hooks | `core/context.py`, `core/celery_hooks.py`, `core/middleware.py` | a context variable of each thread and worker process | bind and clear around requests and tasks | a variable that the next request or task finds as it was left |
| Probes | `core/services/health.py`, `core/views.py` | one key in Redis | `/health/`, `/ready/` | a key all probes share; an audit record of the outage in the database that is out |
| Error handler | `core/exceptions.py` | none | exception to answer | what nobody expects is a 500 |
| Audit log | `audit/services/log_action.py` | append-only records | one INSERT | its failure is a failure of its caller |
| Crypto, guides, logging, settings | | none or read-only | | |

How they interact: a handler calls services directly; services publish Celery messages
(sync, three kinds of mail) by identifier; a task reads the rows again. Deleting a workspace
cascades to its connections, their metadata, memberships and invites, under the feet of
whatever handler or task holds one of them in memory.

What makes each component correct:

- **sync**: SYNCING is a promise that somebody will write another status; what the row says
  agrees with its data; a failed execution leaves the previous data; a deleted connection
  stays deleted; a task is tried exactly as often as configured.
- **store**: a replacement takes effect at one instant, also for two at once; what a reader
  collects is one sync's result.
- **client**: all labels are collected, whatever Jira's page size; the number of HTTP calls is
  bounded; every fetch ends.
- **invites**: one membership per user, together with the use of its invite; nobody invited is
  left without a way in; no mail for an invite that was not created.
- **accounts**: one account per address; an account that cannot be activated has a named cause;
  concurrent verifications and resets do not undo each other.
- **connections, workspaces**: the unique names and slugs hold whatever overlaps; no edit is
  undone by a test or another edit; a test leaves behind what it answered; a call nobody
  disturbs answers what the documentation promises, and a 500 has a named cause.
- **sessions**: a token is refused once its logout has been answered; an answer is true of some
  moment of its call.
- **profile**: a PATCH undoes nothing that was answered before it began.
- **probes**: 200 and 503 tell the truth, or the shared key was taken away.
- **trace ids**: whatever is written for a request or task carries its id, and nobody else's.

## 2. Modules

| Module | Models |
|---|---|
| `MetadataSync` | the life cycle of one connection's metadata row |
| `MetadataCache` | abstract: the cache is always the whole result of one sync |
| `MetadataStore` | the transaction of a sync and the SELECTs of a GET, statement by statement; refines `MetadataCache` |
| `JiraFetch` | one call of the HTTP client |
| `Invites` | the invites of one address to one workspace |
| `Accounts` | one e-mail address: registration, links, mails |
| `Errors` | the exception handler: what an exception is answered with |
| `Workspaces` | the calls on a workspace, and what all calls below one share |
| `Connections` | the calls on its Jira connections, composed with those of `Workspaces` |
| `TraceContext` | the trace id of each thread and worker, requests and tasks as they bind it, outages |
| `Readiness` | the two probes |
| `Sessions` | login, logout, refresh, profile |
| `HttpLayer` | composes the last three |
| `…Proofs` | the theorems about `MetadataSync`, `MetadataStore`, `JiraFetch`, `Invites`, `Accounts`, `Connections` (with `Workspaces`), `HttpLayer` (with the three it composes) |
| `MC…` | finite instances |

`PROJECT.json` maps every definition that stands for code to its lines. A definition named
`Bug…` is the one after it with a plausible mistake. No specification uses one; each is what a
property must notice when it takes the place of the original.

### MetadataSync

State: `connection` (exists, active, version of its settings), `metadata` (exists, status,
error, version its data was fetched with), and for each request its place in the handler (`pc`)
and the place, executions, snapshot of the connection and last error of the task it published
(`task`, `attempts`, `snapshot`, `failure`). Actions are single statements or transactions,
broker calls and exchanges with Jira:

| Action | Code |
|---|---|
| `ReqLoad`, `ReqCheck`, `ReqMark`, `ReqEnqueue`, `ReqAnswer` | `start_metadata_sync`: look the connection up, `get_or_create` and test the status, save SYNCING, `delay`, `log_action` |
| `ReqCheckGone`, `ReqMarkGone` | the row or its connection vanished: IntegrityError, DatabaseError |
| `TaskLoad`, `TaskOpen` (and `…Gone`) | the part of `run_metadata_sync` before its `try` |
| `TaskFetch`, `TaskCommit`, `TaskCommitFails`, `TaskSucceed` | the `try` block |
| `TaskFail` | its `except` block: write FAILED, log, re-raise |
| `TaskRetry`, `TaskGiveUp` | `autoretry_for=(Exception,)`, `max_retries=2` |
| `ReqCrash`, `TaskLost` | failures of the environment, chosen by `Faults` |
| `UpdateConnection`, `SwitchActive`, `DeleteWorkspace`, `GetMetadata` | the other writers of the two rows |

The fetched data is abstracted to the version of the settings it was fetched with, the error
text to whether there is one. `Faults` is a subset of: the broker refuses or loses a message,
a web process dies, a worker dies or is killed at the time limit, an audit INSERT fails, a
statement of the database fails, also the first ones of a task, before its `try`.

### MetadataStore and MetadataCache

`MetadataStore` looks inside `TaskCommit` and `GetMetadata`: each writer deletes from four
tables (boards take their sprints along), inserts into five and commits; each reader makes one
SELECT per table. READ COMMITTED is modelled by what the code depends on: a DELETE works on the
rows committed when it began and waits for locked ones, an INSERT waits for an open transaction
that touches its unique key and fails if the key is then taken, a deadlock is broken by aborting
one transaction. `AtomicReplacement` is the refinement of `MetadataCache`. It holds when any two
syncs have an issue type in common: nothing in the code serialises two syncs, but the issue types
are inserted first and are unique per connection, so of two overlapping syncs that share one the
second fails or waits. When the connection was pointed at another project in between they need
not share any. They still share the fields, priorities and labels of the site (`fetch_fields` and
the like ask for all of them), so the INSERTs of two syncs that run side by side conflict; but a
sync whose DELETE of issue types began before the other's COMMIT and whose later DELETEs begin after
it removes those rows and goes through: the run `store_mixed` shows the cache as a mixture of the
two. A GET reads table by table in no transaction, and can answer what was never in the cache.
`ReadsAreWholeTables` says how far that goes: each table is whole and of one sync, the syncs are at
most one more than the commits the GET overlapped, and a board comes with its own sprints or, after
a commit, with none.

### JiraFetch

The client's requests in their order, `tenacity` retries (`_request`, and around it
`_request_myself` with its own, so that `verify_credentials` makes MaxTries² calls), label pages
by offset over a list that changes (the loop ends when Jira says `isLast`, or says nothing, or on an
empty page), the first page of boards and of sprints (the code asks for no other). Values inside answers are abstracted.

### Invites

`create_invite` and `accept_invite` are transactions: `row` holds what is committed, `marks` what
an open transaction has set used and locked, `seen` what an UPDATE found when it began. The mail
task runs at any time after `delay`, which the code calls inside the transaction. The foreign
keys are deferred, so they fail at COMMIT. A refusal for an expired link, a foreign address, a
missing role or another workspace leaves no trace; these are one nondeterministic `rejected`.
`InviteeHasAWayIn` counts a pending invite also when its mail was dropped after the last retry.

### Accounts

No transactions: every statement is an action. Verification and reset share the shape of their
links (`Link…` creates one, `Use…` follows one); they differ in what `UseApply` writes. `use`
keeps the `User` each call has read, as the code does, although only one field of it is saved.

### Workspaces and Connections

`call` has for each request its operation, the caller's role, its body, its place and, in the
end, its answer, computed by `Errors`. A call's steps are its SQL statements:

| Action | Code |
|---|---|
| `Begin` (`GetWorkspace`) | the view up to the end of `get_workspace`; which views validate before and which after it |
| `GetConnection`, `LoadWorkspace`, `Admit` | `get_connection`; `connection.workspace`, loaded lazily; `_require_admin`, which reads the membership again |
| `InsertConnection`, `CommitCreate` | `create_connection`, with the IntegrityError it turns into a 400 and the foreign key checked at COMMIT |
| `LockRow`, `UpdateRow`, `CommitUpdate` | `save(update_fields=...)` of `update_connection` and `deactivate_connection`: the row is locked, then the index searched |
| `Verify`, `SaveVerdict`, `LogTest`, `LogTestFails` | `run_connection_test`: the exception of `log_action` after a success is caught by the branch that stores a failure |
| `TrySlug`, `InsertWorkspace`, `CommitWorkspace` | `build_unique_slug`, `create_workspace` |
| `AdmitUpdate`, `SaveName`, `AdmitDelete` | `update_workspace`, `delete_workspace` |
| `Collect`, `DeleteMemberships`, `DeleteRow`, `CommitDelete` | `workspace.delete()`: the rows below are collected before its transaction begins |
| `BreakDeadlock` | PostgreSQL aborts one of a cycle of waiting transactions |

`met` collects what other calls' commits, deadlocks and failures did to a call, `promise` is the
documented answer for the state it began in, as long as nothing met it. With these two,
`AloneAsPromised` compares undisturbed calls with the documentation (a stranger gets 404 and not
403, and so on), and `UndocumentedHasCause` lists every way to an undocumented 500.

### TraceContext, Readiness, Sessions and HttpLayer

`bound` is the context variable of each process, and is not reset when a process takes up the
next request. A request's id is stripped (`ResolveTraceId`), a task's is taken as it came
(`ExtractTraceId`). `job` is the request or task a process runs, with everything written for it and
the id it was written under. `GoesDown` and `ComesBack` change which dependencies can be reached
between any two steps; a statement also fails if the connection was lost during the request
(`DatabaseFails`). `Readiness` has one action per exchange of the four checks, `Sessions` one per
statement. `HttpLayer` composes them and observes (`seen`) which facts held at some time and
which at all times of each call: an answer is correct if it is true of some moment of the call.

## 3. Runs

| Run | Question | Bounds |
|---|---|---|
| `sync_safety` | `SyncingHasCause`, `RowConsistent`, `RowNeedsConnection`, `RetriesExactlyBounded`, `DataReplacedOnlyBySuccess` under every fault | 2 requests, `max_retries` 2 as in the code, 2 versions of the settings, symmetry in the requests |
| `sync_liveness` | without faults, does every SYNCING row move on, does everyone finish, is the last status an outcome (`SyncSettles`, `EveryoneFinishes`, `SettledStatusIsAnOutcome`) | 2 requests, 1 version |
| `store_concurrent` | refinement of `MetadataCache`, `ReadsAreWholeTables`, `WritersFinish` | 3 writers, 1 reader, one or two keys per table |
| `jira_fetch` | `QuietLabelsExact`, `LabelShifts`, `RetryBudget`, `FetchEnds` | 3 labels changing twice each way, pages of 1 or 2, 2 boards, 3 tries |
| `invites` | `OneMembershipPerUser`, `InviteeHasAWayIn`, `PendingTogetherOnlyByRace`, `OnlyCreatedInvitesAreMailed`, `MembershipIsKept`, `CallsAndMailsEnd` under every fault | 2 pending invites (a race leaves two), 2 re-invites, 2 acceptances, 1 mail retry |
| `accounts` | `RegisteredIsComplete`, `InactiveHasCause`, `UserFieldsKept`, `RegistrationIsMailed` under every fault | 2 registrations, 1 verification, 2 reset requests, 1 confirmation, 1 mail retry |
| `connections` | `RowsConsistent`, `TestAnswerIsStored`, `AloneAsPromised`, `UndocumentedHasCause`, `ChangesKept`, `CallsEnd` under failing audit records and crashes | 3 calls: any of the twelve operations in any role but owner, one that writes, one deletion; 2 connections, 4 bodies that rename, swap or keep names, names that are too long |
| `http` | `TraceIdsKept`, `AnswersHaveReasons`, `UndoesOverlappingOnly` | 2 threads, 1 worker, one outage of any dependency at any step; two probes, or three session calls on one token, or three PATCH calls of one profile, or any request beside a probe or a task, or two tasks |
| `sync_one_at_a_time`, `sync_latest`, `sync_stuck`, `store_mixed` | disagreements, section 5 | the smallest instance that shows each |

Why the bounds are enough for the questions asked: races in this code are between a reader of a
value and one other writer of it, so two actors of a kind show each; the third writer of
`store_concurrent` is the one whose commit lies between two DELETEs and makes a deadlock
possible, and the two invites pending at the start of `invites` are what two waiting re-invites
need. Retries: one more than none shows the counter's boundary, and the sync uses the code's own
2. Three tries are the client's default. Three calls in `connections` let two of them disturb a
third, or two rename against each other while the workspace goes; a thread that handles two
requests one after the other is what a trace id could leak through, and two threads and three
PATCH calls what an answered edit could be undone by. The groups of requests in `http`
(`Traffic`) are those that meet on shared state; across groups requests share only outages and
threads, which the mixed groups have. Runs end because every call happens once; they disable
TLC's deadlock check for that reason, and the liveness properties say that what has begun ends.

### Fairness

- `MetadataSync`: weak fairness of each handler that has begun and of each task's steps. A web
  process runs its handler on; Celery workers take every message; HTTP calls have a timeout of
  15 s. None on starting a request, edits, deletions or faults. Where a step has several outcomes
  none is favoured.
- `MetadataStore`: of each writer; a waiting statement is not enabled, and PostgreSQL breaks
  deadlocks (`BreakDeadlock`, `CreateRefused` in `Invites`).
- `JiraFetch`: of the client, because retries are bounded and calls time out. After a 429 the
  client sleeps as long as the `Retry-After` of Jira says (`jira_client.py:144-152`); that this is
  finite is assumed of Jira, not ensured by the code.
- `Invites`: that while begun calls or messages can go on, one of them does. Enough, as each
  has finitely many steps.
- `Accounts`: of the registrations and their mail.
- `Connections`: that while begun calls can go on, one of them does, PostgreSQL's deadlock
  detection included. Faults and crashes are not forced, nor is the beginning of a call.
- `HttpLayer` has no fairness: its properties are about what is written and answered.

## 4. Proofs

Every safety invariant and action property of a passing run, and the refinement of `MetadataCache`,
is a theorem about `Spec` for every value of the constants. Each module of proofs has the same
layout: the parts of the inductive invariant, a lemma that `Init` implies it, a lemma that a step
keeps it with one step per action, and the theorems. All the constants are unbounded in them (calls,
connections, syncs, labels, retries, faults, ...); where one has to be finite, an assumption says
so.

| Module | Theorem | States | Inductive invariant |
|---|---|---|---|
| `MetadataSyncProofs` | `TypeCorrect`, `RetriesBounded` | `TypeOK`, `RetriesExactlyBounded` | `TypeInv` |
| | `RowStaysConsistent`, `DeletedStaysDeleted` | `RowConsistent`, `RowNeedsConnection` | with `RowInv` |
| | `SyncingIsExplained` | `SyncingHasCause` | with itself |
| | `SettledIsOutcome` | `SettledStatusIsAnOutcome` | with `OutcomeHasAuthor` |
| | `DataIsReplacedBySuccess` | `DataReplacedOnlyBySuccess` | `TypeInv`, `RowInv` |
| `MetadataStoreProofs` | `TypeCorrect` | `TypeOK` | `TypeInv` |
| | `ReplacesAtomically` | `SharedIssueType => (Spec => AtomicReplacement)` | with `LockInv`, `CacheInv` |
| | `ReadsMixWholeTables` | `ReadsAreWholeTables` | with `ReadInv` |
| `JiraFetchProofs` | `TypeCorrect` | `TypeOK` | `TypeInv` |
| | `RetriesAreBounded` | `RetryBudget` | with `RetryInv` |
| | `QuietFetchIsExact`, `ShiftsAreBounded` | `QuietLabelsExact`, `LabelShifts` | with `LabelInv` |
| `InvitesProofs` | `TypeCorrect` | `TypeOK` | itself |
| | `MembershipIsSingle`, `MembershipStays` | `OneMembershipPerUser`, `MembershipIsKept` | with `LockInv`, `MemberInv` |
| | `WayInIsKept` | `InviteeHasAWayIn` | with `LockInv`, `WayInInv` |
| | `ReinviteSupersedes` | `PendingTogetherOnlyByRace` | with `LockInv`, `SeenIsSuperseded` |
| | `MailFollowsCommit` | `OnlyCreatedInvitesAreMailed` | with `LockInv` and itself |
| `AccountsProofs` | `TypeCorrect` | `TypeOK` | `TypeInv` |
| | `RegistrationIsComplete` | `RegisteredIsComplete` | with `OwnerInv` |
| | `InactiveIsExplained` | `InactiveHasCause` | with `OwnerInv`, `InactiveInv` |
| | `UserFieldsStay` | `UserFieldsKept` | `TypeInv`, `OwnerInv` |
| `ConnectionsProofs` | `TypeCorrect`, `IndexesHold`, `TestsTellTheirVerdict`, `PromisesAreKept`, `SurprisesHaveCauses`, `ChangesAreKept` | `TypeOK`, `RowsConsistent`, `TestAnswerIsStored`, `AloneAsPromised`, `UndocumentedHasCause`, `ChangesKept` | `IInv` |
| `HttpLayerProofs` | `IdsAreKept` | `TraceIdsKept` | `IdInv` |
| | `NothingOverIsUndone` | `UndoesOverlappingOnly` | with `CopyInv` |
| | `AnswersAreExplained` | `AnswersHaveReasons` | with `ReasonInv` |

### The arguments

**MetadataSync.** `TypeOK` is not inductive: a task could be executed once too often. `TypeInv` adds
`TasksCounted`, the relation between a task's place and its `attempts`. `RowInv` joins
`RowConsistent` and `RowNeedsConnection`, which need each other, with `AbsentRowIsBlank` (the record
that stands for no row has no content that could come back) and `RunsHaveSnapshot` (a task that
commits has read a connection). `SyncingHasCause` is inductive over these: every step that ends the
actor owing the outcome writes another status or is one of the three failures `Orphaned` names.
`OutcomeHasAuthor` says who wrote the status last; FAILED is not final while somebody retries, and
FRESH may be overwritten by an older task's FAILED.

**MetadataStore.** Every step is a scan, deletion, insertion, commit or abort of one writer, or none
of them (`StepCases`). `LockInv`: what a transaction holds follows from the statement it is at, and
no row is deleted by two. `CacheInv` is the point. Whoever has inserted its issue types is alone
(`InsertsAlone`: any two syncs share a key, `TypesClash`) and has deleted everything committed
(`InsertsReplace`), so its commit replaces the whole cache. That a sync which gets so far has missed
nothing takes `ScanIsWhole` and `DeletesAreWhole`: after waiting, a DELETE sees all the committed
rows of its tables or none of those that are committed now, and in the second case it does not hold
the issue types and its own INSERT fails. Without `SharedIssueType` none of this holds, as
`store_mixed` shows. `ReadInv` counts the syncs an answer is made of, the one now in the cache
among them: a commit adds one (`CommitAddsSource`), a SELECT none (`SelectCollects`), and sprints are
missing only when the boards are of another sync, which takes a commit (`TwoSources`).

**JiraFetch.** `RetryInv` counts: HTTP calls spent = `rounds * MaxTries + tries`; that the last of
them is exactly the budget is `LastRound`, the one piece of nonlinear arithmetic. `LabelInv`
compares what was received with what Jira would still list after that many positions: with nothing
changed a prefix (`QuietInv`), with nothing added no label on both sides (`NoneTwice`), with nothing
removed every label of the beginning on one of them (`NoneMissed`). The lemmas on `SubSeq`,
`InsertAt` and `RemoveAt` (`SliceProperties`, `InsertAtProperties`, `RemoveAtProperties`) state
these lists position by position.

**Invites.** `LockInv`: rows are locked by open transactions only, by one at a time, and a row
exists only after the COMMIT of its own call. On it rest the others: `MemberInv` (a member's invite
is used; the unique key of the membership is committed or held by one transaction), `WayInInv` (what
an acceptance has found is still there), `SeenIsSuperseded` (what a re-invite saw it has marked, or
is no longer pending).

**Accounts.** `OwnerInv`: one registration has created the account (`OneOwner`), nothing belongs to
an account before there is one, and each place of a registration implies what it has left behind
(`Progress`). `InactiveInv` adds that only a verification, which activates first, uses up the link
(`UsedByVerification`). `UserFieldsKept` is a case analysis over these (`NextUserStep`).

**Connections.** The actions are brought under nine kinds of steps by what they do to their own call
and to the rows (`StepKinds`): it begins, goes on, is answered or dropped, makes a workspace, adds a
connection, edits one, deletes everything, saves a verdict. Each part of `IInv` is proved over the
kinds. `StageInv` says which operation can be where with what; `NameInv` and `SlugInv` that no two
open transactions have written the same unique value and none has written one that is taken (which
makes `RowsConsistent` inductive); `FoundInv` that what a call found is there unless it has met the
event that took it; `VerdictInv` carries `TestAnswerIsStored` back to the first of the two saves;
`PromiseInv` that the promise of an undisturbed call is still what the state promises. With those,
every answer is checked against the promise and the documentation (`AloneStays`, `CausesStay`).
`MakingInv` shows by counting (every candidate passed over is the slug of a different call) that the
search for a slug has a next candidate. TLC found `IInv` to hold on the instance of the run
`connections` before it was proved.

**HttpLayer.** `TraceInv` relates the context variable to the place of the request or task; the only
id of another origin is the new one after a failed task's hook has cleared the variable. `CopyInv`
says of a profile in memory that it differs from the row only in fields written since. `ReasonInv`
has for each place of each operation what must have been true at some or at all times of the call to
get there; each step extends it by one observation.

### Assumptions

All are named in the module that declares the constants, and TLC evaluates them on every run.

- Sorts and ranges: disjoint kinds of calls, counters in `Nat`, fault sets among the kinds of
  faults, bodies that give only fields there are (`…FaultsAssumption`, `RetriesAssumption`,
  `TriesAssumption`, `DistinctCallsAssumption`, `PatchesAssumption`, `CallersAssumption`, and so
  on), and that values which stand for "nothing" are not also calls, tokens or boards
  (`NoneAssumption`, `NobodyAssumption`, `TokensAssumption`, `BoardAssumption`).
- `WritersAssumption`, `LabelsAssumption`: finitely many syncs and labels, because their numbers
  bound a counter and the length of a list.
- `ConnectionsAssumption`: the connections there are at the start have different names. They are
  rows of a table with a unique index.
- `CandidatesAssumption`: the sequence of slugs for a name is long enough, or contains one that is
  too long for its column, whose INSERT fails. `build_unique_slug` tries `base`, `base-1`,
  `base-2`, ... without end (`slug.py:9-13`); the finite sequence must not stop before the code does. Long enough is counted by
  the calls that can create a workspace, so there are finitely many calls.
- `SharedIssueType` is a hypothesis of `ReplacesAtomically` and part of `ReadsAreWholeTables`:
  syncs of one project fetch the same issue types. The code does not guarantee it across a change of
  project, and section 5 shows what happens then.

### Only model-checked

Liveness (`SyncSettles`, `EveryoneFinishes`, `WritersFinish`, `FetchEnds`, `CallsAndMailsEnd`,
`RegistrationIsMailed`, `CallsEnd`): fairness and ENABLED are beyond the prover. The four
disagreements of section 5 that have a run are counterexamples, not theorems.

## 5. Where code and documentation disagree

| Run | Statement | What the code does |
|---|---|---|
| `sync_one_at_a_time` | `jira/openapi.py:431` "Sync already running (`SYNC_IN_PROGRESS`)." | two POSTs can pass the test of the status before either saves SYNCING, and a POST is accepted beside a task waiting for its retry |
| `sync_latest` | `jira/openapi.py:393` the cached metadata is that of the connection's project | a sync with older settings can commit after one with newer, and FRESH shows the older data |
| `sync_stuck` | a polled SYNCING ends | a broker error after SYNCING is saved, a lost worker: the row stays SYNCING and every later POST answers 409 |
| `store_mixed` | `jira/openapi.py:393` | two syncs of different projects both commit, the later deletes the fields and items of the former but not its issue types, and the FRESH row has the issue types of both |

Without a run of their own, because a passing run contains the behaviour:

- `jira/services/jira_client.py:29` "401/403 from Jira - do not retry.": the client does not, the
  task does, because of `autoretry_for=(Exception,)` (`TaskRetry`).
- `tenants/openapi.py:234` "Duplicate active members and pending invites for the same email are
  rejected.": pending ones are superseded, and two created at the same time are both pending
  (`PendingTogetherOnlyByRace`).
- `jira/openapi.py:393` "Returns cached metadata for the connection's Jira project.": when a sync
  commits between two SELECTs of a GET, the answer has tables of the sync before and of the one
  after (`ReadsAreWholeTables`).
- `core/openapi_health.py:31` "Returns **503** when any check fails.": when the database is down,
  the `log_action` of the failed probe raises and the answer is a 500 (`AnswersHaveReasons`).
- `accounts/openapi.py:263` "Partial update of locale, timezone, and notification preferences.":
  `profile.save()` writes all fields of a row read before; of two overlapping PATCH calls for
  different fields the later takes back the other's (`UndoesOverlappingOnly` allows just that).
- `accounts/openapi.py:194` documents 400 for an invalid refresh token at logout: it is 401, and
  an outage of the database is answered in the same way. Login and refresh answer 400 for a
  missing field, which is not documented. A time zone such as `../x`, which is no key of the
  time zone database, is a 500: `ZoneInfo` raises ValueError, and only `ZoneInfoNotFoundError` is
  caught (all in `AnswersHaveReasons`).
- `accounts/tests/test_api.py:81` expects the code `UNAUTHORIZED` for a blacklisted refresh token;
  `_resolve_401` answers `TOKEN_NOT_VALID` (`Resolve401` in `Errors`). No property is about codes.
- `tenants/openapi.py:300-302` lists 400 for a "duplicate member" who accepts an invite; the code
  answers 200 with the membership there is, or 500 when two acceptances race for the unique
  constraint (`OneMembershipPerUser` holds either way).
- The 500s of calls on workspaces and connections are the causes `UndocumentedHasCause` lists: a
  slug derived from a name of the greatest length or an e-mail address too long for its column
  overflows; a race for a slug; a workspace deleted under a call; a connection created under a
  deletion; a deadlock of two renamings. An invite accepted or a metadata row created between
  `Collect` and the COMMIT of a deletion makes it a 500 too; `Connections` does not have those calls.

## 6. Not modelled

Crypto and guides: no state that changes. Logging: formatting and redaction of lines. Audit
records beyond their id and their failure: append-only and read by nobody. Settings and scripts
beyond what the models mention. The JWT library, PostgreSQL, Redis and Celery themselves are
modelled from how the code uses them. Values inside requests and answers, messages and field
errors are abstracted. Pagination and throttling do not exist in the code. Expiry of links and
invites: time passes between any two steps, so a link may be refused as expired whenever it is
followed; that an account whose link expired cannot get another one is listed among the hazards.

## 7. Plan

1. `SyncService`, an abstract specification of a sync (idle, running, outcome) that
   `MetadataSync` implements without faults, and the proof of that refinement.
2. Properties for the hazards that have none yet: links that are read, tested and marked used in
   separate statements, and a PATCH of the settings beside a test of the former ones.
