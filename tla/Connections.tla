---------------------------- MODULE Connections ----------------------------
(***************************************************************************)
(* The Jira connections of a workspace: POST, GET, PATCH, deactivation and *)
(* the connection test, interleaved statement by statement with each other *)
(* and with the calls of Workspaces, whose deletion cascades to them.      *)
(*                                                                         *)
(* create_connection, update_connection and deactivate_connection are      *)
(* transactions at READ COMMITTED, the cascade of delete_workspace is one  *)
(* as well; the statements of the connection test commit by themselves.    *)
(* An UPDATE and a DELETE wait for the lock of a row, and looking for a    *)
(* name in the unique index waits for a transaction that is inserting it   *)
(* or has locked the row that holds it.  Foreign keys are checked at       *)
(* COMMIT.                                                                 *)
(***************************************************************************)
EXTENDS Workspaces

CONSTANTS
    Existing,  \* the connections there are at the start
    Names,     \* for each of those, its name
    Patches,   \* the fields a POST or PATCH can give, with their values
    Can,       \* the operations each call may ask for
    Who        \* the roles each call may be made with

ConnectionOps == {"jira_connection_list", "jira_connection_create",
                  "jira_connection_get", "jira_connection_update",
                  "jira_connection_deactivate", "jira_connection_test"}
Fields == {"name", "settings", "active"}

\* A connection shares its identifier with the call that creates it.
Conns == Existing \cup Calls

ASSUME ConnectionsAssumption ==
    /\ Existing \cap Calls = {} /\ DOMAIN Names = Existing
    /\ \A k, l \in Existing : Names[k] = Names[l] => k = l  \* the unique index
ASSUME PatchesAssumption == \A g \in Patches : DOMAIN g \subseteq Fields
ASSUME CallersAssumption ==
    \A c \in Calls : Can[c] \subseteq WorkspaceOps \cup ConnectionOps /\ Who[c] \subseteq Roles

Creators == {c \in Calls : "workspace_create" \in Can[c]}

\* build_unique_slug has no last candidate: here there are as many as calls can
\* take, or one that no call can take.
ASSUME CandidatesAssumption ==
    /\ IsFiniteSet(Calls)
    /\ TooLong \notin {OwnSlug, "none"}
    /\ \A n \in DOMAIN Candidates :
           LET slugs == {Candidates[n][i] : i \in DOMAIN Candidates[n]} IN
           /\ Len(Candidates[n]) \in Nat \ {0}
           /\ DOMAIN Candidates[n] = 1 .. Len(Candidates[n])
           /\ "none" \notin slugs
           /\ TooLong \in slugs \/ Cardinality(slugs \ {OwnSlug}) >= Cardinality(Creators)

VARIABLE conn  \* the committed rows of JiraConnection

vars == <<workspace, made, call, conn>>
workspaceVars == <<workspace, made>>

\* "settings" are the URL, e-mail, token, project and board.  "by" is the call
\* whose verdict is stored; the properties alone read it.
Unknown == [status |-> "unknown", error |-> FALSE, by |-> "none"]
Row(name, settings, active) ==
    [exists |-> TRUE, name |-> name, settings |-> settings, active |-> active,
     verdict |-> Unknown]
NoRow == [Row("none", "none", FALSE) EXCEPT !.exists = FALSE]

Init ==
    /\ workspace = TRUE
    /\ made = [c \in Calls |-> "none"]
    /\ call = [c \in Calls |-> NoCall]
    /\ conn = [k \in Conns |-> IF k \in Existing THEN Row(Names[k], "old", TRUE) ELSE NoRow]

Rows == {k \in Conns : conn[k].exists}

\* The fields of g written over those of a row.
Written(row, g) == [f \in DOMAIN row |-> IF f \in DOMAIN g THEN g[f] ELSE row[f]]

-----------------------------------------------------------------------------
(* Requests.                                                                *)

\* What a body, if the operation has one, gives; a body of workspace_create is
\* a name with candidates for its slug.
Given(op) ==
    CASE op = "workspace_create"       -> {[name |-> n] : n \in DOMAIN Candidates}
      [] op = "jira_connection_create" -> {g \in Patches : DOMAIN g = Fields}
      [] op = "jira_connection_update" -> {g \in Patches : DOMAIN g # Fields}
      [] op = "jira_connection_deactivate" -> {[active |-> FALSE]}
      [] OTHER -> {<<>>}

BodiesOf(op) ==
    CASE op \in {"jira_connection_create", "jira_connection_update"} -> Bodies
      [] op \in {"workspace_create", "workspace_update"} -> {"valid", "invalid"}
      [] OTHER -> {"valid"}

\* The path names a connection that there is, or was, or none, as c itself.
Targets(c, op) ==
    CASE op = "jira_connection_create" -> {c}
      [] op \in WorkspaceOps \cup {"jira_connection_list"} -> {"none"}
      [] OTHER -> Existing \cup Rows \cup {c}

Asking(c, op) ==
    {[NoCall EXCEPT !.op = op, !.role = role, !.body = body, !.given = g, !.conn = k] :
         role \in Who[c], body \in BodiesOf(op), g \in Given(op), k \in Targets(c, op)}

Requests(c) == UNION {Asking(c, op) : op \in Can[c]}

\* Another connection of the workspace has the name.
NameTaken(r) ==
    "name" \in DOMAIN r.given /\ \E k \in Rows \ {r.conn} : conn[k].name = r.given.name

NeedsAdmin == {"workspace_update", "jira_connection_create", "jira_connection_update",
               "jira_connection_deactivate", "jira_connection_test"}

\* The documentation has a reason to refuse the call with this status.
Refusable(r, status) ==
    \/ status = 400 /\ r.body = "invalid"
    \/ status = 400 /\ r.op \in ConnectionOps /\ NameTaken(r)
    \/ status = 403 /\ r.op \in NeedsAdmin /\ r.role = "viewer"
    \/ status = 403 /\ r.op = "workspace_delete" /\ r.role \in {"viewer", "admin"}
    \/ /\ status = 404 /\ r.op \notin {"workspace_list", "workspace_create"}
       /\ ~workspace \/ r.role = "stranger"
    \/ /\ status = 404
       /\ r.op \in ConnectionOps \ {"jira_connection_list", "jira_connection_create"}
       /\ ~conn[r.conn].exists

\* What the documentation promises a call that nothing disturbs: success, or
\* the status of one of the reasons to refuse it.
Promised(r) ==
    LET reasons == {status \in {400, 403, 404} : Refusable(r, status)} IN
    IF reasons = {} THEN {SuccessStatus(r.op)} ELSE reasons

Begin(c) ==
    /\ call[c].at = "idle"
    /\ \E r \in Requests(c) : Move(c, GetWorkspace([r EXCEPT !.promise = Promised(r)]))
    /\ UNCHANGED <<workspaceVars, conn>>

-----------------------------------------------------------------------------
(* Looking up and admitting.                                                *)

\* list_connections: require_membership looks once more.
ListConnections(c) ==
    /\ call[c].at = "found" /\ call[c].op = "jira_connection_list"
    /\ IF Membership(call[c]) THEN Reply(c, 200) ELSE Raise(c, NotFound)
    /\ UNCHANGED <<workspaceVars, conn>>

\* create_connection: _require_admin
AdmitCreate(c) ==
    /\ call[c].at = "found" /\ call[c].op = "jira_connection_create"
    /\ Require(c, HasAdminRole(call[c]))
    /\ UNCHANGED <<workspaceVars, conn>>

\* The SELECT of get_connection, and the validation of a PATCH after it.
GetConnection(c) ==
    LET r == call[c] IN
    /\ r.at = "found"
    /\ r.op \in {"jira_connection_get", "jira_connection_update",
                 "jira_connection_deactivate", "jira_connection_test"}
    /\ IF ~conn[r.conn].exists THEN Raise(c, NotFound)
       ELSE IF r.op = "jira_connection_get" THEN Reply(c, 200)
       ELSE IF r.body = "invalid" THEN Raise(c, ValidationError)
       ELSE Move(c, [r EXCEPT !.at = "looked",
                              !.copy = IF r.op = "jira_connection_test"
                                       THEN [f \in Fields |-> conn[r.conn][f]] ELSE <<>>])
    /\ UNCHANGED <<workspaceVars, conn>>

\* The attribute connection.workspace is loaded here; the exception that there
\* is none is nobody's.
LoadWorkspace(c) ==
    /\ call[c].at = "looked"
    /\ IF workspace THEN Goto(c, "related") ELSE Raise(c, Unexpected)
    /\ UNCHANGED <<workspaceVars, conn>>

\* _require_admin
Admit(c) ==
    /\ call[c].at = "related"
    /\ Require(c, HasAdminRole(call[c]))
    /\ UNCHANGED <<workspaceVars, conn>>

-----------------------------------------------------------------------------
(* Locks of rows and of names.                                              *)

Locked(k, c) == \E d \in Calls \ {c} : k \in call[d].held

\* The transaction has written a row of that name that it has not committed.
WritesName(d, name) ==
    /\ call[d].op \in {"jira_connection_create", "jira_connection_update"}
    /\ call[d].at = "written"
    /\ "name" \in DOMAIN call[d].given /\ call[d].given.name = name

\* Looking for the name in the index, c waits for d.
WaitsForName(c, d) ==
    LET name == call[c].given.name IN
    /\ c # d
    /\ "name" \in DOMAIN call[c].given
    /\ \/ WritesName(d, name)
       \/ \E k \in Rows \ {call[c].conn} : conn[k].name = name /\ k \in call[d].held

\* Inside an UPDATE, with the lock of its row, or inside the cascade.
Waits(c, d) ==
    \/ /\ call[c].at = "locked" /\ WaitsForName(c, d)
    \/ /\ call[c].at = "sweeping"
       /\ c # d
       /\ \E k \in call[c].swept \ call[c].held : k \in call[d].held

\* Each of some calls waits for another of them.  One that waits holding no lock
\* is waited for by nobody.
Deadlocked(c) ==
    \E cycle \in SUBSET {d \in Calls : call[d].held # {}} :
        c \in cycle /\ \A d \in cycle : \E e \in cycle : Waits(d, e)

\* The database rolls one of them back: OperationalError.
BreakDeadlock(c) ==
    /\ Deadlocked(c)
    /\ Move(c, Answered(Meets(call[c], "deadlock"), Handle(Unexpected)))
    /\ UNCHANGED <<workspaceVars, conn>>

-----------------------------------------------------------------------------
(* create_connection, update_connection and deactivate_connection.          *)

\* IntegrityError is not caught.
BugWriteName(c) ==
    /\ \A d \in Calls : ~WaitsForName(c, d)
    /\ IF NameTaken(call[c]) THEN Raise(c, Unexpected) ELSE Goto(c, "written")

\* The index is searched, and a name that is taken refused: IntegrityError.
WriteName(c) ==
    /\ \A d \in Calls : ~WaitsForName(c, d)
    /\ IF NameTaken(call[c]) THEN Raise(c, ApiError(400, "VALIDATION_ERROR"))
                             ELSE Goto(c, "written")

\* JiraConnection.objects.create
InsertConnection(c) ==
    /\ call[c].at = "admitted" /\ call[c].op = "jira_connection_create"
    /\ IF call[c].body = "too_long" THEN RaiseTooLong(c) ELSE WriteName(c)
    /\ UNCHANGED <<workspaceVars, conn>>

\* connection.save(update_fields=...): the row is locked, or is not there.
LockRow(c) ==
    LET r == call[c] IN
    /\ r.at = "admitted"
    /\ r.op \in {"jira_connection_update", "jira_connection_deactivate"}
    /\ \/ r.body = "too_long" /\ RaiseTooLong(c)
       \/ /\ r.body # "too_long" /\ ~Locked(r.conn, c)
          /\ IF conn[r.conn].exists THEN Move(c, [r EXCEPT !.at = "locked", !.held = {r.conn}])
                                    ELSE Raise(c, Unexpected)
    /\ UNCHANGED <<workspaceVars, conn>>

\* The unique index does not hold for an UPDATE.
BugUpdateRow(c) ==
    /\ call[c].at = "locked"
    /\ Goto(c, "written")
    /\ UNCHANGED <<workspaceVars, conn>>

\* The UPDATE goes on with the row it has locked.
UpdateRow(c) ==
    /\ call[c].at = "locked"
    /\ WriteName(c)
    /\ UNCHANGED <<workspaceVars, conn>>

\* log_action and COMMIT of create_connection; the foreign key may not hold.
CommitCreate(c) ==
    LET r == call[c] IN
    /\ r.at = "written" /\ r.op = "jira_connection_create"
    /\ IF workspace
       THEN /\ conn' = [conn EXCEPT ![r.conn] =
                            Row(r.given.name, r.given.settings, r.given.active)]
            /\ Commits(c, Answered(r, Success(201)), "connection")
       ELSE Raise(c, Unexpected) /\ UNCHANGED conn
    /\ UNCHANGED workspaceVars

\* log_action and COMMIT of the others.
CommitUpdate(c) ==
    LET r == call[c] IN
    /\ r.at = "written" /\ r.op \in {"jira_connection_update", "jira_connection_deactivate"}
    /\ conn' = [conn EXCEPT ![r.conn] = Written(@, r.given)]
    /\ Commits(c, Answered(r, Success(200)), "edit")
    /\ UNCHANGED workspaceVars

-----------------------------------------------------------------------------
(* run_connection_test.                                                     *)

\* decrypt_secret and GET /myself with the settings read before.
Verify(c) ==
    /\ call[c].at = "admitted" /\ call[c].op = "jira_connection_test"
    /\ \E said \in {"success", "failed"} :
           Move(c, [call[c] EXCEPT !.at = "verified", !.said = said])
    /\ UNCHANGED <<workspaceVars, conn>>

Verdict(c) == [status |-> call[c].said, error |-> call[c].said = "failed", by |-> c]

\* save() writes every field of the row read before.
BugSaveVerdict(c) ==
    LET k == call[c].conn IN
    /\ call[c].at = "verified"
    /\ ~Locked(k, c)
    /\ IF conn[k].exists
       THEN /\ conn' = [conn EXCEPT ![k] = [Written(@, call[c].copy) EXCEPT !.verdict = Verdict(c)]]
            /\ Goto(c, "saved")
       ELSE Raise(c, Unexpected) /\ UNCHANGED conn
    /\ UNCHANGED workspaceVars

\* connection.save(update_fields=["last_test_at", ...]).  Without a row it
\* raises, and the except branch that runs then saves, and raises, once more.
SaveVerdict(c) ==
    LET k == call[c].conn IN
    /\ call[c].at = "verified"
    /\ ~Locked(k, c)
    /\ IF conn[k].exists
       THEN conn' = [conn EXCEPT ![k].verdict = Verdict(c)] /\ Goto(c, "saved")
       ELSE Raise(c, Unexpected) /\ UNCHANGED conn
    /\ UNCHANGED workspaceVars

\* log_action, after the verdict is committed.
LogTest(c) ==
    /\ call[c].at = "saved" /\ call[c].op = "jira_connection_test"
    /\ Reply(c, 200)
    /\ UNCHANGED <<workspaceVars, conn>>

\* log_action raises after a success: the except branch answers a failed test
\* and keeps the success it has saved.
BugLogTestFails(c) ==
    /\ "audit" \in Faults
    /\ call[c].at = "saved" /\ call[c].op = "jira_connection_test"
    /\ Move(c, IF call[c].said = "success"
               THEN Answered(Meets([call[c] EXCEPT !.said = "failed"], "fault"), Success(200))
               ELSE Answered(Meets(call[c], "fault"), Handle(Unexpected)))
    /\ UNCHANGED <<workspaceVars, conn>>

\* log_action raises: after a success the except branch that catches everything
\* makes it a failed test and saves that; after a failure nobody catches it.
LogTestFails(c) ==
    /\ "audit" \in Faults
    /\ call[c].at = "saved" /\ call[c].op = "jira_connection_test"
    /\ Move(c, IF call[c].said = "success"
               THEN Meets([call[c] EXCEPT !.at = "verified", !.said = "failed"], "fault")
               ELSE Answered(Meets(call[c], "fault"), Handle(Unexpected)))
    /\ UNCHANGED <<workspaceVars, conn>>

-----------------------------------------------------------------------------
(* workspace.delete(): the cascade.                                         *)

\* It collects the connections before its transaction begins.
Collect(c) ==
    /\ call[c].at = "admitted" /\ call[c].op = "workspace_delete"
    /\ Move(c, [call[c] EXCEPT !.at = "collected", !.swept = Rows])
    /\ UNCHANGED <<workspaceVars, conn>>

\* The memberships go first, and make another deletion wait.
DeleteMemberships(c) ==
    /\ call[c].at = "collected"
    /\ \A d \in Calls : call[d].at # "sweeping"
    /\ Goto(c, "sweeping")
    /\ UNCHANGED <<workspaceVars, conn>>

\* The DELETE of the connections locks them one by one; some may be gone.
DeleteRow(c) ==
    /\ call[c].at = "sweeping"
    /\ \E k \in (call[c].swept \ call[c].held) \cap Rows :
           ~Locked(k, c) /\ Move(c, [call[c] EXCEPT !.held = @ \cup {k}])
    /\ UNCHANGED <<workspaceVars, conn>>

\* The rows are marked deleted and kept.
BugCommitDelete(c) ==
    /\ call[c].at = "sweeping"
    /\ call[c].swept \cap Rows \subseteq call[c].held
    /\ workspace' = FALSE
    /\ conn' = [k \in Conns |-> [conn[k] EXCEPT !.exists = FALSE]]
    /\ Commits(c, [call[c] EXCEPT !.at = "saved", !.held = {}, !.swept = {}], "delete")
    /\ UNCHANGED made

\* The workspace goes and COMMIT, unless a connection was created since Collect.
CommitDelete(c) ==
    /\ call[c].at = "sweeping"
    /\ call[c].swept \cap Rows \subseteq call[c].held
    /\ IF Rows \subseteq call[c].held
       THEN /\ workspace' = FALSE
            /\ conn' = [k \in Conns |-> NoRow]
            /\ Commits(c, [call[c] EXCEPT !.at = "saved", !.held = {}, !.swept = {}], "delete")
       ELSE Raise(c, Unexpected) /\ UNCHANGED <<workspace, conn>>
    /\ UNCHANGED made

-----------------------------------------------------------------------------
(* Failures, and the composition.                                           *)

\* log_action raises: what is not committed yet is rolled back.
LogFails(c) ==
    /\ "audit" \in Faults
    /\ call[c].at \in {"written", "saved"} /\ call[c].op # "jira_connection_test"
    /\ Move(c, Answered(Meets(call[c], "fault"), Handle(Unexpected)))
    /\ UNCHANGED <<workspaceVars, conn>>

\* The process dies.
Crash(c) ==
    /\ "crash" \in Faults
    /\ Open(c)
    /\ Move(c, Ended)
    /\ UNCHANGED <<workspaceVars, conn>>

\* The response is sent.
Respond(c) ==
    /\ call[c].at = "answered"
    /\ Move(c, Ended)
    /\ UNCHANGED <<workspaceVars, conn>>

ConnectionStep(c) ==
    \/ ListConnections(c) \/ GetConnection(c) \/ LoadWorkspace(c) \/ AdmitCreate(c) \/ Admit(c)
    \/ InsertConnection(c) \/ LockRow(c) \/ UpdateRow(c) \/ CommitCreate(c) \/ CommitUpdate(c)
    \/ Verify(c) \/ SaveVerdict(c) \/ LogTest(c)
    \/ Collect(c) \/ DeleteMemberships(c) \/ DeleteRow(c) \/ CommitDelete(c)

Step(c) ==
    \/ WorkspaceStep(c) /\ UNCHANGED conn
    \/ ConnectionStep(c)
    \/ BreakDeadlock(c)
    \/ Respond(c)

Next == \E c \in Calls : Begin(c) \/ Step(c) \/ LogTestFails(c) \/ LogFails(c) \/ Crash(c)

Spec == Init /\ [][Next]_vars

\* As long as a call that has begun can go on, one of them does.
FairSpec == Spec /\ WF_vars(\E c \in Calls : Step(c))

\* The responses jira/openapi.py lists for its operations on connections.
ConnectionDocs ==
    [jira_connection_list       |-> {200, 401, 404},
     jira_connection_create     |-> {201, 400, 401, 403, 404},
     jira_connection_get        |-> {200, 401, 404},
     jira_connection_update     |-> {200, 400, 401, 403, 404},
     jira_connection_deactivate |-> {200, 401, 403, 404},
     jira_connection_test       |-> {200, 401, 403, 404}]
-----------------------------------------------------------------------------
(* Safety.                                                                  *)

TypeOK ==
    /\ workspace \in BOOLEAN
    /\ \A c \in Calls :
           /\ made[c] = "none" \/ \E n \in DOMAIN Candidates : \E i \in DOMAIN Candidates[n] :
                                       made[c] = Candidates[n][i]
           /\ DOMAIN call[c] = DOMAIN NoCall
           /\ call[c].op \in {"none"} \cup WorkspaceOps \cup ConnectionOps
           /\ call[c].held \cup call[c].swept \subseteq Conns
           /\ call[c].met \subseteq Events
           /\ call[c].answer # NoAnswer <=> call[c].at = "answered"
           /\ call[c].at = "naming" =>
                  call[c].tried \in DOMAIN Candidates[call[c].given.name]
    /\ \A k \in Conns :
           /\ DOMAIN conn[k] = DOMAIN NoRow
           /\ conn[k].verdict.status \in {"unknown", "success", "failed"}
           /\ conn[k].exists \/ conn[k] = NoRow

\* The unique indexes and the foreign key hold of the committed rows at every
\* moment: no two connections of one name, none without its workspace, no two
\* workspaces of one slug, however creations, renamings and the deletion overlap.
RowsConsistent ==
    /\ \A k, l \in Rows : conn[k].name = conn[l].name => k = l
    /\ Rows # {} => workspace
    /\ \A c, d \in Calls : made[c] = made[d] => c = d \/ made[c] = "none"
    /\ workspace => \A c \in Calls : made[c] # OwnSlug

\* What a connection test answers is what it has left in the row, as long as no
\* later test has overwritten it: a success never leaves the failure, or a
\* failure the success, of the same test behind, also when log_action raises
\* between the two saves of run_connection_test.
TestAnswerIsStored ==
    \A c \in Calls :
        LET r == call[c] IN
        r.at = "answered" /\ r.op = "jira_connection_test" /\ r.answer.status = 200
            => \/ conn[r.conn].verdict.by # c
               \/ conn[r.conn].verdict = Verdict(c)

\* A call that no other call's commit and no failure touches answers what the
\* documentation promises for the state it began in: a non-member gets 404 and
\* not 403, a member without the role 403, a taken name 400, the rest success.
AloneAsPromised ==
    \A c \in Calls :
        call[c].at = "answered" /\ call[c].met = {} => call[c].answer.status \in call[c].promise

Documented(op) == IF op \in WorkspaceOps THEN WorkspaceDocs[op] ELSE ConnectionDocs[op]

\* A status the documentation does not list is the 500 of one of these: a value
\* too long for its column, a failed log_action, a deadlock, a slug taken since
\* it was looked up, a connection created under a deletion, or a workspace
\* deleted under a call on one of its parts.  No other overlap of the calls of
\* this module is answered that way; the loser of a race for a name gets its 400.
\* (An invite accepted or a metadata row created under a deletion, which are not
\* calls of this module, make it a 500 as a connection does.)
UndocumentedHasCause ==
    \A c \in Calls :
        LET r == call[c] IN
        r.at = "answered" /\ r.answer.status \notin Documented(r.op)
            => /\ r.answer = ServerError
               /\ \/ r.met \cap {"too_long", "fault"} # {}
                  \/ /\ "deadlock" \in r.met
                     /\ r.op \in {"workspace_delete", "jira_connection_update"}
                  \/ "workspace" \in r.met /\ r.op = "workspace_create"
                  \/ "connection" \in r.met /\ r.op = "workspace_delete"
                  \/ /\ "delete" \in r.met
                     /\ r.op \in {"workspace_update", "jira_connection_create",
                                  "jira_connection_update", "jira_connection_deactivate",
                                  "jira_connection_test"}

\* A field of a connection changes only to what a PATCH or a deactivation gave
\* for it, and only if that call answers success: neither a test that read the
\* row earlier nor a PATCH of other fields takes a change back, and a call
\* that fails changes nothing (update_fields, the transactions).
ChangesKept ==
    [][\A k \in Rows : conn'[k].exists =>
           \A f \in Fields : conn'[k][f] # conn[k][f] =>
               \E c \in Calls : /\ call[c].conn = k
                                /\ f \in DOMAIN call[c].given
                                /\ conn'[k][f] = call[c].given[f]
                                /\ call'[c].answer = Success(200)]_vars

(* Liveness.                                                                *)

\* Every call that begins is answered or dies, also when transactions wait for
\* one another's rows and names.
CallsEnd == <>[](\A c \in Calls : call[c].at \in {"idle", "ended"})
=============================================================================
