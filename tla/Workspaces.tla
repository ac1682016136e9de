----------------------------- MODULE Workspaces -----------------------------
(***************************************************************************)
(* The calls of /api/workspaces/, and what the calls on the parts of a     *)
(* workspace share with them: finding the workspace, the caller's role and *)
(* the end of a call.  Connections adds the calls on Jira connections and  *)
(* puts the two together.                                                  *)
(*                                                                         *)
(* All paths name one workspace.  The workspaces that POST calls create    *)
(* beside it matter for their slugs only.                                  *)
(*                                                                         *)
(* A definition named Bug... is the one after it with a plausible mistake; *)
(* no specification uses it.  It shows which property notices the mistake. *)
(***************************************************************************)
EXTENDS Errors, Sequences, FiniteSets

CONSTANTS
    Calls,       \* the requests, each handled by a thread of its own
    Candidates,  \* for a name, the slugs build_unique_slug tries one by one
    OwnSlug,     \* the slug of the workspace the paths name
    TooLong,     \* a candidate of more than 255 characters
    Faults       \* which failures of the environment may happen

ASSUME WorkspaceFaultsAssumption == Faults \subseteq {"audit", "crash"}
ASSUME NoneAssumption == "none" \notin Calls /\ OwnSlug # "none"

VARIABLES
    workspace,  \* whether the row of the workspace exists, with its memberships
    made,       \* the slug of the workspace that a call created
    call        \* what each call asks, where it is and what it was answered

WorkspaceOps == {"workspace_list", "workspace_create", "workspace_get",
                 "workspace_update", "workspace_delete", "workspace_members_list"}
Roles == {"owner", "admin", "viewer", "stranger"}

\* too_long: an e-mail address of more than 254 characters.
Bodies == {"valid", "invalid", "too_long"}

\* What changed under a call, or failed in it, before it was answered.
Events == {"delete", "workspace", "connection", "edit", "deadlock", "too_long", "fault"}

NoAnswer == Answer(0, "none")

\* "given" are the fields of the body.  "met" and "promise" are read by the
\* properties only: the events so far, and what the documentation promises a
\* call that meets none.
NoCall ==
    [at |-> "idle", op |-> "none", role |-> "none", body |-> "none", given |-> <<>>,
     conn |-> "none", tried |-> 0, swept |-> {}, held |-> {}, said |-> "none",
     copy |-> <<>>, met |-> {}, promise |-> {}, answer |-> NoAnswer]

\* Its response is sent, or its process is gone.
Ended == [NoCall EXCEPT !.at = "ended"]

Open(c) == call[c].at \notin {"idle", "answered", "ended"}

-----------------------------------------------------------------------------
(* The end of a call, and what it means to the others.                      *)

\* What a view, or the exception handler, answers.
Answered(r, answer) ==
    [Ended EXCEPT !.at = "answered", !.op = r.op, !.conn = r.conn, !.said = r.said,
                  !.met = r.met, !.promise = r.promise, !.answer = answer]

Meets(r, event) == [r EXCEPT !.met = @ \cup {event}, !.promise = {}]

\* The call becomes r, and the other open calls meet the event.
Commits(c, r, event) ==
    call' = [d \in Calls |-> IF d = c THEN r
                             ELSE IF Open(d) THEN Meets(call[d], event) ELSE call[d]]

Move(c, r) == call' = [call EXCEPT ![c] = r]
Goto(c, next) == Move(c, [call[c] EXCEPT !.at = next])
Reply(c, status) == Move(c, Answered(call[c], Success(status)))
Raise(c, exc) == Move(c, Answered(call[c], Handle(exc)))

\* A value does not fit its column: DataError.
RaiseTooLong(c) == Move(c, Answered(Meets(call[c], "too_long"), Handle(Unexpected)))

NotFound == ApiError(404, "NOT_FOUND")
Forbidden == ApiError(403, "FORBIDDEN")

\* The status of a view that returns.
SuccessStatus(op) ==
    CASE op \in {"workspace_create", "jira_connection_create"} -> 201
      [] op = "workspace_delete" -> 204
      [] OTHER -> 200

-----------------------------------------------------------------------------
(* Who may.                                                                 *)

\* get_membership: the membership goes with the workspace.
Membership(r) == workspace /\ r.role # "stranger"

\* Every member may.
BugHasAdminRole(r) == Membership(r)

\* user_has_admin_role
HasAdminRole(r) == Membership(r) /\ r.role \in {"owner", "admin"}

\* user_is_owner: the owner is a column of the workspace read before.
IsOwner(r) == r.role = "owner"

\* _require_admin, and its like in update_workspace and delete_workspace.
Require(c, allowed) == IF allowed THEN Goto(c, "admitted") ELSE Raise(c, Forbidden)

-----------------------------------------------------------------------------
(* The first SELECTs of a request.                                          *)

\* The POST views validate first, the PATCH views look up first.
ValidatesFirst == {"workspace_create", "jira_connection_create"}

\* The views up to the end of get_workspace, for the operations that call it;
\* its second SELECT decides also when the workspace goes between the two.
GetWorkspace(r) ==
    IF r.op \in ValidatesFirst /\ r.body = "invalid" THEN Answered(r, Handle(ValidationError))
    ELSE IF r.op = "workspace_create" THEN [r EXCEPT !.at = "naming", !.tried = 1]
    ELSE IF r.op = "workspace_list" THEN Answered(r, Success(200))
    ELSE IF ~Membership(r) THEN Answered(r, Handle(NotFound))
    ELSE IF r.op = "workspace_get" THEN Answered(r, Success(200))
    ELSE IF r.op = "workspace_update" /\ r.body = "invalid"
         THEN Answered(r, Handle(ValidationError))
    ELSE [r EXCEPT !.at = "found"]

\* list_members finds nobody when the workspace is gone by now.
ListMembers(c) ==
    /\ call[c].at = "found" /\ call[c].op = "workspace_members_list"
    /\ Reply(c, 200)
    /\ UNCHANGED <<workspace, made>>

-----------------------------------------------------------------------------
(* create_workspace, a transaction.                                         *)

Slug(r) == Candidates[r.given.name][r.tried]

Slugs == {made[d] : d \in Calls} \cup (IF workspace THEN {OwnSlug} ELSE {})

\* Another transaction has inserted the slug and may still roll back.
SlugPending(c, slug) ==
    \E d \in Calls \ {c} : /\ call[d].op = "workspace_create" /\ call[d].at = "written"
                           /\ Slug(call[d]) = slug

\* The suffix does not grow, and the same candidate is looked up again.
BugTrySlug(c) ==
    /\ call[c].at = "naming"
    /\ IF Slug(call[c]) \in Slugs THEN UNCHANGED call ELSE Goto(c, "named")
    /\ UNCHANGED <<workspace, made>>

\* build_unique_slug: one SELECT for each candidate.
TrySlug(c) ==
    /\ call[c].at = "naming"
    /\ IF Slug(call[c]) \in Slugs
       THEN Move(c, [call[c] EXCEPT !.tried = @ + 1])
       ELSE Goto(c, "named")
    /\ UNCHANGED <<workspace, made>>

\* Workspace.objects.create and the membership of the owner.  The INSERT waits
\* for another one of the slug; a slug taken by now, or too long for its column,
\* is a database error that nobody catches.
InsertWorkspace(c) ==
    LET slug == Slug(call[c]) IN
    /\ call[c].at = "named"
    /\ ~SlugPending(c, slug)
    /\ IF slug = TooLong THEN RaiseTooLong(c)
       ELSE IF slug \in Slugs THEN Raise(c, Unexpected) ELSE Goto(c, "written")
    /\ UNCHANGED <<workspace, made>>

\* log_action and COMMIT.
CommitWorkspace(c) ==
    /\ call[c].op = "workspace_create" /\ call[c].at = "written"
    /\ made' = [made EXCEPT ![c] = Slug(call[c])]
    /\ Commits(c, Answered(call[c], Success(201)), "workspace")
    /\ UNCHANGED workspace

-----------------------------------------------------------------------------
(* update_workspace, and delete_workspace before the deletion.              *)

\* The membership is read again: a caller whose workspace is gone is forbidden.
AdmitUpdate(c) ==
    /\ call[c].at = "found" /\ call[c].op = "workspace_update"
    /\ Require(c, HasAdminRole(call[c]))
    /\ UNCHANGED <<workspace, made>>

\* save(update_fields=...) raises when it finds no row to update.
SaveName(c) ==
    /\ call[c].at = "admitted" /\ call[c].op = "workspace_update"
    /\ IF workspace THEN Goto(c, "saved") ELSE Raise(c, Unexpected)
    /\ UNCHANGED <<workspace, made>>

AdmitDelete(c) ==
    /\ call[c].at = "found" /\ call[c].op = "workspace_delete"
    /\ Require(c, IsOwner(call[c]))
    /\ UNCHANGED <<workspace, made>>

\* log_action, after a statement that has committed.
LogWorkspaceAction(c) ==
    /\ call[c].at = "saved" /\ call[c].op \in {"workspace_update", "workspace_delete"}
    /\ Reply(c, SuccessStatus(call[c].op))
    /\ UNCHANGED <<workspace, made>>

-----------------------------------------------------------------------------
WorkspaceStep(c) ==
    \/ ListMembers(c) \/ TrySlug(c) \/ InsertWorkspace(c) \/ CommitWorkspace(c)
    \/ AdmitUpdate(c) \/ SaveName(c) \/ AdmitDelete(c) \/ LogWorkspaceAction(c)

\* The responses tenants/openapi.py lists for its operations.
WorkspaceDocs ==
    [workspace_list         |-> {200, 401},
     workspace_create       |-> {201, 400, 401},
     workspace_get          |-> {200, 401, 404},
     workspace_update       |-> {200, 400, 401, 403, 404},
     workspace_delete       |-> {204, 401, 403, 404},
     workspace_members_list |-> {200, 401, 404}]
=============================================================================
