------------------------- MODULE ConnectionsProofs --------------------------
(* What holds of Connections, with the calls of Workspaces, for any calls,   *)
(* connections, names, bodies and failures: the unique indexes hold, no call *)
(* takes a change back, and every answer is what the documentation promises  *)
(* or has a cause.                                                           *)
EXTENDS Connections, FiniteSetTheorems, TLAPS

-----------------------------------------------------------------------------
(* Records.                                                                 *)

CallFields == {"at", "op", "role", "body", "given", "conn", "tried", "swept", "held", "said",
               "copy", "met", "promise", "answer"}
RowFields == {"exists", "name", "settings", "active", "verdict"}

RecordInv ==
    /\ DOMAIN call = Calls /\ DOMAIN made = Calls /\ DOMAIN conn = Conns
    /\ \A c \in Calls : DOMAIN call[c] = CallFields
    /\ \A k \in Conns : DOMAIN conn[k] = RowFields

LEMMA NoCallFields ==
    /\ DOMAIN NoCall = CallFields /\ DOMAIN Ended = CallFields
    /\ NoCall.at = "idle" /\ Ended.at = "ended"
    /\ \A f \in CallFields \ {"at"} : Ended[f] = NoCall[f]
    /\ NoCall.op = "none" /\ NoCall.held = {} /\ NoCall.swept = {} /\ NoCall.met = {}
    /\ NoCall.answer = NoAnswer
  BY DEF NoCall, Ended, CallFields

LEMMA RowTyped ==
    /\ \A name, settings, active :
           /\ DOMAIN Row(name, settings, active) = RowFields
           /\ Row(name, settings, active).exists = TRUE
           /\ Row(name, settings, active).name = name
           /\ Row(name, settings, active).settings = settings
           /\ Row(name, settings, active).active = active
           /\ Row(name, settings, active).verdict = Unknown
    /\ DOMAIN NoRow = RowFields /\ NoRow.exists = FALSE /\ NoRow.verdict = Unknown
  BY DEF Row, NoRow, RowFields

LEMMA MeetsFields ==
    ASSUME NEW r, DOMAIN r = CallFields, NEW event
    PROVE  /\ DOMAIN Meets(r, event) = CallFields
           /\ \A f \in CallFields \ {"met", "promise"} : Meets(r, event)[f] = r[f]
           /\ Meets(r, event).met = r.met \cup {event} /\ Meets(r, event).promise = {}
  BY DEF Meets, CallFields

LEMMA AnsweredFields ==
    ASSUME NEW r, NEW answer
    PROVE  /\ DOMAIN Answered(r, answer) = CallFields
           /\ Answered(r, answer).at = "answered" /\ Answered(r, answer).answer = answer
           /\ Answered(r, answer).op = r.op /\ Answered(r, answer).conn = r.conn
           /\ Answered(r, answer).said = r.said /\ Answered(r, answer).met = r.met
           /\ Answered(r, answer).promise = r.promise
           /\ Answered(r, answer).held = {} /\ Answered(r, answer).swept = {}
  BY DEF Answered, Ended, NoCall, CallFields

-----------------------------------------------------------------------------
(* What a step does to the records.                                         *)

Quiet(c) ==
    /\ DOMAIN call' = Calls /\ DOMAIN call'[c] = CallFields
    /\ \A d \in Calls : d # c => call'[d] = call[d]

\* The call goes to the stage at, and keeps its other fields but F.
Advances(c, at, F) ==
    /\ Quiet(c)
    /\ call'[c].at = at
    /\ \A f \in CallFields \ ({"at"} \cup F) : call'[c][f] = call[c][f]

\* It is answered, after the events M.
Finished(c, answer, M) ==
    /\ call'[c].at = "answered" /\ call'[c].answer = answer
    /\ call'[c].op = call[c].op /\ call'[c].conn = call[c].conn /\ call'[c].said = call[c].said
    /\ call'[c].met = call[c].met \cup M
    /\ M = {} => call'[c].promise = call[c].promise
    /\ call'[c].held = {} /\ call'[c].swept = {}

Ends(c, answer, M) == Quiet(c) /\ Finished(c, answer, M)

LEMMA Moved ==
    ASSUME RecordInv, NEW c \in Calls, NEW r, Move(c, r), DOMAIN r = CallFields
    PROVE  Quiet(c) /\ call'[c] = r
  BY DEF RecordInv, Move, Quiet

LEMMA GotoAdvances ==
    ASSUME RecordInv, NEW c \in Calls, NEW at, Goto(c, at)
    PROVE  Advances(c, at, {})
  <1> DEFINE r == [call[c] EXCEPT !.at = at]
  <1>1. /\ DOMAIN r = CallFields /\ r.at = at
        /\ \A f \in CallFields \ {"at"} : r[f] = call[c][f]
    BY DEF RecordInv, CallFields
  <1>2. Move(c, r)
    BY DEF Goto
  <1> HIDE DEF r
  <1> QED
    BY <1>1, <1>2, Moved DEF Advances

LEMMA RaiseEnds ==
    ASSUME RecordInv, NEW c \in Calls, NEW exc, Raise(c, exc)
    PROVE  Ends(c, Handle(exc), {})
  BY Moved, AnsweredFields DEF Raise, Ends, Finished

LEMMA ReplyEnds ==
    ASSUME RecordInv, NEW c \in Calls, NEW status, Reply(c, status)
    PROVE  Ends(c, Success(status), {})
  BY Moved, AnsweredFields DEF Reply, Ends, Finished

LEMMA MeetsEnds ==
    ASSUME RecordInv, NEW c \in Calls, NEW event, NEW answer,
           Move(c, Answered(Meets(call[c], event), answer))
    PROVE  Ends(c, answer, {event})
  <1>1. /\ DOMAIN Meets(call[c], event) = CallFields
        /\ \A f \in CallFields \ {"met", "promise"} : Meets(call[c], event)[f] = call[c][f]
        /\ Meets(call[c], event).met = call[c].met \cup {event}
    BY MeetsFields DEF RecordInv
  <1>2. "op" \in CallFields \ {"met", "promise"} /\ "conn" \in CallFields \ {"met", "promise"}
        /\ "said" \in CallFields \ {"met", "promise"}
    BY DEF CallFields
  <1> DEFINE r == Answered(Meets(call[c], event), answer)
  <1>3. /\ DOMAIN r = CallFields /\ r.at = "answered" /\ r.answer = answer
        /\ r.op = call[c].op /\ r.conn = call[c].conn /\ r.said = call[c].said
        /\ r.met = call[c].met \cup {event} /\ r.held = {} /\ r.swept = {}
    BY <1>1, <1>2, AnsweredFields
  <1>4. Move(c, r)
    OBVIOUS
  <1> HIDE DEF r
  <1> QED
    BY <1>3, <1>4, Moved DEF Ends, Finished

\* A commit, which the other open calls meet.
Heard(c, event) ==
    /\ DOMAIN call' = Calls /\ DOMAIN call'[c] = CallFields
    /\ \A d \in Calls : d # c => call'[d] = IF Open(d) THEN Meets(call[d], event) ELSE call[d]

LEMMA Committed ==
    ASSUME NEW c \in Calls, NEW r, DOMAIN r = CallFields, NEW event, Commits(c, r, event)
    PROVE  Heard(c, event) /\ call'[c] = r
  BY DEF Commits, Heard

\* The answers of the exceptions the calls raise.
LEMMA Handled ==
    /\ Handle(NotFound).status = 404 /\ Handle(Forbidden).status = 403
    /\ Handle(ApiError(400, "VALIDATION_ERROR")).status = 400
    /\ Handle(ValidationError).status = 400
    /\ Handle(Unexpected) = ServerError /\ ServerError.status = 500
    /\ \A status : Success(status).status = status
    /\ NoAnswer.status = 0
  <1>1. \A status, code : Handle(ApiError(status, code)).status = status
    BY DEF Handle, ApiError, Answer
  <1>2. Handle(ValidationError).status = 400
    BY DEF Handle, ValidationError, Answer
  <1>3. Handle(Unexpected) = ServerError
    BY DEF Handle, Unexpected
  <1> QED
    BY <1>1, <1>2, <1>3 DEF NotFound, Forbidden, ServerError, Success, Answer, NoAnswer

-----------------------------------------------------------------------------
(* Where each step leads.                                                   *)

Still == workspace' = workspace /\ made' = made /\ conn' = conn

LEMMA ListSteps ==
    ASSUME RecordInv, NEW c \in Calls
    PROVE  /\ ListMembers(c) /\ UNCHANGED conn => Ends(c, Success(200), {}) /\ Still
           /\ ListConnections(c) =>
                  /\ Still
                  /\ \/ Membership(call[c]) /\ Ends(c, Success(200), {})
                     \/ ~Membership(call[c]) /\ Ends(c, Handle(NotFound), {})
  BY ReplyEnds, RaiseEnds DEF ListMembers, ListConnections, workspaceVars, Still

LEMMA NamingSteps ==
    ASSUME RecordInv, NEW c \in Calls, UNCHANGED conn
    PROVE  /\ TrySlug(c) =>
                  /\ Still
                  /\ \/ /\ Slug(call[c]) \in Slugs
                        /\ Advances(c, "naming", {"tried"}) /\ call'[c].tried = call[c].tried + 1
                     \/ Slug(call[c]) \notin Slugs /\ Advances(c, "named", {})
           /\ InsertWorkspace(c) =>
                  /\ Still
                  /\ \/ Ends(c, ServerError, {"too_long"})
                     \/ Slug(call[c]) \in Slugs /\ Ends(c, ServerError, {})
                     \/ /\ Slug(call[c]) \notin Slugs /\ Slug(call[c]) # TooLong
                        /\ ~SlugPending(c, Slug(call[c]))
                        /\ Advances(c, "written", {})
  <1>1. ASSUME TrySlug(c), Slug(call[c]) \in Slugs
        PROVE  Advances(c, "naming", {"tried"}) /\ call'[c].tried = call[c].tried + 1
    <2> DEFINE r == [call[c] EXCEPT !.tried = @ + 1]
    <2>1. /\ DOMAIN r = CallFields /\ r.tried = call[c].tried + 1
          /\ \A f \in CallFields \ {"tried"} : r[f] = call[c][f]
      BY DEF RecordInv, CallFields
    <2>2. Move(c, r) /\ call[c].at = "naming"
      BY <1>1 DEF TrySlug
    <2> HIDE DEF r
    <2>3. Quiet(c) /\ call'[c] = r /\ r.at = "naming"
      BY <2>1, <2>2, Moved DEF CallFields
    <2> QED
      BY <2>1, <2>3 DEF Advances
  <1>2. ASSUME TrySlug(c), Slug(call[c]) \notin Slugs
        PROVE  Advances(c, "named", {})
    BY <1>2, GotoAdvances DEF TrySlug
  <1>3. TrySlug(c) => Still
    BY DEF TrySlug, Still
  <1>4. InsertWorkspace(c) => Still
    BY DEF InsertWorkspace, Still
  <1>5. ASSUME InsertWorkspace(c), Slug(call[c]) = TooLong
        PROVE  Ends(c, ServerError, {"too_long"})
    <2>1. RaiseTooLong(c)
      BY <1>5 DEF InsertWorkspace
    <2>2. Ends(c, Handle(Unexpected), {"too_long"})
      BY <2>1, MeetsEnds DEF RaiseTooLong
    <2> QED
      BY <2>2, Handled
  <1>6. ASSUME InsertWorkspace(c), Slug(call[c]) # TooLong, Slug(call[c]) \in Slugs
        PROVE  Ends(c, ServerError, {})
    <2>1. Raise(c, Unexpected)
      BY <1>6 DEF InsertWorkspace
    <2> QED
      BY <2>1, RaiseEnds, Handled
  <1>7. ASSUME InsertWorkspace(c), Slug(call[c]) # TooLong, Slug(call[c]) \notin Slugs
        PROVE  ~SlugPending(c, Slug(call[c])) /\ Advances(c, "written", {})
    BY <1>7, GotoAdvances DEF InsertWorkspace
  <1> QED
    BY <1>1, <1>2, <1>3, <1>4, <1>5, <1>6, <1>7

LEMMA RequireSteps ==
    ASSUME RecordInv, NEW c \in Calls, NEW allowed \in BOOLEAN, Require(c, allowed)
    PROVE  \/ allowed /\ Advances(c, "admitted", {})
           \/ ~allowed /\ Ends(c, Handle(Forbidden), {})
  BY GotoAdvances, RaiseEnds DEF Require

LEMMA AdmissionSteps ==
    ASSUME RecordInv, NEW c \in Calls
    PROVE  /\ AdmitUpdate(c) /\ UNCHANGED conn =>
                  /\ Still
                  /\ \/ HasAdminRole(call[c]) /\ Advances(c, "admitted", {})
                     \/ ~HasAdminRole(call[c]) /\ Ends(c, Handle(Forbidden), {})
           /\ AdmitDelete(c) /\ UNCHANGED conn =>
                  /\ Still
                  /\ \/ IsOwner(call[c]) /\ Advances(c, "admitted", {})
                     \/ ~IsOwner(call[c]) /\ Ends(c, Handle(Forbidden), {})
           /\ AdmitCreate(c) \/ Admit(c) =>
                  /\ Still
                  /\ \/ HasAdminRole(call[c]) /\ Advances(c, "admitted", {})
                     \/ ~HasAdminRole(call[c]) /\ Ends(c, Handle(Forbidden), {})
  <1>1. Require(c, HasAdminRole(call[c])) =>
            \/ HasAdminRole(call[c]) /\ Advances(c, "admitted", {})
            \/ ~HasAdminRole(call[c]) /\ Ends(c, Handle(Forbidden), {})
    BY GotoAdvances, RaiseEnds DEF Require
  <1>2. Require(c, IsOwner(call[c])) =>
            \/ IsOwner(call[c]) /\ Advances(c, "admitted", {})
            \/ ~IsOwner(call[c]) /\ Ends(c, Handle(Forbidden), {})
    BY GotoAdvances, RaiseEnds DEF Require
  <1> QED
    BY <1>1, <1>2 DEF AdmitUpdate, AdmitDelete, AdmitCreate, Admit, workspaceVars, Still

LEMMA WorkspaceSaves ==
    ASSUME RecordInv, NEW c \in Calls, UNCHANGED conn
    PROVE  /\ SaveName(c) =>
                  /\ Still
                  /\ \/ workspace /\ Advances(c, "saved", {})
                     \/ ~workspace /\ Ends(c, ServerError, {})
           /\ LogWorkspaceAction(c) => Still /\ Ends(c, Success(SuccessStatus(call[c].op)), {})
  <1>1. Raise(c, Unexpected) => Ends(c, ServerError, {})
    BY RaiseEnds, Handled
  <1> QED
    BY <1>1, GotoAdvances, ReplyEnds DEF SaveName, LogWorkspaceAction, Still

LEMMA LookingSteps ==
    ASSUME RecordInv, NEW c \in Calls
    PROVE  /\ GetConnection(c) =>
                  /\ Still
                  /\ \/ ~conn[call[c].conn].exists /\ Ends(c, Handle(NotFound), {})
                     \/ /\ conn[call[c].conn].exists /\ call[c].op = "jira_connection_get"
                        /\ Ends(c, Success(200), {})
                     \/ call[c].body = "invalid" /\ Ends(c, Handle(ValidationError), {})
                     \/ /\ conn[call[c].conn].exists /\ call[c].body # "invalid"
                        /\ call[c].op # "jira_connection_get"
                        /\ Advances(c, "looked", {"copy"})
           /\ LoadWorkspace(c) =>
                  /\ Still
                  /\ \/ workspace /\ Advances(c, "related", {})
                     \/ ~workspace /\ Ends(c, ServerError, {})
  <1>1. Raise(c, Unexpected) => Ends(c, ServerError, {})
    BY RaiseEnds, Handled
  <1>2. ASSUME NEW copy, Move(c, [call[c] EXCEPT !.at = "looked", !.copy = copy])
        PROVE  Advances(c, "looked", {"copy"})
    <2> DEFINE r == [call[c] EXCEPT !.at = "looked", !.copy = copy]
    <2>1. /\ DOMAIN r = CallFields /\ r.at = "looked"
          /\ \A f \in CallFields \ {"at", "copy"} : r[f] = call[c][f]
      BY DEF RecordInv, CallFields
    <2> HIDE DEF r
    <2>2. Quiet(c) /\ call'[c] = r
      BY <1>2, <2>1, Moved DEF r
    <2> QED
      BY <2>1, <2>2 DEF Advances
  <1>3. LoadWorkspace(c) => /\ Still
                            /\ \/ workspace /\ Advances(c, "related", {})
                               \/ ~workspace /\ Ends(c, ServerError, {})
    BY <1>1, GotoAdvances DEF LoadWorkspace, workspaceVars, Still
  <1>4. ASSUME GetConnection(c)
        PROVE  \/ ~conn[call[c].conn].exists /\ Raise(c, NotFound)
               \/ /\ conn[call[c].conn].exists /\ call[c].op = "jira_connection_get"
                  /\ Reply(c, 200)
               \/ call[c].body = "invalid" /\ Raise(c, ValidationError)
               \/ /\ conn[call[c].conn].exists /\ call[c].body # "invalid"
                  /\ call[c].op # "jira_connection_get"
                  /\ \E copy : Move(c, [call[c] EXCEPT !.at = "looked", !.copy = copy])
    <2> DEFINE taken == IF call[c].op = "jira_connection_test"
                        THEN [f \in Fields |-> conn[call[c].conn][f]] ELSE <<>>
    <2>1. CASE ~conn[call[c].conn].exists
      <3>1. Raise(c, NotFound)
        BY <1>4, <2>1 DEF GetConnection
      <3> QED
        BY <2>1, <3>1
    <2>2. CASE conn[call[c].conn].exists /\ call[c].op = "jira_connection_get"
      <3>1. Reply(c, 200)
        BY <1>4, <2>2 DEF GetConnection
      <3> QED
        BY <2>2, <3>1
    <2>3. CASE /\ conn[call[c].conn].exists /\ call[c].op # "jira_connection_get"
               /\ call[c].body = "invalid"
      <3>1. Raise(c, ValidationError)
        BY <1>4, <2>3 DEF GetConnection
      <3> QED
        BY <2>3, <3>1
    <2>4. CASE /\ conn[call[c].conn].exists /\ call[c].op # "jira_connection_get"
               /\ call[c].body # "invalid"
      <3>1. Move(c, [call[c] EXCEPT !.at = "looked", !.copy = taken])
        BY <1>4, <2>4 DEF GetConnection
      <3> HIDE DEF taken
      <3> QED
        BY <2>4, <3>1
    <2> QED
      BY <2>1, <2>2, <2>3, <2>4
  <1>5. GetConnection(c) => Still
    BY DEF GetConnection, workspaceVars, Still
  <1> QED
    BY <1>2, <1>3, <1>4, <1>5, RaiseEnds, ReplyEnds

LEMMA WritingSteps ==
    ASSUME RecordInv, NEW c \in Calls
    PROVE  /\ InsertConnection(c) \/ UpdateRow(c) =>
                  /\ Still
                  /\ \/ Ends(c, ServerError, {"too_long"})
                     \/ NameTaken(call[c]) /\ Ends(c, Handle(ApiError(400, "VALIDATION_ERROR")), {})
                     \/ /\ ~NameTaken(call[c]) /\ \A d \in Calls : ~WaitsForName(c, d)
                        /\ Advances(c, "written", {})
           /\ LockRow(c) =>
                  /\ Still
                  /\ \/ Ends(c, ServerError, {"too_long"})
                     \/ ~conn[call[c].conn].exists /\ Ends(c, ServerError, {})
                     \/ /\ conn[call[c].conn].exists /\ ~Locked(call[c].conn, c)
                        /\ Advances(c, "locked", {"held"}) /\ call'[c].held = {call[c].conn}
  <1>1. Raise(c, Unexpected) => Ends(c, ServerError, {})
    BY RaiseEnds, Handled
  <1>2. RaiseTooLong(c) => Ends(c, ServerError, {"too_long"})
    BY MeetsEnds, Handled DEF RaiseTooLong
  <1>3. WriteName(c) =>
            \/ NameTaken(call[c]) /\ Ends(c, Handle(ApiError(400, "VALIDATION_ERROR")), {})
            \/ /\ ~NameTaken(call[c]) /\ \A d \in Calls : ~WaitsForName(c, d)
               /\ Advances(c, "written", {})
    BY GotoAdvances, RaiseEnds DEF WriteName
  <1>4. InsertConnection(c) \/ UpdateRow(c) => Still /\ (RaiseTooLong(c) \/ WriteName(c))
    BY DEF InsertConnection, UpdateRow, workspaceVars, Still
  <1>5. ASSUME Move(c, [call[c] EXCEPT !.at = "locked", !.held = {call[c].conn}])
        PROVE  Advances(c, "locked", {"held"}) /\ call'[c].held = {call[c].conn}
    <2> DEFINE r == [call[c] EXCEPT !.at = "locked", !.held = {call[c].conn}]
    <2>1. /\ DOMAIN r = CallFields /\ r.at = "locked" /\ r.held = {call[c].conn}
          /\ \A f \in CallFields \ {"at", "held"} : r[f] = call[c][f]
      BY DEF RecordInv, CallFields
    <2> HIDE DEF r
    <2>2. Quiet(c) /\ call'[c] = r
      BY <1>5, <2>1, Moved DEF r
    <2> QED
      BY <2>1, <2>2 DEF Advances
  <1>6. LockRow(c) =>
            /\ Still
            /\ \/ RaiseTooLong(c)
               \/ ~conn[call[c].conn].exists /\ Raise(c, Unexpected)
               \/ /\ conn[call[c].conn].exists /\ ~Locked(call[c].conn, c)
                  /\ Move(c, [call[c] EXCEPT !.at = "locked", !.held = {call[c].conn}])
    BY DEF LockRow, workspaceVars, Still
  <1> QED
    BY <1>1, <1>2, <1>3, <1>4, <1>5, <1>6

LEMMA TestSteps ==
    ASSUME RecordInv, NEW c \in Calls
    PROVE  /\ Verify(c) =>
                  /\ Still
                  /\ Advances(c, "verified", {"said"})
                  /\ call'[c].said \in {"success", "failed"}
           /\ SaveVerdict(c) =>
                  \/ /\ conn[call[c].conn].exists
                     /\ workspace' = workspace /\ made' = made
                     /\ conn' = [conn EXCEPT ![call[c].conn].verdict = Verdict(c)]
                     /\ Advances(c, "saved", {})
                  \/ ~conn[call[c].conn].exists /\ Still /\ Ends(c, ServerError, {})
           /\ LogTest(c) => Still /\ Ends(c, Success(200), {})
           /\ LogTestFails(c) =>
                  /\ Still
                  /\ \/ /\ Advances(c, "verified", {"said", "met", "promise"})
                        /\ call'[c].said = "failed" /\ call'[c].met = call[c].met \cup {"fault"}
                     \/ Ends(c, ServerError, {"fault"})
  <1>1. ASSUME NEW said, Move(c, [call[c] EXCEPT !.at = "verified", !.said = said])
        PROVE  Advances(c, "verified", {"said"}) /\ call'[c].said = said
    <2> DEFINE r == [call[c] EXCEPT !.at = "verified", !.said = said]
    <2>1. /\ DOMAIN r = CallFields /\ r.at = "verified" /\ r.said = said
          /\ \A f \in CallFields \ {"at", "said"} : r[f] = call[c][f]
      BY DEF RecordInv, CallFields
    <2> HIDE DEF r
    <2>2. Quiet(c) /\ call'[c] = r
      BY <1>1, <2>1, Moved DEF r
    <2> QED
      BY <2>1, <2>2 DEF Advances
  <1>2. Verify(c) => /\ Still
                     /\ \E said \in {"success", "failed"} :
                            Move(c, [call[c] EXCEPT !.at = "verified", !.said = said])
    BY DEF Verify, workspaceVars, Still
  <1>3. Raise(c, Unexpected) => Ends(c, ServerError, {})
    BY RaiseEnds, Handled
  <1>4. SaveVerdict(c) =>
            \/ /\ conn[call[c].conn].exists
               /\ workspace' = workspace /\ made' = made
               /\ conn' = [conn EXCEPT ![call[c].conn].verdict = Verdict(c)]
               /\ Goto(c, "saved")
            \/ ~conn[call[c].conn].exists /\ Still /\ Raise(c, Unexpected)
    BY DEF SaveVerdict, workspaceVars, Still
  <1>5. LogTest(c) => Still /\ Reply(c, 200)
    BY DEF LogTest, workspaceVars, Still
  <1>6. LogTestFails(c) =>
            /\ Still
            /\ \/ Move(c, Meets([call[c] EXCEPT !.at = "verified", !.said = "failed"], "fault"))
               \/ Move(c, Answered(Meets(call[c], "fault"), Handle(Unexpected)))
    BY DEF LogTestFails, workspaceVars, Still
  <1>7. ASSUME Move(c, Meets([call[c] EXCEPT !.at = "verified", !.said = "failed"], "fault"))
        PROVE  /\ Advances(c, "verified", {"said", "met", "promise"})
               /\ call'[c].said = "failed" /\ call'[c].met = call[c].met \cup {"fault"}
    <2> DEFINE r == [call[c] EXCEPT !.at = "verified", !.said = "failed"]
               s == Meets(r, "fault")
    <2>1. /\ DOMAIN r = CallFields /\ r.at = "verified" /\ r.said = "failed"
          /\ \A f \in CallFields \ {"at", "said"} : r[f] = call[c][f]
      BY DEF RecordInv, CallFields
    <2>2. Move(c, s)
      BY <1>7
    <2> HIDE DEF r
    <2>3. /\ DOMAIN s = CallFields /\ s.met = r.met \cup {"fault"}
          /\ \A f \in CallFields \ {"met", "promise"} : s[f] = r[f]
      BY <2>1, MeetsFields
    <2> HIDE DEF s
    <2>4. s.at = "verified" /\ s.said = "failed" /\ s.met = call[c].met \cup {"fault"}
      BY <2>1, <2>3 DEF CallFields
    <2>5. Quiet(c) /\ call'[c] = s
      BY <2>2, <2>3, Moved
    <2> QED
      BY <2>1, <2>3, <2>4, <2>5 DEF Advances
  <1>8. Move(c, Answered(Meets(call[c], "fault"), Handle(Unexpected))) =>
            Ends(c, ServerError, {"fault"})
    BY MeetsEnds, Handled
  <1>9. LogTestFails(c) =>
            /\ Still
            /\ \/ /\ Advances(c, "verified", {"said", "met", "promise"})
                  /\ call'[c].said = "failed" /\ call'[c].met = call[c].met \cup {"fault"}
               \/ Ends(c, ServerError, {"fault"})
    BY <1>6, <1>7, <1>8
  <1> QED
    BY <1>1, <1>2, <1>3, <1>4, <1>5, <1>9, GotoAdvances, ReplyEnds

LEMMA SweepingSteps ==
    ASSUME RecordInv, NEW c \in Calls
    PROVE  /\ Collect(c) =>
                  Still /\ Advances(c, "collected", {"swept"}) /\ call'[c].swept = Rows
           /\ DeleteMemberships(c) => Still /\ Advances(c, "sweeping", {})
           /\ DeleteRow(c) =>
                  /\ Still
                  /\ Advances(c, "sweeping", {"held"})
                  /\ \E k \in (call[c].swept \ call[c].held) \cap Rows :
                         ~Locked(k, c) /\ call'[c].held = call[c].held \cup {k}
  <1>1. ASSUME Collect(c)
        PROVE  Advances(c, "collected", {"swept"}) /\ call'[c].swept = Rows
    <2> DEFINE r == [call[c] EXCEPT !.at = "collected", !.swept = Rows]
    <2>1. /\ DOMAIN r = CallFields /\ r.at = "collected" /\ r.swept = Rows
          /\ \A f \in CallFields \ {"at", "swept"} : r[f] = call[c][f]
      BY DEF RecordInv, CallFields
    <2>2. Move(c, r)
      BY <1>1 DEF Collect
    <2> HIDE DEF r
    <2>3. Quiet(c) /\ call'[c] = r
      BY <2>1, <2>2, Moved
    <2> QED
      BY <2>1, <2>3 DEF Advances
  <1>2. ASSUME NEW k, Move(c, [call[c] EXCEPT !.held = @ \cup {k}]), call[c].at = "sweeping"
        PROVE  Advances(c, "sweeping", {"held"}) /\ call'[c].held = call[c].held \cup {k}
    <2> DEFINE r == [call[c] EXCEPT !.held = @ \cup {k}]
    <2>1. /\ DOMAIN r = CallFields /\ r.held = call[c].held \cup {k}
          /\ \A f \in CallFields \ {"held"} : r[f] = call[c][f]
      BY DEF RecordInv, CallFields
    <2> HIDE DEF r
    <2>2. Quiet(c) /\ call'[c] = r /\ r.at = "sweeping"
      BY <1>2, <2>1, Moved DEF r, CallFields
    <2> QED
      BY <2>1, <2>2 DEF Advances
  <1>3. DeleteRow(c) => /\ Still
                        /\ \E k \in (call[c].swept \ call[c].held) \cap Rows :
                               /\ ~Locked(k, c) /\ call[c].at = "sweeping"
                               /\ Move(c, [call[c] EXCEPT !.held = @ \cup {k}])
    BY DEF DeleteRow, workspaceVars, Still
  <1>4. DeleteRow(c) =>
            /\ Still
            /\ Advances(c, "sweeping", {"held"})
            /\ \E k \in (call[c].swept \ call[c].held) \cap Rows :
                   ~Locked(k, c) /\ call'[c].held = call[c].held \cup {k}
    BY <1>2, <1>3
  <1>5. (Collect(c) => Still) /\ (DeleteMemberships(c) => Still /\ Goto(c, "sweeping"))
    BY DEF Collect, DeleteMemberships, workspaceVars, Still
  <1> QED
    BY <1>1, <1>4, <1>5, GotoAdvances

LEMMA FailingSteps ==
    ASSUME RecordInv, NEW c \in Calls
    PROVE  /\ LogFails(c) => Still /\ Ends(c, ServerError, {"fault"})
           /\ BreakDeadlock(c) => Still /\ Ends(c, ServerError, {"deadlock"})
           /\ Crash(c) \/ Respond(c) => Still /\ Quiet(c) /\ call'[c] = Ended
  <1>1. LogFails(c) => /\ Still
                       /\ Move(c, Answered(Meets(call[c], "fault"), Handle(Unexpected)))
    BY DEF LogFails, workspaceVars, Still
  <1>2. BreakDeadlock(c) => /\ Still
                            /\ Move(c, Answered(Meets(call[c], "deadlock"), Handle(Unexpected)))
    BY DEF BreakDeadlock, workspaceVars, Still
  <1>3. Crash(c) \/ Respond(c) => Still /\ Move(c, Ended)
    BY DEF Crash, Respond, workspaceVars, Still
  <1>4. ASSUME NEW event, Move(c, Answered(Meets(call[c], event), Handle(Unexpected)))
        PROVE  Ends(c, ServerError, {event})
    <2>1. Ends(c, Handle(Unexpected), {event})
      BY <1>4, MeetsEnds
    <2> QED
      BY <2>1, Handled
  <1>5. Move(c, Ended) => Quiet(c) /\ call'[c] = Ended
    BY Moved, NoCallFields
  <1> QED
    BY <1>1, <1>2, <1>3, <1>4, <1>5

LEMMA CommitSteps ==
    ASSUME RecordInv, NEW c \in Calls
    PROVE  /\ CommitWorkspace(c) /\ UNCHANGED conn =>
                  /\ workspace' = workspace /\ conn' = conn
                  /\ made' = [made EXCEPT ![c] = Slug(call[c])]
                  /\ Heard(c, "workspace") /\ Finished(c, Success(201), {})
           /\ CommitCreate(c) =>
                  \/ /\ workspace /\ workspace' = workspace /\ made' = made
                     /\ conn' = [conn EXCEPT ![call[c].conn] =
                                     Row(call[c].given.name, call[c].given.settings,
                                         call[c].given.active)]
                     /\ Heard(c, "connection") /\ Finished(c, Success(201), {})
                  \/ ~workspace /\ Still /\ Ends(c, ServerError, {})
           /\ CommitUpdate(c) =>
                  /\ workspace' = workspace /\ made' = made
                  /\ conn' = [conn EXCEPT ![call[c].conn] =
                                  Written(conn[call[c].conn], call[c].given)]
                  /\ Heard(c, "edit") /\ Finished(c, Success(200), {})
           /\ CommitDelete(c) =>
                  \/ /\ Rows \subseteq call[c].held
                     /\ workspace' = FALSE /\ made' = made
                     /\ conn' = [k \in Conns |-> NoRow]
                     /\ Heard(c, "delete")
                     /\ call'[c].at = "saved" /\ call'[c].held = {} /\ call'[c].swept = {}
                     /\ \A f \in CallFields \ {"at", "held", "swept"} : call'[c][f] = call[c][f]
                  \/ ~(Rows \subseteq call[c].held) /\ Still /\ Ends(c, ServerError, {})
  <1>1. ASSUME NEW status, NEW event, Commits(c, Answered(call[c], Success(status)), event)
        PROVE  Heard(c, event) /\ Finished(c, Success(status), {})
    BY <1>1, Committed, AnsweredFields DEF Finished
  <1>2. Raise(c, Unexpected) => Ends(c, ServerError, {})
    BY RaiseEnds, Handled
  <1>3. CommitWorkspace(c) /\ UNCHANGED conn =>
            /\ workspace' = workspace /\ conn' = conn
            /\ made' = [made EXCEPT ![c] = Slug(call[c])]
            /\ Commits(c, Answered(call[c], Success(201)), "workspace")
    BY DEF CommitWorkspace
  <1>4. CommitCreate(c) =>
            \/ /\ workspace /\ workspace' = workspace /\ made' = made
               /\ conn' = [conn EXCEPT ![call[c].conn] =
                               Row(call[c].given.name, call[c].given.settings,
                                   call[c].given.active)]
               /\ Commits(c, Answered(call[c], Success(201)), "connection")
            \/ ~workspace /\ Still /\ Raise(c, Unexpected)
    BY DEF CommitCreate, workspaceVars, Still
  <1>5. CommitUpdate(c) =>
            /\ workspace' = workspace /\ made' = made
            /\ conn' = [conn EXCEPT ![call[c].conn] = Written(conn[call[c].conn], call[c].given)]
            /\ Commits(c, Answered(call[c], Success(200)), "edit")
    BY DEF CommitUpdate, workspaceVars
  <1>6. CommitDelete(c) =>
            \/ /\ Rows \subseteq call[c].held
               /\ workspace' = FALSE /\ made' = made
               /\ conn' = [k \in Conns |-> NoRow]
               /\ Commits(c, [call[c] EXCEPT !.at = "saved", !.held = {}, !.swept = {}], "delete")
            \/ ~(Rows \subseteq call[c].held) /\ Still /\ Raise(c, Unexpected)
    BY DEF CommitDelete, Still
  <1>7. ASSUME Commits(c, [call[c] EXCEPT !.at = "saved", !.held = {}, !.swept = {}], "delete")
        PROVE  /\ Heard(c, "delete")
               /\ call'[c].at = "saved" /\ call'[c].held = {} /\ call'[c].swept = {}
               /\ \A f \in CallFields \ {"at", "held", "swept"} : call'[c][f] = call[c][f]
    <2> DEFINE r == [call[c] EXCEPT !.at = "saved", !.held = {}, !.swept = {}]
    <2>1. /\ DOMAIN r = CallFields /\ r.at = "saved" /\ r.held = {} /\ r.swept = {}
          /\ \A f \in CallFields \ {"at", "held", "swept"} : r[f] = call[c][f]
      BY DEF RecordInv, CallFields
    <2>2. Commits(c, r, "delete")
      BY <1>7
    <2> HIDE DEF r
    <2> QED
      BY <2>1, <2>2, Committed
  <1> QED
    BY <1>1, <1>2, <1>3, <1>4, <1>5, <1>6, <1>7

-----------------------------------------------------------------------------
(* What is asked.                                                           *)

OnRow == {"jira_connection_update", "jira_connection_deactivate", "jira_connection_test"}
OnConnection == OnRow \cup {"jira_connection_get", "jira_connection_create"}

OpenStages == {"naming", "named", "found", "looked", "related", "admitted", "locked", "written",
               "verified", "saved", "collected", "sweeping"}

\* The operation and the connection of a call.
About(c, r) ==
    /\ r.op \in WorkspaceOps \cup ConnectionOps
    /\ r.op = "jira_connection_create" => r.conn = c
    /\ r.op \in OnConnection => r.conn \in Conns

\* All that call c asks.
Asked(c, r) ==
    /\ About(c, r)
    /\ r.op \in Can[c]
    /\ r.role \in Roles
    /\ r.body \in BodiesOf(r.op)
    /\ r.given \in Given(r.op)

Fresh(c, r) ==
    /\ DOMAIN r = CallFields
    /\ r.at = "idle" /\ r.held = {} /\ r.swept = {} /\ r.met = {} /\ r.answer = NoAnswer
    /\ Asked(c, r)
    /\ r.promise = Promised(r)

\* Promised looks at what is asked alone.
LEMMA PromisedSame ==
    ASSUME NEW r, NEW s, \A f \in {"op", "role", "body", "given", "conn"} : s[f] = r[f]
    PROVE  NameTaken(s) = NameTaken(r) /\ Promised(s) = Promised(r)
  <1>1. s.op = r.op /\ s.role = r.role /\ s.body = r.body /\ s.given = r.given /\ s.conn = r.conn
    OBVIOUS
  <1>2. NameTaken(s) = NameTaken(r)
    BY <1>1 DEF NameTaken
  <1> QED
    BY <1>1, <1>2 DEF Promised, Refusable

LEMMA BeginSteps ==
    ASSUME RecordInv, NEW c \in Calls, Begin(c)
    PROVE  Still /\ \E r : Fresh(c, r) /\ Move(c, GetWorkspace(r))
  <1>1. PICK q \in Requests(c) : Move(c, GetWorkspace([q EXCEPT !.promise = Promised(q)]))
    BY DEF Begin
  <1>2. PICK op \in Can[c] : q \in Asking(c, op)
    BY <1>1 DEF Requests
  <1> DEFINE ask(role, body, g, k) ==
                 [NoCall EXCEPT !.op = op, !.role = role, !.body = body, !.given = g, !.conn = k]
  <1>14. Asking(c, op) = {ask(role, body, g, k) : role \in Who[c], body \in BodiesOf(op),
                                                g \in Given(op), k \in Targets(c, op)}
    BY DEF Asking
  <1>15. PICK role \in Who[c], body \in BodiesOf(op), g \in Given(op), k \in Targets(c, op) :
            q = ask(role, body, g, k)
    <2> HIDE DEF ask
    <2> QED
      BY <1>2, <1>14
  <1>3. /\ DOMAIN q = CallFields
        /\ q.at = "idle" /\ q.held = {} /\ q.swept = {} /\ q.met = {} /\ q.answer = NoAnswer
        /\ q.op = op /\ q.role = role /\ q.body = body /\ q.given = g /\ q.conn = k
    BY <1>15, NoCallFields DEF NoCall, CallFields
  <1>4. op \in WorkspaceOps \cup ConnectionOps /\ role \in Roles
    BY CallersAssumption
  <1>5. (op = "jira_connection_create" => k = c) /\ (op \in OnConnection => k \in Conns)
    BY <1>4 DEF Targets, OnConnection, OnRow, WorkspaceOps, ConnectionOps, Conns, Rows
  <1>6. Asked(c, q)
    BY <1>3, <1>4, <1>5 DEF Asked, About
  <1> DEFINE r == [q EXCEPT !.promise = Promised(q)]
  <1>7. /\ DOMAIN r = CallFields /\ r.promise = Promised(q)
        /\ \A f \in CallFields \ {"promise"} : r[f] = q[f]
    BY <1>3 DEF CallFields
  <1>8. Move(c, GetWorkspace(r))
    BY <1>1
  <1> HIDE DEF r
  <1>9. /\ r.at = "idle" /\ r.held = {} /\ r.swept = {} /\ r.met = {} /\ r.answer = NoAnswer
        /\ r.op = q.op /\ r.role = q.role /\ r.body = q.body /\ r.given = q.given
        /\ r.conn = q.conn
    BY <1>3, <1>7 DEF CallFields
  <1>10. Asked(c, r)
    BY <1>6, <1>9 DEF Asked, About
  <1>11. r.promise = Promised(r)
    BY <1>7, <1>9, PromisedSame
  <1>12. Fresh(c, r)
    BY <1>7, <1>9, <1>10, <1>11 DEF Fresh
  <1>13. Still
    BY DEF Begin, workspaceVars, Still
  <1> QED
    BY <1>8, <1>12, <1>13

\* Up to the end of get_workspace, the call is answered or goes on.
LEMMA FirstStage ==
    ASSUME RecordInv, NEW c \in Calls, NEW r, Fresh(c, r), Move(c, GetWorkspace(r))
    PROVE  /\ Quiet(c)
           /\ \/ /\ \/ /\ r.op \in ValidatesFirst \cup {"workspace_update"} /\ r.body = "invalid"
                       /\ call'[c] = Answered(r, Handle(ValidationError))
                    \/ /\ r.op = "workspace_list" \/ (r.op = "workspace_get" /\ Membership(r))
                       /\ call'[c] = Answered(r, Success(200))
                    \/ /\ ~Membership(r) /\ r.op \notin {"workspace_list", "workspace_create"}
                       /\ call'[c] = Answered(r, Handle(NotFound))
              \/ /\ \/ /\ r.op = "workspace_create" /\ r.body # "invalid"
                       /\ call'[c].at = "naming" /\ call'[c].tried = 1
                    \/ /\ Membership(r)
                       /\ r.op \notin {"workspace_list", "workspace_create", "workspace_get"}
                       /\ r.body = "invalid" => r.op \notin {"jira_connection_create",
                                                             "workspace_update"}
                       /\ call'[c].at = "found"
                 /\ \A f \in CallFields \ {"at", "tried"} : call'[c][f] = r[f]
  <1> DEFINE named == [r EXCEPT !.at = "naming", !.tried = 1]
             found == [r EXCEPT !.at = "found"]
  <1>1. /\ DOMAIN named = CallFields /\ named.at = "naming" /\ named.tried = 1
        /\ \A f \in CallFields \ {"at", "tried"} : named[f] = r[f]
    BY DEF Fresh, CallFields
  <1>2. /\ DOMAIN found = CallFields /\ found.at = "found"
        /\ \A f \in CallFields \ {"at", "tried"} : found[f] = r[f]
    BY DEF Fresh, CallFields
  <1>3. \A answer : DOMAIN Answered(r, answer) = CallFields
    BY AnsweredFields
  <1>4. \/ /\ r.op \in ValidatesFirst \cup {"workspace_update"} /\ r.body = "invalid"
           /\ GetWorkspace(r) = Answered(r, Handle(ValidationError))
        \/ /\ r.op = "workspace_list" \/ (r.op = "workspace_get" /\ Membership(r))
           /\ GetWorkspace(r) = Answered(r, Success(200))
        \/ /\ ~Membership(r) /\ r.op \notin {"workspace_list", "workspace_create"}
           /\ GetWorkspace(r) = Answered(r, Handle(NotFound))
        \/ /\ r.op = "workspace_create" /\ r.body # "invalid"
           /\ GetWorkspace(r) = named
        \/ /\ Membership(r)
           /\ r.op \notin {"workspace_list", "workspace_create", "workspace_get"}
           /\ r.body = "invalid" => r.op \notin {"jira_connection_create", "workspace_update"}
           /\ GetWorkspace(r) = found
    <2>1. CASE r.op \in ValidatesFirst /\ r.body = "invalid"
      <3>1. GetWorkspace(r) = Answered(r, Handle(ValidationError))
        BY <2>1 DEF GetWorkspace
      <3> QED
        BY <2>1, <3>1
    <2>2. CASE r.op = "workspace_create" /\ r.body # "invalid"
      <3>1. GetWorkspace(r) = named
        BY <2>2 DEF GetWorkspace, ValidatesFirst
      <3> HIDE DEF named, found
      <3> QED
        BY <2>2, <3>1
    <2>3. CASE r.op = "workspace_list"
      <3>1. GetWorkspace(r) = Answered(r, Success(200))
        BY <2>3 DEF GetWorkspace, ValidatesFirst
      <3> QED
        BY <2>3, <3>1
    <2> DEFINE inWorkspace == /\ r.op \notin {"workspace_list", "workspace_create"}
                              /\ ~(r.op = "jira_connection_create" /\ r.body = "invalid")
    <2>4. CASE inWorkspace /\ ~Membership(r)
      <3>1. GetWorkspace(r) = Answered(r, Handle(NotFound))
        BY <2>4 DEF GetWorkspace, ValidatesFirst
      <3> QED
        BY <2>4, <3>1
    <2>5. CASE inWorkspace /\ Membership(r) /\ r.op = "workspace_get"
      <3>1. GetWorkspace(r) = Answered(r, Success(200))
        BY <2>5 DEF GetWorkspace, ValidatesFirst
      <3> QED
        BY <2>5, <3>1
    <2>6. CASE /\ inWorkspace /\ Membership(r)
               /\ r.op = "workspace_update" /\ r.body = "invalid"
      <3>1. GetWorkspace(r) = Answered(r, Handle(ValidationError))
        BY <2>6 DEF GetWorkspace, ValidatesFirst
      <3> QED
        BY <2>6, <3>1
    <2>7. CASE /\ inWorkspace /\ Membership(r) /\ r.op # "workspace_get"
               /\ ~(r.op = "workspace_update" /\ r.body = "invalid")
      <3>1. GetWorkspace(r) = found
        BY <2>7 DEF GetWorkspace, ValidatesFirst
      <3> HIDE DEF named, found
      <3> QED
        BY <2>7, <3>1
    <2> HIDE DEF named, found
    <2> QED
      BY <2>1, <2>2, <2>3, <2>4, <2>5, <2>6, <2>7 DEF ValidatesFirst
  <1> HIDE DEF named, found
  <1>5. DOMAIN GetWorkspace(r) = CallFields
    BY <1>1, <1>2, <1>3, <1>4
  <1>6. Quiet(c) /\ call'[c] = GetWorkspace(r)
    BY <1>5, Moved
  <1> QED
    BY <1>1, <1>2, <1>4, <1>6

-----------------------------------------------------------------------------
(* The stages.                                                              *)

\* Which operations reach a stage.
Stage(r) ==
    /\ r.at \in {"naming", "named"} => r.op = "workspace_create"
    /\ r.at = "found" => r.op \notin {"workspace_list", "workspace_create", "workspace_get"}
    /\ r.at \in {"looked", "related"} => r.op \in OnRow
    /\ r.at = "admitted" => r.op \in NeedsAdmin \cup {"workspace_delete"}
    /\ r.at = "locked" => r.op \in {"jira_connection_update", "jira_connection_deactivate"}
    /\ r.at = "written" => r.op \in {"workspace_create", "jira_connection_create",
                                     "jira_connection_update", "jira_connection_deactivate"}
    /\ r.at = "verified" => r.op = "jira_connection_test"
    /\ r.at = "saved" =>
           r.op \in {"workspace_update", "workspace_delete", "jira_connection_test"}
    /\ r.at \in {"collected", "sweeping"} => r.op = "workspace_delete"
    /\ r.at \in {"verified", "saved"} /\ r.op = "jira_connection_test" =>
           r.said \in {"success", "failed"}

\* Who is let through to it, and with what body.
Admission(r) ==
    /\ r.op # "workspace_create" => r.role # "stranger"
    /\ r.body = "invalid" => r.op = "jira_connection_update" /\ r.at = "found"
    /\ r.at \in {"admitted", "locked", "written", "verified", "saved"} /\ r.op \in NeedsAdmin =>
           r.role \in {"owner", "admin"}
    /\ r.op = "workspace_delete" /\ r.at # "found" => r.role = "owner"

\* The locks it has.
HasRow(r) ==
    \/ r.at = "locked"
    \/ r.at = "written" /\ r.op \in {"jira_connection_update", "jira_connection_deactivate"}

Holds(r) ==
    /\ r.at = "sweeping" => r.held \subseteq r.swept
    /\ HasRow(r) => r.held = {r.conn}
    /\ r.at # "sweeping" /\ ~HasRow(r) => r.held = {}

InStage(r) ==
    /\ r.at \in OpenStages
    /\ r.answer = NoAnswer
    /\ r.swept \subseteq Conns
    /\ Stage(r)
    /\ Admission(r)
    /\ Holds(r)

StageOf(c, r) ==
    /\ r.at \in OpenStages \cup {"idle", "answered", "ended"}
    /\ r.at = "idle" => r = NoCall
    /\ r.at = "ended" => r = Ended
    /\ r.at = "answered" => About(c, r) /\ r.held = {} /\ r.swept = {}
    /\ r.at \in OpenStages => Asked(c, r) /\ InStage(r)

StageInv == \A c \in Calls : StageOf(c, call[c])

\* The other calls stay, but for what they meet.
Others(c) ==
    /\ DOMAIN call' = Calls /\ DOMAIN call'[c] = CallFields
    /\ \A d \in Calls \ {c} :
           \/ call'[d] = call[d]
           \/ /\ Open(d)
              /\ DOMAIN call'[d] = CallFields
              /\ \A f \in CallFields \ {"met", "promise"} : call'[d][f] = call[d][f]
              /\ \E event : call'[d].met = call[d].met \cup {event}

LEMMA OthersStay ==
    ASSUME RecordInv, NEW c \in Calls
    PROVE  /\ Quiet(c) => Others(c)
           /\ \A event : Heard(c, event) => Others(c)
  <1>1. Quiet(c) => Others(c)
    BY DEF Quiet, Others
  <1>2. ASSUME NEW event, Heard(c, event), NEW d \in Calls \ {c}, call'[d] # call[d]
        PROVE  /\ Open(d) /\ DOMAIN call'[d] = CallFields
               /\ \A f \in CallFields \ {"met", "promise"} : call'[d][f] = call[d][f]
               /\ call'[d].met = call[d].met \cup {event}
    <2>1. Open(d) /\ call'[d] = Meets(call[d], event)
      BY <1>2 DEF Heard
    <2> QED
      BY <2>1, MeetsFields DEF RecordInv
  <1>3. ASSUME NEW event, Heard(c, event)
        PROVE  Others(c)
    BY <1>2, <1>3 DEF Others, Heard
  <1> QED
    BY <1>1, <1>3

LEMMA RecordStays ==
    ASSUME RecordInv, NEW c \in Calls, Others(c), DOMAIN made' = Calls, DOMAIN conn' = Conns,
           \A k \in Conns : DOMAIN conn'[k] = RowFields
    PROVE  RecordInv'
  BY DEF RecordInv, Others

LEMMA StageOthers ==
    ASSUME RecordInv, StageInv, NEW c \in Calls, Others(c), StageOf(c, call'[c])
    PROVE  StageInv'
  <1> SUFFICES ASSUME NEW d \in Calls, d # c, call'[d] # call[d]
               PROVE  StageOf(d, call'[d])
    BY DEF StageInv
  <1> DEFINE r == call[d]
             s == call'[d]
  <1>1. Open(d) /\ \A f \in CallFields \ {"met", "promise"} : s[f] = r[f]
    BY DEF Others
  <1>2. StageOf(d, r) /\ r.at \in OpenStages
    BY <1>1 DEF StageInv, StageOf, Open
  <1>3. /\ s.at = r.at /\ s.op = r.op /\ s.role = r.role /\ s.body = r.body /\ s.given = r.given
        /\ s.conn = r.conn /\ s.swept = r.swept /\ s.held = r.held /\ s.said = r.said
        /\ s.answer = r.answer
    BY <1>1 DEF CallFields
  <1> HIDE DEF r, s
  <1>4. Asked(d, r) /\ InStage(r)
    BY <1>2 DEF StageOf
  <1>5. Asked(d, s)
    BY <1>3, <1>4 DEF Asked, About
  <1>6. InStage(s)
    BY <1>3, <1>4 DEF InStage, Stage, Admission, Holds, HasRow
  <1> QED
    BY <1>2, <1>3, <1>5, <1>6 DEF StageOf, OpenStages, s

LEMMA StageEnds ==
    ASSUME RecordInv, StageInv, NEW c \in Calls, Open(c), NEW answer, NEW M,
           Finished(c, answer, M), Others(c)
    PROVE  StageInv'
  <1>1. StageOf(c, call'[c])
    BY DEF Finished, StageInv, StageOf, Open, OpenStages, Asked, About
  <1> QED
    BY <1>1, StageOthers

LEMMA StageAdvances ==
    ASSUME RecordInv, StageInv, NEW c \in Calls, Open(c), NEW at, NEW F, Advances(c, at, F),
           F \subseteq {"tried", "copy", "said", "swept", "held", "met", "promise"},
           at \in OpenStages, Stage(call'[c]), Admission(call'[c]), Holds(call'[c]),
           call'[c].swept \subseteq Conns
    PROVE  StageInv'
  <1>1. Others(c)
    BY OthersStay DEF Advances
  <1>2. Asked(c, call[c]) /\ InStage(call[c])
    BY DEF StageInv, StageOf, Open
  <1>3. /\ call'[c].at = at /\ call'[c].op = call[c].op /\ call'[c].role = call[c].role
        /\ call'[c].body = call[c].body /\ call'[c].given = call[c].given
        /\ call'[c].conn = call[c].conn /\ call'[c].answer = call[c].answer
    BY DEF Advances, CallFields
  <1>4. Asked(c, call'[c])
    BY <1>2, <1>3 DEF Asked, About
  <1>5. InStage(call'[c])
    BY <1>2, <1>3 DEF InStage
  <1>6. StageOf(c, call'[c])
    BY <1>3, <1>4, <1>5 DEF StageOf, OpenStages
  <1> QED
    BY <1>1, <1>6, StageOthers

-----------------------------------------------------------------------------
(* The kinds of steps.                                                      *)

Begins(c) ==
    /\ Still
    /\ call[c].at = "idle"
    /\ \E r : Fresh(c, r) /\ Move(c, GetWorkspace(r))

Leaves(c) == Still /\ Quiet(c) /\ call'[c] = Ended

\* The call goes on.
Kept(c) ==
    LET r == call[c]
        s == call'[c]
    IN  /\ s.op = r.op /\ s.role = r.role /\ s.body = r.body /\ s.given = r.given
        /\ s.conn = r.conn /\ s.answer = r.answer
        /\ (s.met = r.met /\ s.promise = r.promise) \/ s.met = r.met \cup {"fault"}
        /\ r.met \subseteq s.met

Ways(c) ==
    LET r == call[c]
        s == call'[c]
    IN  /\ s.held = r.held \/ \E k \in Rows : ~Locked(k, c) /\ s.held = r.held \cup {k}
        /\ s.at = "written" /\ r.op # "workspace_create" =>
               \/ r.op = "jira_connection_deactivate"
               \/ ~NameTaken(r) /\ \A d \in Calls : ~WaitsForName(c, d)
        /\ s.at = "written" /\ r.op = "workspace_create" =>
               /\ s.tried = r.tried /\ Slug(r) \notin Slugs /\ ~SlugPending(c, Slug(r))
               /\ Slug(r) # TooLong /\ r.at = "named"
        /\ s.at = "naming" => r.at = "naming" /\ s.tried = r.tried + 1 /\ Slug(r) \in Slugs
        /\ s.at = "named" => r.at = "naming" /\ s.tried = r.tried /\ Slug(r) \notin Slugs
        /\ r.at = "found" /\ r.op \in OnRow => conn[r.conn].exists
        /\ s.at \in {"collected", "sweeping"} =>
               \/ s.swept = Rows
               \/ r.at \in {"collected", "sweeping"} /\ s.swept = r.swept
        /\ s.at = "saved" => r.op = "workspace_update"
        /\ r.at = "saved" => r.op # "workspace_delete"

Goes(c) ==
    /\ Still
    /\ Open(c)
    /\ Quiet(c)
    /\ Kept(c)
    /\ Ways(c)
    /\ InStage(call'[c])

Data == {"tried", "copy", "said", "swept", "held", "met", "promise"}

LEMMA Carried ==
    ASSUME NEW c \in Calls, NEW at, NEW F \in SUBSET Data, Advances(c, at, F)
    PROVE  LET r == call[c]
               s == call'[c]
           IN  /\ s.at = at /\ s.op = r.op /\ s.role = r.role /\ s.body = r.body
               /\ s.given = r.given /\ s.conn = r.conn /\ s.answer = r.answer
               /\ "tried" \notin F => s.tried = r.tried
               /\ "said" \notin F => s.said = r.said
               /\ "swept" \notin F => s.swept = r.swept
               /\ "held" \notin F => s.held = r.held
               /\ "met" \notin F => s.met = r.met
               /\ "promise" \notin F => s.promise = r.promise
  BY DEF Advances, Data, CallFields

LEMMA NamingGoes ==
    ASSUME RecordInv, StageInv, NEW c \in Calls, UNCHANGED conn
    PROVE  /\ TrySlug(c) => Goes(c)
           /\ InsertWorkspace(c) /\ call'[c].at # "answered" => Goes(c)
  <1> DEFINE r == call[c]
             s == call'[c]
  <1>1. ASSUME r.at \in {"naming", "named"}
        PROVE  Open(c) /\ InStage(r)
    BY <1>1 DEF StageInv, StageOf, Open, OpenStages
  <1>2. ASSUME TrySlug(c)
        PROVE  Goes(c)
    <2>1. r.at = "naming"
      BY <1>2 DEF TrySlug
    <2>2. CASE Slug(r) \in Slugs
      <3>1. Still /\ Advances(c, "naming", {"tried"}) /\ s.tried = r.tried + 1
        BY <1>2, <2>2, NamingSteps
      <3>2. Kept(c) /\ s.at = "naming" /\ s.held = r.held /\ s.swept = r.swept
        BY <3>1, Carried DEF Data, Kept
      <3>3. InStage(s)
        BY <1>1, <2>1, <3>2 DEF InStage, Stage, Admission, Holds, HasRow, Kept
      <3>4. Ways(c)
        BY <2>1, <2>2, <3>1, <3>2 DEF Ways
      <3> QED
        BY <1>1, <2>1, <3>1, <3>2, <3>3, <3>4 DEF Goes, Advances
    <2>3. CASE Slug(r) \notin Slugs
      <3>1. Still /\ Advances(c, "named", {})
        BY <1>2, <2>3, NamingSteps
      <3>2. Kept(c) /\ s.at = "named" /\ s.held = r.held /\ s.swept = r.swept
            /\ s.tried = r.tried
        BY <3>1, Carried DEF Data, Kept
      <3>3. InStage(s)
        BY <1>1, <2>1, <3>2 DEF InStage, Stage, Admission, Holds, HasRow, Kept, OpenStages
      <3>4. Ways(c)
        BY <2>1, <2>3, <3>1, <3>2 DEF Ways
      <3> QED
        BY <1>1, <2>1, <3>1, <3>2, <3>3, <3>4 DEF Goes, Advances
    <2> QED
      BY <2>2, <2>3
  <1>3. ASSUME InsertWorkspace(c), s.at # "answered"
        PROVE  Goes(c)
    <2>1. r.at = "named"
      BY <1>3 DEF InsertWorkspace
    <2>2. /\ Still /\ Advances(c, "written", {})
          /\ Slug(r) \notin Slugs /\ Slug(r) # TooLong /\ ~SlugPending(c, Slug(r))
      BY <1>3, NamingSteps DEF Ends, Finished
    <2>3. Kept(c) /\ s.at = "written" /\ s.held = r.held /\ s.swept = r.swept
          /\ s.tried = r.tried
      BY <2>2, Carried DEF Data, Kept
    <2>4. r.op = "workspace_create"
      BY <1>1, <2>1 DEF InStage, Stage
    <2>5. InStage(s)
      BY <1>1, <2>1, <2>3, <2>4
      DEF InStage, Stage, Admission, Holds, HasRow, Kept, OpenStages, NeedsAdmin, OnRow
    <2>6. Ways(c)
      BY <2>1, <2>2, <2>3, <2>4 DEF Ways
    <2> QED
      BY <1>1, <2>1, <2>2, <2>3, <2>5, <2>6 DEF Goes, Advances
  <1> QED
    BY <1>2, <1>3

LEMMA AdmittedGoes ==
    ASSUME RecordInv, StageInv, NEW c \in Calls
    PROVE  /\ AdmitUpdate(c) /\ UNCHANGED conn /\ call'[c].at # "answered" => Goes(c)
           /\ AdmitDelete(c) /\ UNCHANGED conn /\ call'[c].at # "answered" => Goes(c)
           /\ AdmitCreate(c) /\ call'[c].at # "answered" => Goes(c)
           /\ Admit(c) /\ call'[c].at # "answered" => Goes(c)
  <1> DEFINE r == call[c]
             s == call'[c]
  <1>1. ASSUME AdmitUpdate(c), UNCHANGED conn, s.at # "answered"
        PROVE  Goes(c)
    <2>1. r.at = "found" /\ r.op = "workspace_update"
      BY <1>1 DEF AdmitUpdate
    <2>2. Still /\ Advances(c, "admitted", {}) /\ HasAdminRole(r)
      BY <1>1, <2>1, AdmissionSteps DEF Ends, Finished
    <2>3. Open(c) /\ InStage(r)
      BY <2>1 DEF StageInv, StageOf, Open, OpenStages
    <2>4. Kept(c) /\ s.at = "admitted" /\ s.held = r.held /\ s.swept = r.swept /\ s.said = r.said
      BY <2>2, Carried DEF Data, Kept
    <2>5. InStage(s)
      BY <2>1, <2>2, <2>3, <2>4
      DEF InStage, Stage, Admission, Holds, HasRow, Kept, OpenStages, NeedsAdmin, OnRow, HasAdminRole
    <2>6. Ways(c)
      BY <2>1, <2>2, <2>3, <2>4 DEF Ways, OnRow, InStage, Stage, Holds, HasRow
    <2> QED
      BY <2>2, <2>3, <2>4, <2>5, <2>6 DEF Goes, Advances
  <1>2. ASSUME AdmitDelete(c), UNCHANGED conn, s.at # "answered"
        PROVE  Goes(c)
    <2>1. r.at = "found" /\ r.op = "workspace_delete"
      BY <1>2 DEF AdmitDelete
    <2>2. Still /\ Advances(c, "admitted", {}) /\ IsOwner(r)
      BY <1>2, <2>1, AdmissionSteps DEF Ends, Finished
    <2>3. Open(c) /\ InStage(r)
      BY <2>1 DEF StageInv, StageOf, Open, OpenStages
    <2>4. Kept(c) /\ s.at = "admitted" /\ s.held = r.held /\ s.swept = r.swept /\ s.said = r.said
      BY <2>2, Carried DEF Data, Kept
    <2>5. InStage(s)
      BY <2>1, <2>2, <2>3, <2>4
      DEF InStage, Stage, Admission, Holds, HasRow, Kept, OpenStages, NeedsAdmin, OnRow, IsOwner
    <2>6. Ways(c)
      BY <2>1, <2>2, <2>3, <2>4 DEF Ways, OnRow, InStage, Stage, Holds, HasRow
    <2> QED
      BY <2>2, <2>3, <2>4, <2>5, <2>6 DEF Goes, Advances
  <1>3. ASSUME AdmitCreate(c), s.at # "answered"
        PROVE  Goes(c)
    <2>1. r.at = "found" /\ r.op = "jira_connection_create"
      BY <1>3 DEF AdmitCreate
    <2>2. Still /\ Advances(c, "admitted", {}) /\ HasAdminRole(r)
      BY <1>3, <2>1, AdmissionSteps DEF Ends, Finished
    <2>3. Open(c) /\ InStage(r)
      BY <2>1 DEF StageInv, StageOf, Open, OpenStages
    <2>4. Kept(c) /\ s.at = "admitted" /\ s.held = r.held /\ s.swept = r.swept /\ s.said = r.said
      BY <2>2, Carried DEF Data, Kept
    <2>5. InStage(s)
      BY <2>1, <2>2, <2>3, <2>4
      DEF InStage, Stage, Admission, Holds, HasRow, Kept, OpenStages, NeedsAdmin, OnRow, HasAdminRole
    <2>6. Ways(c)
      BY <2>1, <2>2, <2>3, <2>4 DEF Ways, OnRow, InStage, Stage, Holds, HasRow
    <2> QED
      BY <2>2, <2>3, <2>4, <2>5, <2>6 DEF Goes, Advances
  <1>4. ASSUME Admit(c), s.at # "answered"
        PROVE  Goes(c)
    <2>1. r.at = "related"
      BY <1>4 DEF Admit
    <2>2. Still /\ Advances(c, "admitted", {}) /\ HasAdminRole(r)
      BY <1>4, <2>1, AdmissionSteps DEF Ends, Finished
    <2>3. Open(c) /\ InStage(r)
      BY <2>1 DEF StageInv, StageOf, Open, OpenStages
    <2>4. Kept(c) /\ s.at = "admitted" /\ s.held = r.held /\ s.swept = r.swept /\ s.said = r.said
      BY <2>2, Carried DEF Data, Kept
    <2>5. InStage(s)
      BY <2>1, <2>2, <2>3, <2>4
      DEF InStage, Stage, Admission, Holds, HasRow, Kept, OpenStages, NeedsAdmin, OnRow, HasAdminRole
    <2>6. Ways(c)
      BY <2>1, <2>2, <2>3, <2>4 DEF Ways, OnRow, InStage, Stage, Holds, HasRow
    <2> QED
      BY <2>2, <2>3, <2>4, <2>5, <2>6 DEF Goes, Advances
  <1> QED
    BY <1>1, <1>2, <1>3, <1>4

LEMMA LookedGoes ==
    ASSUME RecordInv, StageInv, NEW c \in Calls
    PROVE  /\ SaveName(c) /\ UNCHANGED conn /\ call'[c].at # "answered" => Goes(c)
           /\ GetConnection(c) /\ call'[c].at # "answered" => Goes(c)
           /\ LoadWorkspace(c) /\ call'[c].at # "answered" => Goes(c)
  <1> DEFINE r == call[c]
             s == call'[c]
  <1>1. ASSUME SaveName(c), UNCHANGED conn, s.at # "answered"
        PROVE  Goes(c)
    <2>1. r.at = "admitted" /\ r.op = "workspace_update"
      BY <1>1 DEF SaveName
    <2>2. Still /\ Advances(c, "saved", {})
      BY <1>1, <2>1, WorkspaceSaves DEF Ends, Finished
    <2>3. Open(c) /\ InStage(r)
      BY <2>1 DEF StageInv, StageOf, Open, OpenStages
    <2>4. Kept(c) /\ s.at = "saved" /\ s.held = r.held /\ s.swept = r.swept /\ s.said = r.said
      BY <2>2, Carried DEF Data, Kept
    <2>5. InStage(s)
      BY <2>1, <2>2, <2>3, <2>4
      DEF InStage, Stage, Admission, Holds, HasRow, Kept, OpenStages, NeedsAdmin, OnRow
    <2>6. Ways(c)
      BY <2>1, <2>2, <2>3, <2>4 DEF Ways, OnRow, InStage, Stage, Holds, HasRow
    <2> QED
      BY <2>2, <2>3, <2>4, <2>5, <2>6 DEF Goes, Advances
  <1>2. ASSUME GetConnection(c), s.at # "answered"
        PROVE  Goes(c)
    <2>1. r.at = "found" /\ r.op \in OnRow \cup {"jira_connection_get"}
      BY <1>2 DEF GetConnection, OnRow
    <2>2. /\ Still /\ Advances(c, "looked", {"copy"})
          /\ conn[r.conn].exists /\ r.body # "invalid" /\ r.op # "jira_connection_get"
      BY <1>2, <2>1, LookingSteps DEF Ends, Finished
    <2>3. Open(c) /\ InStage(r)
      BY <2>1 DEF StageInv, StageOf, Open, OpenStages
    <2>4. Kept(c) /\ s.at = "looked" /\ s.held = r.held /\ s.swept = r.swept /\ s.said = r.said
      BY <2>2, Carried DEF Data, Kept
    <2>5. InStage(s)
      BY <2>1, <2>2, <2>3, <2>4
      DEF InStage, Stage, Admission, Holds, HasRow, Kept, OpenStages, NeedsAdmin, OnRow
    <2>6. Ways(c)
      BY <2>1, <2>2, <2>3, <2>4 DEF Ways, OnRow, InStage, Stage, Holds, HasRow
    <2> QED
      BY <2>2, <2>3, <2>4, <2>5, <2>6 DEF Goes, Advances
  <1>3. ASSUME LoadWorkspace(c), s.at # "answered"
        PROVE  Goes(c)
    <2>1. r.at = "looked"
      BY <1>3 DEF LoadWorkspace
    <2>2. Still /\ Advances(c, "related", {})
      BY <1>3, <2>1, LookingSteps DEF Ends, Finished
    <2>3. Open(c) /\ InStage(r)
      BY <2>1 DEF StageInv, StageOf, Open, OpenStages
    <2>4. Kept(c) /\ s.at = "related" /\ s.held = r.held /\ s.swept = r.swept /\ s.said = r.said
      BY <2>2, Carried DEF Data, Kept
    <2>5. InStage(s)
      BY <2>1, <2>2, <2>3, <2>4
      DEF InStage, Stage, Admission, Holds, HasRow, Kept, OpenStages, NeedsAdmin, OnRow
    <2>6. Ways(c)
      BY <2>1, <2>2, <2>3, <2>4 DEF Ways, OnRow, InStage, Stage, Holds, HasRow
    <2> QED
      BY <2>2, <2>3, <2>4, <2>5, <2>6 DEF Goes, Advances
  <1> QED
    BY <1>1, <1>2, <1>3

LEMMA WritingGoes ==
    ASSUME RecordInv, StageInv, NEW c \in Calls
    PROVE  /\ InsertConnection(c) /\ call'[c].at # "answered" => Goes(c)
           /\ UpdateRow(c) /\ call'[c].at # "answered" => Goes(c)
           /\ LockRow(c) /\ call'[c].at # "answered" => Goes(c)
  <1> DEFINE r == call[c]
             s == call'[c]
  <1>1. ASSUME InsertConnection(c), s.at # "answered"
        PROVE  Goes(c)
    <2>1. r.at = "admitted" /\ r.op = "jira_connection_create"
      BY <1>1 DEF InsertConnection
    <2>2. /\ Still /\ Advances(c, "written", {})
          /\ ~NameTaken(r) /\ \A d \in Calls : ~WaitsForName(c, d)
      BY <1>1, <2>1, WritingSteps DEF Ends, Finished
    <2>3. Open(c) /\ InStage(r)
      BY <2>1 DEF StageInv, StageOf, Open, OpenStages
    <2>4. Kept(c) /\ s.at = "written" /\ s.held = r.held /\ s.swept = r.swept /\ s.said = r.said
      BY <2>2, Carried DEF Data, Kept
    <2>5. InStage(s)
      BY <2>1, <2>2, <2>3, <2>4
      DEF InStage, Stage, Admission, Holds, HasRow, Kept, OpenStages, NeedsAdmin, OnRow
    <2>6. Ways(c)
      BY <2>1, <2>2, <2>3, <2>4 DEF Ways, OnRow, InStage, Stage, Holds, HasRow
    <2> QED
      BY <2>2, <2>3, <2>4, <2>5, <2>6 DEF Goes, Advances
  <1>2. ASSUME UpdateRow(c), s.at # "answered"
        PROVE  Goes(c)
    <2>1. r.at = "locked"
      BY <1>2 DEF UpdateRow
    <2>2. /\ Still /\ Advances(c, "written", {})
          /\ ~NameTaken(r) /\ \A d \in Calls : ~WaitsForName(c, d)
      BY <1>2, <2>1, WritingSteps DEF Ends, Finished
    <2>3. Open(c) /\ InStage(r)
      BY <2>1 DEF StageInv, StageOf, Open, OpenStages
    <2>4. Kept(c) /\ s.at = "written" /\ s.held = r.held /\ s.swept = r.swept /\ s.said = r.said
      BY <2>2, Carried DEF Data, Kept
    <2>5. InStage(s)
      BY <2>1, <2>2, <2>3, <2>4
      DEF InStage, Stage, Admission, Holds, HasRow, Kept, OpenStages, NeedsAdmin, OnRow
    <2>6. Ways(c)
      BY <2>1, <2>2, <2>3, <2>4 DEF Ways, OnRow, InStage, Stage, Holds, HasRow
    <2> QED
      BY <2>2, <2>3, <2>4, <2>5, <2>6 DEF Goes, Advances
  <1>3. ASSUME LockRow(c), s.at # "answered"
        PROVE  Goes(c)
    <2>1. r.at = "admitted" /\ r.op \in {"jira_connection_update", "jira_connection_deactivate"}
      BY <1>3 DEF LockRow
    <2>2. /\ Still /\ Advances(c, "locked", {"held"}) /\ s.held = {r.conn}
          /\ conn[r.conn].exists /\ ~Locked(r.conn, c)
      BY <1>3, <2>1, WritingSteps DEF Ends, Finished
    <2>3. Open(c) /\ InStage(r)
      BY <2>1 DEF StageInv, StageOf, Open, OpenStages
    <2>4. Kept(c) /\ s.at = "locked" /\ s.swept = r.swept /\ s.said = r.said
      BY <2>2, Carried DEF Data, Kept
    <2>5. InStage(s)
      BY <2>1, <2>2, <2>3, <2>4
      DEF InStage, Stage, Admission, Holds, HasRow, Kept, OpenStages, NeedsAdmin, OnRow
    <2>6. r.conn \in Conns
      BY <2>1 DEF StageInv, StageOf, OpenStages, Asked, About, OnConnection, OnRow
    <2>7. r.held = {}
      BY <2>1, <2>3 DEF InStage, Holds, HasRow
    <2>8. r.conn \in Rows /\ s.held = r.held \cup {r.conn}
      BY <2>2, <2>6, <2>7 DEF Rows
    <2>9. Ways(c)
      BY <2>1, <2>2, <2>4, <2>8 DEF Ways
    <2> QED
      BY <2>2, <2>3, <2>4, <2>5, <2>9 DEF Goes, Advances
  <1> QED
    BY <1>1, <1>2, <1>3

LEMMA TestGoes ==
    ASSUME RecordInv, StageInv, NEW c \in Calls
    PROVE  /\ Verify(c) => Goes(c)
           /\ LogTestFails(c) /\ call'[c].at # "answered" => Goes(c)
  <1> DEFINE r == call[c]
             s == call'[c]
  <1>1. ASSUME Verify(c)
        PROVE  Goes(c)
    <2>1. r.at = "admitted" /\ r.op = "jira_connection_test"
      BY <1>1 DEF Verify
    <2>2. Still /\ Advances(c, "verified", {"said"}) /\ s.said \in {"success", "failed"}
      BY <1>1, <2>1, TestSteps DEF Ends, Finished
    <2>3. Open(c) /\ InStage(r)
      BY <2>1 DEF StageInv, StageOf, Open, OpenStages
    <2>4. Kept(c) /\ s.at = "verified" /\ s.held = r.held /\ s.swept = r.swept
      BY <2>2, Carried DEF Data, Kept
    <2>5. InStage(s)
      BY <2>1, <2>2, <2>3, <2>4
      DEF InStage, Stage, Admission, Holds, HasRow, Kept, OpenStages, NeedsAdmin, OnRow
    <2>6. Ways(c)
      BY <2>1, <2>2, <2>3, <2>4 DEF Ways, OnRow, InStage, Stage, Holds, HasRow
    <2> QED
      BY <2>2, <2>3, <2>4, <2>5, <2>6 DEF Goes, Advances
  <1>2. ASSUME LogTestFails(c), s.at # "answered"
        PROVE  Goes(c)
    <2>1. r.at = "saved" /\ r.op = "jira_connection_test"
      BY <1>2 DEF LogTestFails
    <2>2. /\ Still /\ Advances(c, "verified", {"said", "met", "promise"})
          /\ s.said = "failed" /\ s.met = r.met \cup {"fault"}
      BY <1>2, <2>1, TestSteps DEF Ends, Finished
    <2>3. Open(c) /\ InStage(r)
      BY <2>1 DEF StageInv, StageOf, Open, OpenStages
    <2>4. Kept(c) /\ s.at = "verified" /\ s.held = r.held /\ s.swept = r.swept
      BY <2>2, Carried DEF Data, Kept
    <2>5. InStage(s)
      BY <2>1, <2>2, <2>3, <2>4
      DEF InStage, Stage, Admission, Holds, HasRow, Kept, OpenStages, NeedsAdmin, OnRow
    <2>6. Ways(c)
      BY <2>1, <2>2, <2>3, <2>4 DEF Ways, OnRow, InStage, Stage, Holds, HasRow
    <2> QED
      BY <2>2, <2>3, <2>4, <2>5, <2>6 DEF Goes, Advances
  <1> QED
    BY <1>1, <1>2

LEMMA SweepingGoes ==
    ASSUME RecordInv, StageInv, NEW c \in Calls
    PROVE  /\ Collect(c) => Goes(c)
           /\ DeleteMemberships(c) => Goes(c)
           /\ DeleteRow(c) => Goes(c)
  <1> DEFINE r == call[c]
             s == call'[c]
  <1>1. ASSUME Collect(c)
        PROVE  Goes(c)
    <2>1. r.at = "admitted" /\ r.op = "workspace_delete"
      BY <1>1 DEF Collect
    <2>2. Still /\ Advances(c, "collected", {"swept"}) /\ s.swept = Rows
      BY <1>1, <2>1, SweepingSteps DEF Ends, Finished
    <2>3. Open(c) /\ InStage(r)
      BY <2>1 DEF StageInv, StageOf, Open, OpenStages
    <2>4. Kept(c) /\ s.at = "collected" /\ s.held = r.held
      BY <2>2, Carried DEF Data, Kept
    <2>5. InStage(s)
      BY <2>1, <2>2, <2>3, <2>4
      DEF InStage, Stage, Admission, Holds, HasRow, Kept, OpenStages, NeedsAdmin, OnRow, Rows
    <2>6. Ways(c)
      BY <2>1, <2>2, <2>3, <2>4 DEF Ways, OnRow, InStage, Stage, Holds, HasRow
    <2> QED
      BY <2>2, <2>3, <2>4, <2>5, <2>6 DEF Goes, Advances
  <1>2. ASSUME DeleteMemberships(c)
        PROVE  Goes(c)
    <2>1. r.at = "collected"
      BY <1>2 DEF DeleteMemberships
    <2>2. Still /\ Advances(c, "sweeping", {})
      BY <1>2, <2>1, SweepingSteps DEF Ends, Finished
    <2>3. Open(c) /\ InStage(r)
      BY <2>1 DEF StageInv, StageOf, Open, OpenStages
    <2>4. Kept(c) /\ s.at = "sweeping" /\ s.held = r.held /\ s.swept = r.swept /\ s.said = r.said
      BY <2>2, Carried DEF Data, Kept
    <2>5. InStage(s)
      BY <2>1, <2>2, <2>3, <2>4
      DEF InStage, Stage, Admission, Holds, HasRow, Kept, OpenStages, NeedsAdmin, OnRow
    <2>6. Ways(c)
      BY <2>1, <2>2, <2>3, <2>4 DEF Ways, OnRow, InStage, Stage, Holds, HasRow
    <2> QED
      BY <2>2, <2>3, <2>4, <2>5, <2>6 DEF Goes, Advances
  <1>3. ASSUME DeleteRow(c)
        PROVE  Goes(c)
    <2>1. r.at = "sweeping"
      BY <1>3 DEF DeleteRow
    <2>2. /\ Still /\ Advances(c, "sweeping", {"held"})
          /\ \E k \in (r.swept \ r.held) \cap Rows :
                 ~Locked(k, c) /\ s.held = r.held \cup {k}
      BY <1>3, <2>1, SweepingSteps DEF Ends, Finished
    <2>3. Open(c) /\ InStage(r)
      BY <2>1 DEF StageInv, StageOf, Open, OpenStages
    <2>4. Kept(c) /\ s.at = "sweeping" /\ s.swept = r.swept
      BY <2>2, Carried DEF Data, Kept
    <2>5. InStage(s)
      BY <2>1, <2>2, <2>3, <2>4
      DEF InStage, Stage, Admission, Holds, HasRow, Kept, OpenStages, NeedsAdmin, OnRow
    <2>6. Ways(c)
      BY <2>1, <2>2, <2>3, <2>4 DEF Ways, OnRow, InStage, Stage, Holds, HasRow
    <2> QED
      BY <2>2, <2>3, <2>4, <2>5, <2>6 DEF Goes, Advances
  <1> QED
    BY <1>1, <1>2, <1>3

\* The call is answered, and nothing else happens.
Succeeds(c, answer) ==
    LET r == call[c] IN
    /\ answer = Success(SuccessStatus(r.op))
    /\ \/ r.at = "found" /\ r.op = "workspace_members_list"
       \/ r.at = "found" /\ r.op = "jira_connection_list"
       \/ r.at = "found" /\ r.op = "jira_connection_get" /\ conn[r.conn].exists
       \/ r.at = "saved"

Refused(c, answer) ==
    LET r == call[c] IN
    \/ answer = Handle(NotFound) /\ r.op = "jira_connection_list" /\ ~workspace
    \/ /\ answer = Handle(NotFound) /\ r.op \in OnRow \cup {"jira_connection_get"}
       /\ ~conn[r.conn].exists
    \/ answer = Handle(Forbidden) /\ r.op \in NeedsAdmin /\ (~workspace \/ r.role = "viewer")
    \/ /\ answer = Handle(Forbidden) /\ r.op = "workspace_delete"
       /\ r.role \in {"viewer", "admin"}
    \/ /\ answer = Handle(ApiError(400, "VALIDATION_ERROR"))
       /\ r.op \in {"jira_connection_create", "jira_connection_update"} /\ NameTaken(r)
    \/ /\ answer = Handle(ValidationError)
       /\ r.op = "jira_connection_update" /\ r.body = "invalid"

Surprised(c, answer) ==
    LET r == call[c] IN
    /\ answer = ServerError
    /\ \/ r.at = "named" /\ Slug(r) \in Slugs
       \/ r.op \in NeedsAdmin /\ ~workspace
       \/ r.op \in OnRow /\ r.at # "found" /\ ~conn[r.conn].exists
       \/ r.at = "sweeping" /\ r.swept \cap Rows \subseteq r.held /\ ~(Rows \subseteq r.held)

Reason(c, answer, M) ==
    \/ answer = ServerError /\ M \in {{"too_long"}, {"fault"}}
    \/ /\ answer = ServerError /\ M = {"deadlock"}
       /\ call[c].op \in {"workspace_delete", "jira_connection_update"}
    \/ M = {} /\ (Succeeds(c, answer) \/ Refused(c, answer) \/ Surprised(c, answer))

Closes(c) ==
    /\ Still
    /\ Open(c)
    /\ \E answer, M : Ends(c, answer, M) /\ Reason(c, answer, M)

LEMMA SucceedingCloses ==
    ASSUME RecordInv, StageInv, NEW c \in Calls
    PROVE  /\ ListMembers(c) /\ UNCHANGED conn => Closes(c)
           /\ ListConnections(c) => Closes(c)
           /\ LogWorkspaceAction(c) /\ UNCHANGED conn => Closes(c)
           /\ LogTest(c) => Closes(c)
  <1>1. ASSUME Open(c), Still, NEW status, Ends(c, Success(status), {}),
               status = SuccessStatus(call[c].op), call[c].at \in {"found", "saved"},
               call[c].at = "found" => call[c].op \in {"workspace_members_list",
                                                     "jira_connection_list"}
        PROVE  Closes(c)
    <2>1. Succeeds(c, Success(status))
      BY <1>1 DEF Succeeds
    <2> QED
      BY <1>1, <2>1 DEF Closes, Reason
  <1>2. ASSUME ListMembers(c), UNCHANGED conn
        PROVE  Closes(c)
    <2>1. Open(c) /\ call[c].at = "found" /\ call[c].op = "workspace_members_list"
      BY <1>2 DEF ListMembers, Open
    <2> QED
      BY <1>1, <1>2, <2>1, ListSteps DEF SuccessStatus
  <1>3. ASSUME ListConnections(c)
        PROVE  Closes(c)
    <2>1. Open(c) /\ call[c].at = "found" /\ call[c].op = "jira_connection_list"
      BY <1>3 DEF ListConnections, Open
    <2>2. CASE Membership(call[c])
      BY <1>1, <1>3, <2>1, <2>2, ListSteps DEF SuccessStatus
    <2>3. CASE ~Membership(call[c])
      <3>1. InStage(call[c])
        BY <2>1 DEF StageInv, StageOf, OpenStages
      <3>2. Refused(c, Handle(NotFound))
        BY <2>1, <2>3, <3>1 DEF Refused, Membership, InStage, Admission
      <3> QED
        BY <1>3, <2>1, <2>3, <3>2, ListSteps DEF Closes, Reason
    <2> QED
      BY <2>2, <2>3
  <1>4. ASSUME LogWorkspaceAction(c), UNCHANGED conn
        PROVE  Closes(c)
    <2>1. Open(c) /\ call[c].at = "saved"
      BY <1>4 DEF LogWorkspaceAction, Open
    <2> QED
      BY <1>1, <1>4, <2>1, WorkspaceSaves
  <1>5. ASSUME LogTest(c)
        PROVE  Closes(c)
    <2>1. Open(c) /\ call[c].at = "saved" /\ call[c].op = "jira_connection_test"
      BY <1>5 DEF LogTest, Open
    <2> QED
      BY <1>1, <1>5, <2>1, TestSteps DEF SuccessStatus
  <1> QED
    BY <1>2, <1>3, <1>4, <1>5

LEMMA RefusingCloses ==
    ASSUME RecordInv, StageInv, NEW c \in Calls, call'[c].at = "answered"
    PROVE  /\ AdmitUpdate(c) /\ UNCHANGED conn => Closes(c)
           /\ AdmitDelete(c) /\ UNCHANGED conn => Closes(c)
           /\ AdmitCreate(c) \/ Admit(c) => Closes(c)
           /\ GetConnection(c) => Closes(c)
  <1> DEFINE r == call[c]
  <1>1. ASSUME NEW answer, Still, Open(c), Ends(c, answer, {}), Refused(c, answer)
        PROVE  Closes(c)
    BY <1>1 DEF Closes, Reason
  <1>2. ASSUME Open(c)
        PROVE  InStage(r) /\ r.role \in Roles
    BY <1>2 DEF StageInv, StageOf, Open, Asked
  <1>3. ASSUME r.op \in NeedsAdmin, ~HasAdminRole(r), Open(c)
        PROVE  Refused(c, Handle(Forbidden))
    <2>1. r.op # "workspace_create"
      BY <1>3 DEF NeedsAdmin, OnRow
    <2>2. ~workspace \/ r.role = "viewer"
      BY <1>2, <1>3, <2>1 DEF HasAdminRole, Membership, InStage, Admission, Roles
    <2> QED
      BY <1>3, <2>2 DEF Refused
  <1>4. ASSUME AdmitUpdate(c), UNCHANGED conn
        PROVE  Closes(c)
    <2>1. Open(c) /\ r.op \in NeedsAdmin
      BY <1>4 DEF AdmitUpdate, Open, NeedsAdmin
    <2>2. Still /\ ~HasAdminRole(r) /\ Ends(c, Handle(Forbidden), {})
      BY <1>4, AdmissionSteps DEF Advances
    <2> QED
      BY <1>1, <1>3, <2>1, <2>2
  <1>5. ASSUME AdmitDelete(c), UNCHANGED conn
        PROVE  Closes(c)
    <2>1. Open(c) /\ r.op = "workspace_delete"
      BY <1>5 DEF AdmitDelete, Open
    <2>2. Still /\ ~IsOwner(r) /\ Ends(c, Handle(Forbidden), {})
      BY <1>5, AdmissionSteps DEF Advances
    <2>3. Refused(c, Handle(Forbidden))
      BY <1>2, <2>1, <2>2 DEF Refused, IsOwner, InStage, Admission, Roles
    <2> QED
      BY <1>1, <2>1, <2>2, <2>3
  <1>6. ASSUME AdmitCreate(c) \/ Admit(c)
        PROVE  Closes(c)
    <2>1. Open(c) /\ (r.at = "related" \/ r.op = "jira_connection_create")
      BY <1>6 DEF AdmitCreate, Admit, Open
    <2>2. r.op \in NeedsAdmin
      BY <1>2, <2>1 DEF InStage, Stage, NeedsAdmin, OnRow
    <2>3. Still /\ ~HasAdminRole(r) /\ Ends(c, Handle(Forbidden), {})
      BY <1>6, AdmissionSteps DEF Advances
    <2> QED
      BY <1>1, <1>3, <2>1, <2>2, <2>3
  <1>7. ASSUME GetConnection(c)
        PROVE  Closes(c)
    <2>1. Open(c) /\ r.at = "found" /\ r.op \in OnRow \cup {"jira_connection_get"}
      BY <1>7 DEF GetConnection, Open, OnRow
    <2>2. /\ Still
          /\ \/ ~conn[r.conn].exists /\ Ends(c, Handle(NotFound), {})
             \/ /\ r.op = "jira_connection_get" /\ conn[r.conn].exists
                /\ Ends(c, Success(200), {})
             \/ r.body = "invalid" /\ Ends(c, Handle(ValidationError), {})
      BY <1>7, LookingSteps DEF Advances
    <2>3. CASE ~conn[r.conn].exists /\ Ends(c, Handle(NotFound), {})
      <3>1. Refused(c, Handle(NotFound))
        BY <2>1, <2>3 DEF Refused
      <3> QED
        BY <1>1, <2>1, <2>2, <2>3, <3>1
    <2>4. CASE /\ r.op = "jira_connection_get" /\ conn[r.conn].exists
               /\ Ends(c, Success(200), {})
      <3>1. Succeeds(c, Success(200))
        BY <2>1, <2>4 DEF Succeeds, SuccessStatus
      <3> QED
        BY <2>1, <2>2, <2>4, <3>1 DEF Closes, Reason
    <2>5. CASE r.body = "invalid" /\ Ends(c, Handle(ValidationError), {})
      <3>1. Refused(c, Handle(ValidationError))
        BY <1>2, <2>1, <2>5 DEF Refused, InStage, Admission
      <3> QED
        BY <1>1, <2>1, <2>2, <2>5, <3>1
    <2> QED
      BY <2>2, <2>3, <2>4, <2>5
  <1> QED
    BY <1>4, <1>5, <1>6, <1>7

LEMMA SurprisedCloses ==
    ASSUME RecordInv, StageInv, NEW c \in Calls, call'[c].at = "answered"
    PROVE  /\ InsertWorkspace(c) /\ UNCHANGED conn => Closes(c)
           /\ SaveName(c) /\ UNCHANGED conn => Closes(c)
           /\ LoadWorkspace(c) => Closes(c)
           /\ InsertConnection(c) \/ UpdateRow(c) \/ LockRow(c) => Closes(c)
           /\ SaveVerdict(c) => Closes(c)
  <1> DEFINE r == call[c]
  <1>1. ASSUME Still, Open(c), Ends(c, ServerError, {}), Surprised(c, ServerError)
        PROVE  Closes(c)
    BY <1>1 DEF Closes, Reason
  <1>2. ASSUME Still, Open(c), Ends(c, ServerError, {"too_long"})
        PROVE  Closes(c)
    BY <1>2 DEF Closes, Reason
  <1>3. ASSUME Open(c)
        PROVE  InStage(r)
    BY <1>3 DEF StageInv, StageOf, Open
  <1>4. ASSUME InsertWorkspace(c), UNCHANGED conn
        PROVE  Closes(c)
    <2>1. Open(c) /\ r.at = "named"
      BY <1>4 DEF InsertWorkspace, Open
    <2>2. /\ Still
          /\ \/ Ends(c, ServerError, {"too_long"})
             \/ Slug(r) \in Slugs /\ Ends(c, ServerError, {})
      BY <1>4, NamingSteps DEF Advances
    <2>3. Slug(r) \in Slugs => Surprised(c, ServerError)
      BY <2>1 DEF Surprised
    <2> QED
      BY <1>1, <1>2, <2>1, <2>2, <2>3
  <1>5. ASSUME SaveName(c), UNCHANGED conn
        PROVE  Closes(c)
    <2>1. Open(c) /\ r.op \in NeedsAdmin
      BY <1>5 DEF SaveName, Open, NeedsAdmin
    <2>2. Still /\ ~workspace /\ Ends(c, ServerError, {})
      BY <1>5, WorkspaceSaves DEF Advances
    <2>3. Surprised(c, ServerError)
      BY <2>1, <2>2 DEF Surprised
    <2> QED
      BY <1>1, <2>1, <2>2, <2>3
  <1>6. ASSUME LoadWorkspace(c)
        PROVE  Closes(c)
    <2>1. Open(c) /\ r.at = "looked"
      BY <1>6 DEF LoadWorkspace, Open
    <2>2. Still /\ ~workspace /\ Ends(c, ServerError, {})
      BY <1>6, LookingSteps DEF Advances
    <2>3. r.op \in NeedsAdmin
      BY <1>3, <2>1 DEF InStage, Stage, NeedsAdmin, OnRow
    <2>4. Surprised(c, ServerError)
      BY <2>2, <2>3 DEF Surprised
    <2> QED
      BY <1>1, <2>1, <2>2, <2>4
  <1>7. ASSUME InsertConnection(c) \/ UpdateRow(c)
        PROVE  Closes(c)
    <2>1. Open(c) /\ (r.at = "locked" \/ r.op = "jira_connection_create")
      BY <1>7 DEF InsertConnection, UpdateRow, Open
    <2>2. r.op \in {"jira_connection_create", "jira_connection_update",
                    "jira_connection_deactivate"}
      BY <1>3, <2>1 DEF InStage, Stage
    <2>3. /\ Still
          /\ \/ Ends(c, ServerError, {"too_long"})
             \/ NameTaken(r) /\ Ends(c, Handle(ApiError(400, "VALIDATION_ERROR")), {})
      BY <1>7, WritingSteps DEF Advances
    <2>4. r.op = "jira_connection_deactivate" => ~NameTaken(r)
      <3>1. r.op = "jira_connection_deactivate" => r.given \in {[active |-> FALSE]}
        BY <2>1 DEF StageInv, StageOf, Open, Asked, Given
      <3> QED
        BY <3>1 DEF NameTaken
    <2>5. CASE NameTaken(r) /\ Ends(c, Handle(ApiError(400, "VALIDATION_ERROR")), {})
      <3>1. Refused(c, Handle(ApiError(400, "VALIDATION_ERROR")))
        BY <2>2, <2>4, <2>5 DEF Refused
      <3> QED
        BY <2>1, <2>3, <2>5, <3>1 DEF Closes, Reason
    <2> QED
      BY <1>2, <2>1, <2>3, <2>5
  <1>8. ASSUME LockRow(c)
        PROVE  Closes(c)
    <2>1. Open(c) /\ r.at = "admitted" /\ r.op \in OnRow
      BY <1>8 DEF LockRow, Open, OnRow
    <2>2. /\ Still
          /\ \/ Ends(c, ServerError, {"too_long"})
             \/ ~conn[r.conn].exists /\ Ends(c, ServerError, {})
      BY <1>8, WritingSteps DEF Advances
    <2>3. ~conn[r.conn].exists => Surprised(c, ServerError)
      BY <2>1 DEF Surprised
    <2> QED
      BY <1>1, <1>2, <2>1, <2>2, <2>3
  <1>9. ASSUME SaveVerdict(c)
        PROVE  Closes(c)
    <2>1. Open(c) /\ r.at = "verified"
      BY <1>9 DEF SaveVerdict, Open
    <2>2. ~conn[r.conn].exists /\ Still /\ Ends(c, ServerError, {})
      BY <1>9, TestSteps DEF Advances
    <2>3. r.op \in OnRow
      BY <1>3, <2>1 DEF InStage, Stage, OnRow
    <2>4. Surprised(c, ServerError)
      BY <2>1, <2>2, <2>3 DEF Surprised
    <2> QED
      BY <1>1, <2>1, <2>2, <2>4
  <1> QED
    BY <1>4, <1>5, <1>6, <1>7, <1>8, <1>9

LEMMA FailingCloses ==
    ASSUME RecordInv, StageInv, NEW c \in Calls
    PROVE  /\ LogFails(c) => Closes(c)
           /\ LogTestFails(c) /\ call'[c].at = "answered" => Closes(c)
           /\ BreakDeadlock(c) => Closes(c)
  <1> DEFINE r == call[c]
  <1>1. ASSUME LogFails(c)
        PROVE  Closes(c)
    <2>1. Open(c)
      BY <1>1 DEF LogFails, Open
    <2> QED
      BY <1>1, <2>1, FailingSteps DEF Closes, Reason
  <1>2. ASSUME LogTestFails(c), call'[c].at = "answered"
        PROVE  Closes(c)
    <2>1. Open(c)
      BY <1>2 DEF LogTestFails, Open
    <2>2. Still /\ Ends(c, ServerError, {"fault"})
      BY <1>2, TestSteps DEF Advances
    <2> QED
      BY <2>1, <2>2 DEF Closes, Reason
  <1>3. ASSUME BreakDeadlock(c)
        PROVE  Closes(c)
    <2>1. PICK d \in Calls : Waits(c, d)
      BY <1>3 DEF BreakDeadlock, Deadlocked
    <2>2. Open(c) /\ r.at \in {"locked", "sweeping"}
      BY <2>1 DEF Waits, Open
    <2>3. InStage(r) /\ Asked(c, r)
      BY <2>2 DEF StageInv, StageOf, OpenStages
    <2>4. r.op \in {"workspace_delete", "jira_connection_update"}
      <3>1. CASE r.at = "sweeping"
        BY <2>3, <3>1 DEF InStage, Stage
      <3>2. CASE r.at = "locked"
        <4>1. "name" \in DOMAIN r.given
          BY <2>1, <3>2 DEF Waits, WaitsForName
        <4>2. r.op = "jira_connection_deactivate" => r.given \in {[active |-> FALSE]}
          BY <2>3 DEF Asked, Given
        <4>3. r.op # "jira_connection_deactivate"
          BY <4>1, <4>2
        <4> QED
          BY <2>3, <3>2, <4>3 DEF InStage, Stage
      <3> QED
        BY <2>2, <3>1, <3>2
    <2>5. Still /\ Ends(c, ServerError, {"deadlock"})
      BY <1>3, FailingSteps
    <2> QED
      BY <2>2, <2>4, <2>5 DEF Closes, Reason
  <1> QED
    BY <1>1, <1>2, <1>3

\* The commits, and the verdict of a test.
Makes(c) ==
    /\ workspace' = workspace /\ conn' = conn
    /\ call[c].op = "workspace_create" /\ call[c].at = "written"
    /\ made' = [made EXCEPT ![c] = Slug(call[c])]
    /\ Heard(c, "workspace")
    /\ Finished(c, Success(201), {})

Adds(c) ==
    LET r == call[c] IN
    /\ workspace /\ workspace' = workspace /\ made' = made
    /\ r.op = "jira_connection_create" /\ r.at = "written" /\ r.conn = c
    /\ conn' = [conn EXCEPT ![c] = Row(r.given.name, r.given.settings, r.given.active)]
    /\ Heard(c, "connection")
    /\ Finished(c, Success(201), {})

Edits(c) ==
    LET r == call[c] IN
    /\ workspace' = workspace /\ made' = made
    /\ r.op \in {"jira_connection_update", "jira_connection_deactivate"} /\ r.at = "written"
    /\ r.conn \in Conns
    /\ conn' = [conn EXCEPT ![r.conn] = Written(conn[r.conn], r.given)]
    /\ Heard(c, "edit")
    /\ Finished(c, Success(200), {})

Deletes(c) ==
    LET r == call[c]
        s == call'[c]
    IN  /\ Rows \subseteq r.held
        /\ workspace' = FALSE /\ made' = made
        /\ conn' = [k \in Conns |-> NoRow]
        /\ r.op = "workspace_delete" /\ r.at = "sweeping"
        /\ Heard(c, "delete")
        /\ s.at = "saved" /\ s.held = {} /\ s.met = r.met /\ s.promise = r.promise
        /\ Kept(c) /\ InStage(s)

Saves(c) ==
    LET r == call[c]
        s == call'[c]
    IN  /\ conn[r.conn].exists /\ r.conn \in Conns
        /\ workspace' = workspace /\ made' = made
        /\ conn' = [conn EXCEPT ![r.conn].verdict = Verdict(c)]
        /\ r.op = "jira_connection_test" /\ r.at = "verified"
        /\ Quiet(c)
        /\ s.at = "saved" /\ s.held = r.held /\ s.said = r.said /\ s.met = r.met
        /\ Kept(c) /\ InStage(s)

LEMMA CommitKinds ==
    ASSUME RecordInv, StageInv, NEW c \in Calls
    PROVE  /\ CommitWorkspace(c) /\ UNCHANGED conn => Makes(c)
           /\ CommitCreate(c) => Adds(c) \/ Closes(c)
           /\ CommitUpdate(c) => Edits(c)
           /\ CommitDelete(c) => Deletes(c) \/ Closes(c)
           /\ SaveVerdict(c) => Saves(c) \/ Closes(c)
  <1> DEFINE r == call[c]
             s == call'[c]
  <1>1. ASSUME r.at \in OpenStages
        PROVE  Open(c) /\ InStage(r) /\ Asked(c, r)
    BY <1>1 DEF StageInv, StageOf, Open, OpenStages
  <1>2. ASSUME Still, Open(c), Ends(c, ServerError, {}), Surprised(c, ServerError)
        PROVE  Closes(c)
    BY <1>2 DEF Closes, Reason
  <1>3. CommitWorkspace(c) /\ UNCHANGED conn => Makes(c)
    BY CommitSteps DEF Makes, CommitWorkspace
  <1>4. ASSUME CommitCreate(c)
        PROVE  Adds(c) \/ Closes(c)
    <2>1. r.at = "written" /\ r.op = "jira_connection_create"
      BY <1>4 DEF CommitCreate
    <2>2. Open(c) /\ r.conn = c
      BY <1>1, <2>1 DEF OpenStages, Asked, About
    <2>3. CASE workspace
      BY <1>4, <2>1, <2>2, <2>3, CommitSteps DEF Adds
    <2>4. CASE ~workspace
      <3>1. Surprised(c, ServerError)
        BY <2>1, <2>4 DEF Surprised, NeedsAdmin
      <3> QED
        BY <1>2, <1>4, <2>2, <2>4, <3>1, CommitSteps
    <2> QED
      BY <2>3, <2>4
  <1>5. ASSUME CommitUpdate(c)
        PROVE  Edits(c)
    <2>1. /\ r.at = "written"
          /\ r.op \in {"jira_connection_update", "jira_connection_deactivate"}
      BY <1>5 DEF CommitUpdate
    <2>2. r.conn \in Conns
      BY <1>1, <2>1 DEF OpenStages, Asked, About, OnConnection, OnRow
    <2> QED
      BY <1>5, <2>1, <2>2, CommitSteps DEF Edits
  <1>6. ASSUME CommitDelete(c)
        PROVE  Deletes(c) \/ Closes(c)
    <2>1. r.at = "sweeping" /\ r.swept \cap Rows \subseteq r.held
      BY <1>6 DEF CommitDelete
    <2>2. Open(c) /\ InStage(r)
      BY <1>1, <2>1 DEF OpenStages
    <2>3. r.op = "workspace_delete"
      BY <2>1, <2>2 DEF InStage, Stage
    <2>4. CASE Rows \subseteq r.held
      <3>1. /\ workspace' = FALSE /\ made' = made /\ conn' = [k \in Conns |-> NoRow]
            /\ Heard(c, "delete")
            /\ s.at = "saved" /\ s.held = {} /\ s.swept = {}
            /\ \A f \in CallFields \ {"at", "held", "swept"} : s[f] = r[f]
        BY <1>6, <2>4, CommitSteps
      <3>2. /\ s.op = r.op /\ s.role = r.role /\ s.body = r.body /\ s.given = r.given
            /\ s.conn = r.conn /\ s.answer = r.answer /\ s.met = r.met
            /\ s.promise = r.promise /\ s.said = r.said
        BY <3>1 DEF CallFields
      <3>3. InStage(s)
        BY <2>1, <2>2, <2>3, <3>1, <3>2
        DEF InStage, Stage, Admission, Holds, HasRow, OpenStages, NeedsAdmin, OnRow
      <3>4. Kept(c)
        BY <3>2 DEF Kept
      <3> QED
        BY <2>1, <2>3, <2>4, <3>1, <3>2, <3>3, <3>4 DEF Deletes
    <2>5. CASE ~(Rows \subseteq r.held)
      <3>1. Surprised(c, ServerError)
        BY <2>1, <2>5 DEF Surprised
      <3> QED
        BY <1>2, <1>6, <2>2, <2>5, <3>1, CommitSteps
    <2> QED
      BY <2>4, <2>5
  <1>7. ASSUME SaveVerdict(c)
        PROVE  Saves(c) \/ Closes(c)
    <2>1. r.at = "verified"
      BY <1>7 DEF SaveVerdict
    <2>2. Open(c) /\ InStage(r) /\ Asked(c, r)
      BY <1>1, <2>1 DEF OpenStages
    <2>3. r.op = "jira_connection_test" /\ r.conn \in Conns
      BY <2>1, <2>2 DEF InStage, Stage, Asked, About, OnConnection, OnRow
    <2>4. CASE conn[r.conn].exists
      <3>1. /\ workspace' = workspace /\ made' = made
            /\ conn' = [conn EXCEPT ![r.conn].verdict = Verdict(c)]
            /\ Advances(c, "saved", {})
        BY <1>7, <2>4, TestSteps
      <3>2. /\ Kept(c) /\ s.at = "saved" /\ s.held = r.held /\ s.swept = r.swept
            /\ s.said = r.said /\ s.met = r.met
        BY <3>1, Carried DEF Data, Kept
      <3>3. InStage(s)
        BY <2>1, <2>2, <2>3, <3>2
        DEF InStage, Stage, Admission, Holds, HasRow, Kept, OpenStages, NeedsAdmin, OnRow
      <3> QED
        BY <2>1, <2>3, <2>4, <3>1, <3>2, <3>3 DEF Saves, Advances
    <2>5. CASE ~conn[r.conn].exists
      <3>1. Surprised(c, ServerError)
        BY <2>1, <2>3, <2>5 DEF Surprised, OnRow
      <3> QED
        BY <1>2, <1>7, <2>2, <2>5, <3>1, TestSteps
    <2> QED
      BY <2>4, <2>5
  <1> QED
    BY <1>3, <1>4, <1>5, <1>6, <1>7

\* Every step is of one of these kinds.
Kinds(c) ==
    \/ Begins(c) \/ Goes(c) \/ Closes(c) \/ Leaves(c)
    \/ Makes(c) \/ Adds(c) \/ Edits(c) \/ Deletes(c) \/ Saves(c)

LEMMA StepKinds ==
    ASSUME RecordInv, StageInv, NEW c \in Calls,
           Begin(c) \/ Step(c) \/ LogTestFails(c) \/ LogFails(c) \/ Crash(c)
    PROVE  Kinds(c)
  <1>1. CASE Begin(c)
    <2>1. call[c].at = "idle"
      BY <1>1 DEF Begin
    <2> QED
      BY <1>1, <2>1, BeginSteps DEF Kinds, Begins
  <1>2. CASE WorkspaceStep(c) /\ UNCHANGED conn
    <2>1. ListMembers(c) \/ LogWorkspaceAction(c) => Closes(c)
      BY <1>2, SucceedingCloses
    <2>2. AdmitUpdate(c) \/ AdmitDelete(c) => Goes(c) \/ Closes(c)
      BY <1>2, AdmittedGoes, RefusingCloses
    <2>3. InsertWorkspace(c) => Goes(c) \/ Closes(c)
      BY <1>2, NamingGoes, SurprisedCloses
    <2>4. SaveName(c) => Goes(c) \/ Closes(c)
      BY <1>2, LookedGoes, SurprisedCloses
    <2>5. TrySlug(c) => Goes(c)
      BY <1>2, NamingGoes
    <2>6. CommitWorkspace(c) => Makes(c)
      BY <1>2, CommitKinds
    <2> QED
      BY <1>2, <2>1, <2>2, <2>3, <2>4, <2>5, <2>6 DEF WorkspaceStep, Kinds
  <1>3. CASE ConnectionStep(c)
    <2>1. ListConnections(c) \/ LogTest(c) => Closes(c)
      BY SucceedingCloses
    <2>2. AdmitCreate(c) \/ Admit(c) => Goes(c) \/ Closes(c)
      BY AdmittedGoes, RefusingCloses
    <2>3. GetConnection(c) => Goes(c) \/ Closes(c)
      BY LookedGoes, RefusingCloses
    <2>4. LoadWorkspace(c) => Goes(c) \/ Closes(c)
      BY LookedGoes, SurprisedCloses
    <2>5. InsertConnection(c) \/ UpdateRow(c) \/ LockRow(c) => Goes(c) \/ Closes(c)
      BY WritingGoes, SurprisedCloses
    <2>6. Verify(c) => Goes(c)
      BY TestGoes
    <2>7. Collect(c) \/ DeleteMemberships(c) \/ DeleteRow(c) => Goes(c)
      BY SweepingGoes
    <2>8. CommitCreate(c) \/ CommitUpdate(c) \/ CommitDelete(c) \/ SaveVerdict(c) =>
              Adds(c) \/ Edits(c) \/ Deletes(c) \/ Saves(c) \/ Closes(c)
      BY CommitKinds
    <2> QED
      BY <1>3, <2>1, <2>2, <2>3, <2>4, <2>5, <2>6, <2>7, <2>8 DEF ConnectionStep, Kinds
  <1>4. CASE LogTestFails(c)
    BY <1>4, TestGoes, FailingCloses DEF Kinds
  <1>5. CASE LogFails(c) \/ BreakDeadlock(c)
    BY <1>5, FailingCloses DEF Kinds
  <1>6. CASE Crash(c) \/ Respond(c)
    BY <1>6, FailingSteps DEF Kinds, Leaves
  <1> QED
    BY <1>1, <1>2, <1>3, <1>4, <1>5, <1>6 DEF Step

-----------------------------------------------------------------------------
(* The rows after a commit.                                                 *)

LEMMA GivenFields ==
    ASSUME NEW c \in Calls, NEW r, Asked(c, r), r.op \in ConnectionOps
    PROVE  /\ DOMAIN r.given \subseteq Fields
           /\ r.op = "jira_connection_create" => DOMAIN r.given = Fields
           /\ r.op = "jira_connection_deactivate" => "name" \notin DOMAIN r.given
  <1>1. r.given \in Given(r.op)
    BY DEF Asked
  <1>2. CASE r.op = "jira_connection_create"
    <2>1. r.given \in {g \in Patches : DOMAIN g = Fields}
      BY <1>1, <1>2 DEF Given
    <2> QED
      BY <1>2, <2>1
  <1>3. CASE r.op = "jira_connection_update"
    <2>1. r.given \in {g \in Patches : DOMAIN g # Fields}
      BY <1>1, <1>3 DEF Given
    <2> QED
      BY <1>3, <2>1, PatchesAssumption
  <1>4. CASE r.op = "jira_connection_deactivate"
    <2>1. r.given = [active |-> FALSE]
      BY <1>1, <1>4 DEF Given
    <2>2. DOMAIN r.given = {"active"}
      BY <2>1
    <2> QED
      BY <1>4, <2>2 DEF Fields
  <1>5. CASE r.op \in {"jira_connection_list", "jira_connection_get", "jira_connection_test"}
    <2>1. r.given = <<>>
      BY <1>1, <1>5 DEF Given
    <2>2. DOMAIN r.given = {}
      BY <2>1
    <2> QED
      BY <1>5, <2>2
  <1> QED
    BY <1>2, <1>3, <1>4, <1>5 DEF ConnectionOps

LEMMA RowsAdded ==
    ASSUME RecordInv, NEW c \in Calls, Adds(c)
    PROVE  /\ DOMAIN conn' = Conns
           /\ \A k \in Conns \ {c} : conn'[k] = conn[k]
           /\ DOMAIN conn'[c] = RowFields
           /\ conn'[c].exists /\ conn'[c].name = call[c].given.name
           /\ conn'[c].verdict = Unknown
           /\ Rows' = Rows \cup {c}
  <1> DEFINE row == Row(call[c].given.name, call[c].given.settings, call[c].given.active)
  <1>1. /\ DOMAIN row = RowFields /\ row.exists = TRUE /\ row.name = call[c].given.name
        /\ row.verdict = Unknown
    BY RowTyped
  <1>2. conn' = [conn EXCEPT ![c] = row]
    BY DEF Adds
  <1> HIDE DEF row
  <1>3. c \in Conns /\ DOMAIN conn = Conns
    BY DEF Conns, RecordInv
  <1>4. /\ DOMAIN conn' = Conns /\ conn'[c] = row
        /\ \A k \in Conns \ {c} : conn'[k] = conn[k]
    BY <1>2, <1>3
  <1> QED
    BY <1>1, <1>3, <1>4 DEF Rows

LEMMA RowsEdited ==
    ASSUME RecordInv, StageInv, NEW c \in Calls, Edits(c)
    PROVE  /\ DOMAIN conn' = Conns
           /\ \A k \in Conns \ {call[c].conn} : conn'[k] = conn[k]
           /\ \A k \in Conns : /\ DOMAIN conn'[k] = RowFields
                               /\ conn'[k].exists = conn[k].exists
                               /\ conn'[k].verdict = conn[k].verdict
           /\ \A f \in Fields : conn'[call[c].conn][f] =
                  IF f \in DOMAIN call[c].given THEN call[c].given[f]
                  ELSE conn[call[c].conn][f]
           /\ Rows' = Rows
  <1> DEFINE k == call[c].conn
             g == call[c].given
             row == conn[k]
  <1>1. k \in Conns /\ DOMAIN conn = Conns /\ DOMAIN row = RowFields
    BY DEF Edits, RecordInv
  <1>2. DOMAIN g \subseteq Fields
    <2>1. Asked(c, call[c]) /\ call[c].op \in ConnectionOps
      BY DEF Edits, StageInv, StageOf, OpenStages, ConnectionOps
    <2> QED
      BY <2>1, GivenFields
  <1>3. conn' = [conn EXCEPT ![k] = Written(row, g)]
    BY DEF Edits
  <1>4. /\ DOMAIN Written(row, g) = RowFields
        /\ \A f \in RowFields : Written(row, g)[f] = IF f \in DOMAIN g THEN g[f] ELSE row[f]
    BY <1>1 DEF Written
  <1> HIDE DEF row, g, k
  <1>5. /\ Written(row, g).exists = row.exists /\ Written(row, g).verdict = row.verdict
        /\ \A f \in Fields : Written(row, g)[f] = IF f \in DOMAIN g THEN g[f] ELSE row[f]
    BY <1>2, <1>4 DEF RowFields, Fields
  <1>6. /\ DOMAIN conn' = Conns /\ conn'[k] = Written(row, g)
        /\ \A l \in Conns \ {k} : conn'[l] = conn[l]
    BY <1>1, <1>3
  <1>7. \A l \in Conns : /\ DOMAIN conn'[l] = RowFields
                         /\ conn'[l].exists = conn[l].exists
                         /\ conn'[l].verdict = conn[l].verdict
    BY <1>4, <1>5, <1>6 DEF RecordInv, row
  <1>8. Rows' = Rows
    BY <1>7 DEF Rows
  <1> QED
    BY <1>5, <1>6, <1>7, <1>8 DEF row, g, k

LEMMA RowsSaved ==
    ASSUME RecordInv, NEW c \in Calls, Saves(c)
    PROVE  /\ DOMAIN conn' = Conns
           /\ \A k \in Conns \ {call[c].conn} : conn'[k] = conn[k]
           /\ \A k \in Conns : /\ DOMAIN conn'[k] = RowFields
                               /\ conn'[k].exists = conn[k].exists
                               /\ \A f \in Fields : conn'[k][f] = conn[k][f]
           /\ conn'[call[c].conn].verdict = Verdict(c)
           /\ Rows' = Rows
  <1> DEFINE k == call[c].conn
             row == conn[k]
             new == [row EXCEPT !.verdict = Verdict(c)]
  <1>1. k \in Conns /\ DOMAIN conn = Conns /\ DOMAIN row = RowFields
    BY DEF Saves, RecordInv
  <1>2. /\ DOMAIN new = RowFields /\ new.verdict = Verdict(c)
        /\ \A f \in RowFields \ {"verdict"} : new[f] = row[f]
    BY <1>1 DEF RowFields
  <1>3. conn' = [conn EXCEPT ![k] = new]
    BY DEF Saves
  <1> HIDE DEF new, row, k
  <1>4. new.exists = row.exists /\ \A f \in Fields : new[f] = row[f]
    BY <1>2 DEF RowFields, Fields
  <1>5. /\ DOMAIN conn' = Conns /\ conn'[k] = new
        /\ \A l \in Conns \ {k} : conn'[l] = conn[l]
    BY <1>1, <1>3
  <1>6. \A l \in Conns : /\ DOMAIN conn'[l] = RowFields
                         /\ conn'[l].exists = conn[l].exists
                         /\ \A f \in Fields : conn'[l][f] = conn[l][f]
    BY <1>2, <1>4, <1>5 DEF RecordInv, row
  <1>7. Rows' = Rows
    BY <1>6 DEF Rows
  <1> QED
    BY <1>2, <1>5, <1>6, <1>7 DEF k

LEMMA RowsDeleted ==
    ASSUME NEW c \in Calls, Deletes(c)
    PROVE  /\ DOMAIN conn' = Conns /\ Rows' = {}
           /\ \A k \in Conns : conn'[k] = NoRow /\ ~conn'[k].exists
                               /\ DOMAIN conn'[k] = RowFields /\ conn'[k].verdict = Unknown
  BY RowTyped DEF Deletes, Rows

-----------------------------------------------------------------------------
(* The records and the stages stay in order.                                *)

LEMMA StructureStays ==
    ASSUME RecordInv, StageInv, NEW c \in Calls, Kinds(c)
    PROVE  RecordInv' /\ StageInv' /\ Others(c)
  <1>1. ASSUME Begins(c)
        PROVE  Quiet(c) /\ StageOf(c, call'[c])
    <2>1. PICK r : Fresh(c, r) /\ Move(c, GetWorkspace(r))
      BY <1>1 DEF Begins
    <2>2. Asked(c, r) /\ r.held = {} /\ r.swept = {} /\ r.answer = NoAnswer
      BY <2>1 DEF Fresh
    <2> DEFINE s == call'[c]
    <2>3. ASSUME NEW answer, s = Answered(r, answer)
          PROVE  StageOf(c, s)
      <3>1. s.at = "answered" /\ s.op = r.op /\ s.conn = r.conn /\ s.held = {} /\ s.swept = {}
        BY <2>3, AnsweredFields
      <3> QED
        BY <2>2, <3>1 DEF StageOf, OpenStages, Asked, About
    <2>4. ASSUME \A f \in CallFields \ {"at", "tried"} : s[f] = r[f],
                 \/ s.at = "naming" /\ r.op = "workspace_create" /\ r.body # "invalid"
                 \/ /\ s.at = "found" /\ Membership(r)
                    /\ r.op \notin {"workspace_list", "workspace_create", "workspace_get"}
                    /\ r.body = "invalid" => r.op \notin {"jira_connection_create",
                                                          "workspace_update"}
          PROVE  StageOf(c, s)
      <3>1. /\ s.op = r.op /\ s.role = r.role /\ s.body = r.body /\ s.given = r.given
            /\ s.conn = r.conn /\ s.swept = {} /\ s.held = {} /\ s.answer = NoAnswer
        BY <2>2, <2>4 DEF CallFields
      <3>2. Asked(c, s)
        BY <2>2, <3>1 DEF Asked, About
      <3>3. s.body = "invalid" =>
                s.op \in {"workspace_create", "workspace_update", "jira_connection_create",
                          "jira_connection_update"}
        BY <3>2 DEF Asked, BodiesOf
      <3>4. Admission(s)
        BY <2>4, <3>1, <3>3 DEF Admission, Membership
      <3>5. Stage(s) /\ Holds(s)
        BY <2>4, <3>1 DEF Stage, Holds, HasRow
      <3>6. InStage(s)
        BY <2>4, <3>1, <3>4, <3>5 DEF InStage, OpenStages
      <3> QED
        BY <2>4, <3>2, <3>6 DEF StageOf, OpenStages
    <2> QED
      BY <2>1, <2>3, <2>4, FirstStage
  <1>2. ASSUME InStage(call'[c]), Kept(c), Open(c)
        PROVE  StageOf(c, call'[c])
    <2>1. Asked(c, call[c])
      BY <1>2 DEF StageInv, StageOf, Open
    <2>2. Asked(c, call'[c])
      BY <1>2, <2>1 DEF Asked, About, Kept
    <2> QED
      BY <1>2, <2>2 DEF StageOf, InStage, OpenStages
  <1>3. ASSUME Open(c), NEW answer, NEW M, Finished(c, answer, M)
        PROVE  StageOf(c, call'[c])
    BY <1>3 DEF Finished, StageInv, StageOf, Open, OpenStages, Asked, About
  <1>4. StageOf(c, Ended)
    BY NoCallFields DEF StageOf, OpenStages
  <1>5. ASSUME Still, Others(c)
        PROVE  RecordInv'
    <2>1. DOMAIN made' = Calls /\ DOMAIN conn' = Conns
          /\ \A k \in Conns : DOMAIN conn'[k] = RowFields
      BY <1>5 DEF RecordInv, Still
    <2> QED
      BY <1>5, <2>1, RecordStays
  <1>6. CASE Begins(c)
    BY <1>1, <1>5, <1>6, OthersStay, StageOthers DEF Begins
  <1>7. CASE Goes(c)
    BY <1>2, <1>5, <1>7, OthersStay, StageOthers DEF Goes
  <1>8. CASE Closes(c)
    BY <1>3, <1>5, <1>8, OthersStay, StageOthers DEF Closes, Ends
  <1>9. CASE Leaves(c)
    BY <1>4, <1>5, <1>9, OthersStay, StageOthers DEF Leaves
  <1>10. CASE Makes(c)
    <2>1. Open(c) /\ Others(c)
      BY <1>10, OthersStay DEF Makes, Open
    <2>2. DOMAIN made' = Calls
      BY <1>10 DEF Makes, RecordInv
    <2>3. DOMAIN conn' = Conns /\ \A k \in Conns : DOMAIN conn'[k] = RowFields
      BY <1>10 DEF Makes, RecordInv
    <2>4. StageOf(c, call'[c])
      BY <1>3, <1>10, <2>1 DEF Makes
    <2> QED
      BY <2>1, <2>2, <2>3, <2>4, RecordStays, StageOthers
  <1>11. CASE Adds(c)
    <2>1. Open(c) /\ Others(c)
      BY <1>11, OthersStay DEF Adds, Open
    <2>2. DOMAIN made' = Calls
      BY <1>11 DEF Adds, RecordInv
    <2>3. DOMAIN conn' = Conns /\ \A k \in Conns : DOMAIN conn'[k] = RowFields
      BY <1>11, RowsAdded DEF RecordInv
    <2>4. StageOf(c, call'[c])
      BY <1>3, <1>11, <2>1 DEF Adds
    <2> QED
      BY <2>1, <2>2, <2>3, <2>4, RecordStays, StageOthers
  <1>12. CASE Edits(c)
    <2>1. Open(c) /\ Others(c)
      BY <1>12, OthersStay DEF Edits, Open
    <2>2. DOMAIN made' = Calls
      BY <1>12 DEF Edits, RecordInv
    <2>3. DOMAIN conn' = Conns /\ \A k \in Conns : DOMAIN conn'[k] = RowFields
      BY <1>12, RowsEdited
    <2>4. StageOf(c, call'[c])
      BY <1>3, <1>12, <2>1 DEF Edits
    <2> QED
      BY <2>1, <2>2, <2>3, <2>4, RecordStays, StageOthers
  <1>13. CASE Deletes(c)
    <2>1. Open(c) /\ Others(c)
      BY <1>13, OthersStay DEF Deletes, Open
    <2>2. DOMAIN made' = Calls
      BY <1>13 DEF Deletes, RecordInv
    <2>3. DOMAIN conn' = Conns /\ \A k \in Conns : DOMAIN conn'[k] = RowFields
      BY <1>13, RowsDeleted
    <2>4. StageOf(c, call'[c])
      BY <1>2, <1>13, <2>1 DEF Deletes
    <2> QED
      BY <2>1, <2>2, <2>3, <2>4, RecordStays, StageOthers
  <1>14. CASE Saves(c)
    <2>1. Open(c) /\ Others(c)
      BY <1>14, OthersStay DEF Saves, Open
    <2>2. DOMAIN made' = Calls
      BY <1>14 DEF Saves, RecordInv
    <2>3. DOMAIN conn' = Conns /\ \A k \in Conns : DOMAIN conn'[k] = RowFields
      BY <1>14, RowsSaved
    <2>4. StageOf(c, call'[c])
      BY <1>2, <1>14, <2>1 DEF Saves
    <2> QED
      BY <2>1, <2>2, <2>3, <2>4, RecordStays, StageOthers
  <1> QED
    BY <1>6, <1>7, <1>8, <1>9, <1>10, <1>11, <1>12, <1>13, <1>14 DEF Kinds

LEMMA PromisedReasons ==
    ASSUME NEW r
    PROVE  /\ \A s \in {400, 403, 404} : Refusable(r, s) => s \in Promised(r)
           /\ (\A s \in {400, 403, 404} : ~Refusable(r, s)) =>
                  Promised(r) = {SuccessStatus(r.op)}
  BY DEF Promised

\* A call that has begun.
LEMMA Begun ==
    ASSUME RecordInv, StageInv, NEW c \in Calls, Begins(c)
    PROVE  LET s == call'[c]
           IN  /\ Quiet(c) /\ Still /\ call[c].at = "idle"
               /\ s.held = {} /\ s.swept = {} /\ s.met = {}
               /\ s.at \in {"answered", "naming", "found"}
               /\ s.at = "naming" => s.tried = 1
               /\ s.at = "found" => workspace
               /\ s.at # "answered" => s.promise = Promised(s)
               /\ s.at = "answered" =>
                      /\ s.answer.status \in s.promise
                      /\ s.answer.status \in Documented(s.op)
                      /\ s.op # "jira_connection_test" \/ s.answer.status # 200
  <1>1. PICK r : Fresh(c, r) /\ Move(c, GetWorkspace(r))
    BY DEF Begins
  <1>2. /\ Asked(c, r) /\ r.held = {} /\ r.swept = {} /\ r.met = {}
        /\ r.promise = Promised(r)
    BY <1>1 DEF Fresh
  <1>3. r.op \in WorkspaceOps \cup ConnectionOps
    BY <1>2 DEF Asked, About
  <1> DEFINE s == call'[c]
  <1>4. Quiet(c) /\ Still /\ call[c].at = "idle"
    BY <1>1, FirstStage DEF Begins
  <1>5. ASSUME NEW answer, s = Answered(r, answer), answer.status \in Promised(r),
               answer.status \in Documented(r.op),
               r.op # "jira_connection_test" \/ answer.status # 200
        PROVE  /\ s.held = {} /\ s.swept = {} /\ s.met = {}
               /\ s.at = "answered"
               /\ s.answer.status \in s.promise
               /\ s.answer.status \in Documented(s.op)
               /\ s.op # "jira_connection_test" \/ s.answer.status # 200
    BY <1>2, <1>5, AnsweredFields
  <1>6. CASE /\ r.op \in ValidatesFirst \cup {"workspace_update"} /\ r.body = "invalid"
             /\ s = Answered(r, Handle(ValidationError))
    <2>1. 400 \in Promised(r)
      BY <1>6, PromisedReasons DEF Refusable
    <2>2. 400 \in Documented(r.op)
      BY <1>6 DEF ValidatesFirst, Documented, WorkspaceDocs, ConnectionDocs, WorkspaceOps
    <2> QED
      BY <1>4, <1>5, <1>6, <2>1, <2>2, Handled
  <1>7. CASE /\ r.op = "workspace_list" \/ (r.op = "workspace_get" /\ Membership(r))
             /\ s = Answered(r, Success(200))
    <2>1. r.body \in {"valid"}
      BY <1>2, <1>7 DEF Asked, BodiesOf
    <2>2. \A status : ~Refusable(r, status)
      BY <1>7, <2>1 DEF Refusable, Membership, ConnectionOps, NeedsAdmin, OnRow
    <2>3. Promised(r) = {200}
      BY <1>7, <2>2, PromisedReasons DEF SuccessStatus
    <2>4. 200 \in Documented(r.op)
      BY <1>7 DEF Documented, WorkspaceDocs, WorkspaceOps
    <2> QED
      BY <1>4, <1>5, <1>7, <2>3, <2>4, Handled
  <1>8. CASE /\ ~Membership(r) /\ r.op \notin {"workspace_list", "workspace_create"}
             /\ s = Answered(r, Handle(NotFound))
    <2>1. 404 \in Promised(r)
      BY <1>8, PromisedReasons DEF Refusable, Membership
    <2>2. 404 \in Documented(r.op)
      BY <1>3, <1>8 DEF Documented, WorkspaceDocs, ConnectionDocs, WorkspaceOps, ConnectionOps
    <2> QED
      BY <1>4, <1>5, <1>8, <2>1, <2>2, Handled
  <1>9. CASE /\ \/ /\ r.op = "workspace_create" /\ r.body # "invalid"
                   /\ s.at = "naming" /\ s.tried = 1
                \/ /\ Membership(r)
                   /\ r.op \notin {"workspace_list", "workspace_create", "workspace_get"}
                   /\ s.at = "found"
             /\ \A f \in CallFields \ {"at", "tried"} : s[f] = r[f]
    <2>1. /\ s.held = {} /\ s.swept = {} /\ s.met = {} /\ s.promise = Promised(r)
          /\ s.op = r.op /\ s.role = r.role /\ s.body = r.body /\ s.given = r.given
          /\ s.conn = r.conn
      BY <1>2, <1>9 DEF CallFields
    <2>2. Promised(s) = Promised(r)
      BY <2>1, PromisedSame
    <2>3. s.at = "found" => workspace
      BY <1>9 DEF Membership
    <2> QED
      BY <1>4, <1>9, <2>1, <2>2, <2>3
  <1> QED
    BY <1>1, <1>6, <1>7, <1>8, <1>9, FirstStage

-----------------------------------------------------------------------------
(* Locks.                                                                   *)

\* A row is locked by one transaction, and no transaction deletes it under
\* that one.
LockInv ==
    /\ \A c, d \in Calls : c # d => call[c].held \cap call[d].held = {}
    /\ \A c \in Calls : call[c].held \subseteq Rows

LEMMA LocksStay ==
    ASSUME RecordInv, StageInv, LockInv, NEW c \in Calls, Kinds(c)
    PROVE  LockInv'
  <1> DEFINE r == call[c]
             s == call'[c]
  <1>1. \A d \in Calls \ {c} : call'[d].held = call[d].held
    <2>1. "held" \in CallFields \ {"met", "promise"}
      BY DEF CallFields
    <2> QED
      BY <2>1, StructureStays DEF Others
  <1>2. ASSUME Rows \subseteq Rows',
               \/ s.held = {} \/ s.held = r.held
               \/ \E k \in Rows : ~Locked(k, c) /\ s.held = r.held \cup {k}
        PROVE  LockInv'
    BY <1>1, <1>2 DEF LockInv, Locked
  <1>3. CASE Begins(c)
    BY <1>2, <1>3, Begun DEF Still, Rows
  <1>4. CASE Goes(c)
    <2>1. \/ s.held = r.held
          \/ \E k \in Rows : ~Locked(k, c) /\ s.held = r.held \cup {k}
      BY <1>4 DEF Goes, Ways
    <2>2. Rows' = Rows
      BY <1>4 DEF Goes, Still, Rows
    <2> QED
      BY <1>2, <2>1, <2>2
  <1>5. CASE Closes(c)
    BY <1>2, <1>5 DEF Closes, Still, Rows, Ends, Finished
  <1>6. CASE Leaves(c)
    BY <1>2, <1>6, NoCallFields DEF Leaves, Still, Rows, CallFields
  <1>7. CASE Makes(c)
    BY <1>2, <1>7 DEF Makes, Rows, Finished
  <1>8. CASE Adds(c)
    BY <1>2, <1>8, RowsAdded DEF Adds, Finished
  <1>9. CASE Edits(c)
    BY <1>2, <1>9, RowsEdited DEF Edits, Finished
  <1>10. CASE Saves(c)
    BY <1>2, <1>10, RowsSaved DEF Saves
  <1>11. CASE Deletes(c)
    <2>1. \A d \in Calls \ {c} : call[d].held = {}
      BY <1>11 DEF Deletes, LockInv
    <2>2. s.held = {}
      BY <1>11 DEF Deletes
    <2>3. \A d \in Calls : call'[d].held = {}
      BY <1>1, <2>1, <2>2
    <2> QED
      BY <2>3 DEF LockInv
  <1> QED
    BY <1>3, <1>4, <1>5, <1>6, <1>7, <1>8, <1>9, <1>10, <1>11 DEF Kinds

-----------------------------------------------------------------------------
(* Names.                                                                   *)

\* A transaction that has written a name and has not committed.
Writes(c) ==
    /\ call[c].op \in {"jira_connection_create", "jira_connection_update"}
    /\ call[c].at = "written" /\ "name" \in DOMAIN call[c].given

\* The unique index of names, with the names that are being written.
NameInv ==
    /\ \A k, l \in Rows : conn[k].name = conn[l].name => k = l
    /\ \A c \in Calls : Writes(c) => ~NameTaken(call[c])
    /\ \A c, d \in Calls :
           c # d /\ Writes(c) /\ Writes(d) => call[c].given.name # call[d].given.name

LEMMA OthersWrite ==
    ASSUME RecordInv, NEW c \in Calls, Others(c), NEW d \in Calls, d # c
    PROVE  /\ call'[d].op = call[d].op /\ call'[d].at = call[d].at
           /\ call'[d].given = call[d].given /\ call'[d].conn = call[d].conn
           /\ call'[d].tried = call[d].tried
           /\ Writes(d)' = Writes(d)
  <1>1. \A f \in CallFields \ {"met", "promise"} : call'[d][f] = call[d][f]
    BY DEF Others
  <1>2. /\ call'[d].op = call[d].op /\ call'[d].at = call[d].at
        /\ call'[d].given = call[d].given /\ call'[d].conn = call[d].conn
        /\ call'[d].tried = call[d].tried
    BY <1>1 DEF CallFields
  <1> QED
    BY <1>2 DEF Writes

LEMMA NamesStay ==
    ASSUME RecordInv, StageInv, NameInv, NEW c \in Calls, Kinds(c)
    PROVE  NameInv'
  <1> DEFINE r == call[c]
             s == call'[c]
  <1>1. Others(c)
    BY StructureStays
  <1>2. \A d \in Calls \ {c} : /\ Writes(d)' = Writes(d)
                               /\ call'[d].given = call[d].given /\ call'[d].conn = call[d].conn
    BY <1>1, OthersWrite
  <1>3. ASSUME Rows' \subseteq Rows, \A k \in Rows' : conn'[k].name = conn[k].name, ~Writes(c)'
        PROVE  NameInv'
    BY <1>2, <1>3 DEF NameInv, NameTaken
  <1>4. ASSUME s.at # "written"
        PROVE  ~Writes(c)'
    BY <1>4 DEF Writes
  <1>5. ASSUME Still
        PROVE  Rows' = Rows /\ \A k \in Rows : conn'[k].name = conn[k].name
    BY <1>5 DEF Still, Rows
  <1>6. CASE Begins(c)
    BY <1>3, <1>4, <1>5, <1>6, Begun
  <1>7. CASE Closes(c)
    BY <1>3, <1>4, <1>5, <1>7 DEF Closes, Ends, Finished
  <1>8. CASE Leaves(c)
    BY <1>3, <1>4, <1>5, <1>8, NoCallFields DEF Leaves
  <1>9. CASE Goes(c)
    <2>1. CASE ~Writes(c)'
      BY <1>3, <1>5, <1>9, <2>1 DEF Goes
    <2>2. CASE Writes(c)'
      <3>1. /\ s.at = "written" /\ s.op \in {"jira_connection_create", "jira_connection_update"}
            /\ "name" \in DOMAIN s.given
        BY <2>2 DEF Writes
      <3>2. r.op = s.op /\ r.given = s.given /\ r.conn = s.conn
        BY <1>9 DEF Goes, Kept
      <3>3. ~NameTaken(r) /\ \A d \in Calls : ~WaitsForName(c, d)
        BY <1>9, <3>1, <3>2 DEF Goes, Ways
      <3>4. \A d \in Calls \ {c} : Writes(d) => call[d].given.name # r.given.name
        BY <3>1, <3>2, <3>3 DEF WaitsForName, WritesName, Writes
      <3>5. Rows' = Rows /\ conn' = conn
        BY <1>5, <1>9 DEF Goes, Still
      <3>6. ~NameTaken(call[c])'
        BY <3>2, <3>3, <3>5 DEF NameTaken
      <3> QED
        BY <1>2, <3>2, <3>4, <3>5, <3>6 DEF NameInv, NameTaken
    <2> QED
      BY <2>1, <2>2
  <1>10. CASE Makes(c)
    <2>1. Rows' = Rows /\ \A k \in Rows : conn'[k].name = conn[k].name
      BY <1>10 DEF Makes, Rows
    <2> QED
      BY <1>3, <1>4, <1>10, <2>1 DEF Makes, Finished
  <1>11. CASE Deletes(c)
    <2>1. Rows' = {}
      BY <1>11, RowsDeleted
    <2> QED
      BY <1>3, <1>4, <1>11, <2>1 DEF Deletes
  <1>12. CASE Saves(c)
    <2>1. Rows' = Rows /\ \A k \in Rows : conn'[k].name = conn[k].name
      BY <1>12, RowsSaved DEF Rows, Fields
    <2> QED
      BY <1>3, <1>4, <1>12, <2>1 DEF Saves
  <1>13. ASSUME NEW k \in Conns, NEW name, k = r.conn, Writes(c), r.given.name = name,
                Rows' \subseteq Rows \cup {k}, conn'[k].name = name, s.at = "answered",
                \A l \in Conns \ {k} : conn'[l] = conn[l]
         PROVE  NameInv'
    <2>1. \A l \in Rows \ {k} : conn[l].name # name
      BY <1>13 DEF NameInv, NameTaken, Writes
    <2>2. \A d \in Calls \ {c} : Writes(d) => call[d].given.name # name
      BY <1>13 DEF NameInv
    <2>3. \A l \in Rows' \ {k} : l \in Rows /\ conn'[l].name = conn[l].name
      BY <1>13 DEF Rows
    <2>4. ~Writes(c)'
      BY <1>13 DEF Writes
    <2>5. \A l, m \in Rows' : conn'[l].name = conn'[m].name => l = m
      BY <1>13, <2>1, <2>3 DEF NameInv
    <2>6. ASSUME NEW d \in Calls \ {c}, Writes(d)
          PROVE  ~NameTaken(call[d])'
      BY <1>2, <1>13, <2>2, <2>3, <2>6 DEF NameInv, NameTaken
    <2> QED
      BY <1>2, <2>4, <2>5, <2>6 DEF NameInv
  <1>14. CASE Adds(c)
    <2>1. r.conn = c /\ c \in Conns /\ Writes(c)
      <3>1. r.op = "jira_connection_create" /\ r.at = "written" /\ r.conn = c
        BY <1>14 DEF Adds
      <3>2. Asked(c, r)
        BY <3>1 DEF StageInv, StageOf, OpenStages
      <3>3. DOMAIN r.given = Fields
        BY <3>1, <3>2, GivenFields DEF ConnectionOps
      <3> QED
        BY <3>1, <3>3 DEF Conns, Writes, Fields
    <2>2. /\ Rows' = Rows \cup {c} /\ conn'[c].name = r.given.name
          /\ \A l \in Conns \ {c} : conn'[l] = conn[l]
      BY <1>14, RowsAdded
    <2>3. s.at = "answered"
      BY <1>14 DEF Adds, Finished
    <2> QED
      BY <1>13, <2>1, <2>2, <2>3
  <1>15. CASE Edits(c)
    <2>1. /\ Rows' = Rows /\ \A l \in Conns \ {r.conn} : conn'[l] = conn[l]
          /\ conn'[r.conn].name = IF "name" \in DOMAIN r.given THEN r.given.name
                                  ELSE conn[r.conn].name
      BY <1>15, RowsEdited DEF Fields
    <2>2. s.at = "answered" /\ r.conn \in Conns /\ r.at = "written"
          /\ r.op \in {"jira_connection_update", "jira_connection_deactivate"}
      BY <1>15 DEF Edits, Finished
    <2>3. CASE "name" \in DOMAIN r.given
      <3>1. Asked(c, r)
        BY <2>2 DEF StageInv, StageOf, OpenStages
      <3>2. r.op # "jira_connection_deactivate"
        BY <2>2, <2>3, <3>1, GivenFields DEF ConnectionOps
      <3>3. Writes(c)
        BY <2>2, <2>3, <3>2 DEF Writes
      <3> QED
        BY <1>13, <2>1, <2>2, <2>3, <3>3
    <2>4. CASE "name" \notin DOMAIN r.given
      <3>1. \A k \in Rows : conn'[k].name = conn[k].name
        BY <2>1, <2>4 DEF Rows
      <3> QED
        BY <1>3, <1>4, <2>1, <2>2, <3>1
    <2> QED
      BY <2>3, <2>4
  <1> QED
    BY <1>6, <1>7, <1>8, <1>9, <1>10, <1>11, <1>12, <1>14, <1>15 DEF Kinds

-----------------------------------------------------------------------------
(* Slugs, and the workspace of the connections.                             *)

Creates(c) == call[c].op = "workspace_create" /\ call[c].at = "written"

\* The unique index of slugs, with those that are being written, and the
\* foreign key.
SlugInv ==
    /\ \A c, d \in Calls : made[c] = made[d] => c = d \/ made[c] = "none"
    /\ workspace => \A c \in Calls : made[c] # OwnSlug
    /\ \A c \in Calls : Creates(c) => Slug(call[c]) \notin Slugs
    /\ \A c, d \in Calls : c # d /\ Creates(c) /\ Creates(d) => Slug(call[c]) # Slug(call[d])
    /\ Rows # {} => workspace

LEMMA SlugsStay ==
    ASSUME RecordInv, StageInv, SlugInv, NEW c \in Calls, Kinds(c)
    PROVE  SlugInv'
  <1> DEFINE r == call[c]
             s == call'[c]
  <1>1. Others(c)
    BY StructureStays
  <1>2. \A d \in Calls \ {c} : Creates(d)' = Creates(d) /\ Slug(call'[d]) = Slug(call[d])
    BY <1>1, OthersWrite DEF Creates, Slug
  <1>3. ASSUME made' = made, workspace' = workspace, Rows' = Rows \/ workspace, ~Creates(c)'
        PROVE  SlugInv'
    <2>1. Slugs' = Slugs
      BY <1>3 DEF Slugs
    <2> QED
      BY <1>2, <1>3, <2>1 DEF SlugInv
  <1>4. ASSUME s.at # "written"
        PROVE  ~Creates(c)'
    BY <1>4 DEF Creates
  <1>5. ASSUME Still
        PROVE  Rows' = Rows /\ made' = made /\ workspace' = workspace
    BY <1>5 DEF Still, Rows
  <1>6. CASE Begins(c)
    BY <1>3, <1>4, <1>5, <1>6, Begun
  <1>7. CASE Closes(c)
    BY <1>3, <1>4, <1>5, <1>7 DEF Closes, Ends, Finished
  <1>8. CASE Leaves(c)
    BY <1>3, <1>4, <1>5, <1>8, NoCallFields DEF Leaves
  <1>9. CASE Goes(c)
    <2>1. CASE ~Creates(c)'
      BY <1>3, <1>5, <1>9, <2>1 DEF Goes
    <2>2. CASE Creates(c)'
      <3>1. s.at = "written" /\ s.op = "workspace_create"
        BY <2>2 DEF Creates
      <3>2. r.op = s.op /\ r.given = s.given
        BY <1>9 DEF Goes, Kept
      <3>3. s.tried = r.tried /\ Slug(r) \notin Slugs /\ ~SlugPending(c, Slug(r))
        BY <1>9, <3>1, <3>2 DEF Goes, Ways
      <3>4. Slug(s) = Slug(r)
        BY <3>2, <3>3 DEF Slug
      <3>5. \A d \in Calls \ {c} : Creates(d) => Slug(call[d]) # Slug(r)
        BY <3>3 DEF SlugPending, Creates
      <3>6. Rows' = Rows /\ made' = made /\ workspace' = workspace /\ Slugs' = Slugs
        BY <1>5, <1>9 DEF Goes, Slugs
      <3> QED
        BY <1>2, <3>3, <3>4, <3>5, <3>6 DEF SlugInv
    <2> QED
      BY <2>1, <2>2
  <1>10. CASE Makes(c)
    <2> DEFINE slug == Slug(r)
    <2>1. /\ made' = [made EXCEPT ![c] = slug] /\ workspace' = workspace /\ Rows' = Rows
          /\ Creates(c) /\ ~Creates(c)'
      BY <1>10, <1>4 DEF Makes, Rows, Creates, Finished
    <2>2. slug \notin Slugs /\ \A d \in Calls \ {c} : Creates(d) => Slug(call[d]) # slug
      BY <2>1 DEF SlugInv
    <2>3. made'[c] = slug /\ \A d \in Calls \ {c} : made'[d] = made[d]
      BY <2>1 DEF RecordInv
    <2> HIDE DEF slug
    <2>4. \A d \in Calls : made[d] # slug
      BY <2>2 DEF Slugs
    <2>5. workspace => slug # OwnSlug
      BY <2>2 DEF Slugs
    <2>6. Slugs' \subseteq Slugs \cup {slug}
      BY <2>1, <2>3 DEF Slugs
    <2>7. \A d \in Calls \ {c} : Creates(d)' => Slug(call'[d]) \notin Slugs'
      BY <1>2, <2>2, <2>6 DEF SlugInv
    <2>8. \A d, e \in Calls : made'[d] = made'[e] => d = e \/ made'[d] = "none"
      BY <2>3, <2>4 DEF SlugInv
    <2>9. workspace' => \A d \in Calls : made'[d] # OwnSlug
      BY <2>1, <2>3, <2>5 DEF SlugInv
    <2>10. \A d, e \in Calls : d # e /\ Creates(d)' /\ Creates(e)' =>
               Slug(call'[d]) # Slug(call'[e])
      BY <1>2, <2>1 DEF SlugInv
    <2>11. Rows' # {} => workspace'
      BY <2>1 DEF SlugInv
    <2> QED
      BY <2>1, <2>7, <2>8, <2>9, <2>10, <2>11 DEF SlugInv
  <1>11. CASE Adds(c)
    BY <1>3, <1>4, <1>11 DEF Adds, Finished
  <1>12. CASE Edits(c)
    BY <1>3, <1>4, <1>12, RowsEdited DEF Edits, Finished
  <1>13. CASE Saves(c)
    BY <1>3, <1>4, <1>13, RowsSaved DEF Saves
  <1>14. CASE Deletes(c)
    <2>1. workspace' = FALSE /\ made' = made /\ Rows' = {} /\ ~Creates(c)'
      BY <1>4, <1>14, RowsDeleted DEF Deletes
    <2>2. Slugs' \subseteq Slugs
      BY <2>1 DEF Slugs
    <2> QED
      BY <1>2, <2>1, <2>2 DEF SlugInv
  <1> QED
    BY <1>6, <1>7, <1>8, <1>9, <1>10, <1>11, <1>12, <1>13, <1>14 DEF Kinds

-----------------------------------------------------------------------------
(* What a call has found, or has met since.                                 *)

\* A call on the workspace, on a connection, on all connections and on a slug
\* knows it from an earlier statement; what took it away left its event.
Found(c) ==
    LET r == call[c] IN
    /\ Open(c) /\ r.op # "workspace_create" /\ ~(r.at = "saved" /\ r.op = "workspace_delete") =>
           workspace \/ "delete" \in r.met
    /\ Open(c) /\ r.at # "found" /\ r.op \in OnRow => conn[r.conn].exists \/ "delete" \in r.met
    /\ r.at \in {"collected", "sweeping"} => Rows \subseteq r.swept \/ "connection" \in r.met
    /\ r.at = "named" => Slug(r) \notin Slugs \/ "workspace" \in r.met

FoundInv == \A c \in Calls : Found(c)

LEMMA HeardFields ==
    ASSUME RecordInv, NEW c \in Calls, NEW event, Heard(c, event), NEW d \in Calls, d # c
    PROVE  /\ ~Open(d) => call'[d] = call[d]
           /\ Open(d) => call'[d].met = call[d].met \cup {event}
           /\ \A f \in CallFields \ {"met", "promise"} : call'[d][f] = call[d][f]
  BY MeetsFields DEF Heard, RecordInv

LEMMA FoundStays ==
    ASSUME RecordInv, StageInv, FoundInv, NEW c \in Calls, Kinds(c)
    PROVE  FoundInv'
  <1> DEFINE r == call[c]
             s == call'[c]
  <1>1. StageInv'
    BY StructureStays
  <1>2. ASSUME Found(c)', Quiet(c), workspace' = workspace, made' = made, Rows' = Rows,
               \A k \in Conns : conn'[k].exists = conn[k].exists
        PROVE  FoundInv'
    <2> SUFFICES ASSUME NEW d \in Calls, d # c PROVE Found(d)'
      BY <1>2 DEF FoundInv
    <2>1. call'[d] = call[d] /\ Found(d) /\ StageOf(d, call[d])
      BY <1>2 DEF Quiet, FoundInv, StageInv
    <2>2. Open(d) /\ call[d].op \in OnRow => call[d].conn \in Conns
      BY <2>1 DEF StageOf, Open, Asked, About, OnConnection
    <2>3. Slugs' = Slugs /\ Slug(call[d])' = Slug(call[d]) /\ Open(d)' = Open(d)
      BY <1>2, <2>1 DEF Slugs, Slug, Open
    <2> QED
      BY <1>2, <2>1, <2>2, <2>3 DEF Found
  <1>3. ASSUME Still
        PROVE  /\ workspace' = workspace /\ made' = made /\ Rows' = Rows /\ Slugs' = Slugs
               /\ \A k \in Conns : conn'[k].exists = conn[k].exists
    BY <1>3 DEF Still, Rows, Slugs
  <1>4. ASSUME ~Open(c)'
        PROVE  Found(c)'
    BY <1>4 DEF Found, Open
  <1>5. ASSUME s.at \in {"answered", "ended"}
        PROVE  Found(c)'
    BY <1>4, <1>5 DEF Open
  <1>6. CASE Begins(c)
    <2>1. CASE s.at = "answered"
      BY <1>2, <1>3, <1>5, <1>6, <2>1, Begun
    <2>2. CASE s.at = "naming"
      <3>1. s.op = "workspace_create"
        BY <1>1, <2>2 DEF StageInv, StageOf, OpenStages, InStage, Stage
      <3>2. Found(c)'
        BY <2>2, <3>1 DEF Found, OnRow
      <3> QED
        BY <1>2, <1>3, <1>6, <3>2, Begun
    <2>3. CASE s.at = "found"
      <3>1. workspace'
        BY <1>3, <1>6, <2>3, Begun
      <3>2. Found(c)'
        BY <2>3, <3>1 DEF Found
      <3> QED
        BY <1>2, <1>3, <1>6, <3>2, Begun
    <2> QED
      BY <1>6, <2>1, <2>2, <2>3, Begun
  <1>7. CASE Closes(c)
    BY <1>2, <1>3, <1>5, <1>7 DEF Closes, Ends, Finished
  <1>8. CASE Leaves(c)
    BY <1>2, <1>3, <1>5, <1>8, NoCallFields DEF Leaves
  <1>9. CASE Goes(c)
    <2>1. Open(c) /\ Kept(c) /\ Ways(c) /\ Quiet(c) /\ Still
      BY <1>9 DEF Goes
    <2>2. Found(c) /\ r.met \subseteq s.met /\ s.op = r.op /\ s.conn = r.conn /\ s.given = r.given
      BY <2>1 DEF FoundInv, Kept
    <2>3. ~(r.at = "saved" /\ r.op = "workspace_delete")
      BY <2>1 DEF Ways
    <2>4. s.op # "workspace_create" => workspace' \/ "delete" \in s.met
      BY <1>3, <2>1, <2>2, <2>3 DEF Found
    <2>5. s.op \in OnRow => conn'[s.conn].exists \/ "delete" \in s.met
      <3>1. r.op \in OnRow => conn[r.conn].exists \/ "delete" \in r.met
        BY <2>1, <2>2 DEF Found, Ways
      <3> QED
        BY <2>1, <2>2, <3>1 DEF Still
    <2>6. s.at \in {"collected", "sweeping"} =>
              Rows' \subseteq s.swept \/ "connection" \in s.met
      BY <1>3, <2>1, <2>2 DEF Found, Ways
    <2>7. s.at = "named" => Slug(call[c])' \notin Slugs'
      BY <1>3, <2>1, <2>2 DEF Ways, Slug
    <2>8. Found(c)'
      BY <2>4, <2>5, <2>6, <2>7 DEF Found
    <2> QED
      BY <1>2, <1>3, <2>1, <2>8
  <1>10. CASE Saves(c)
    <2>1. /\ s.at = "saved" /\ s.op = "jira_connection_test" /\ r.op = s.op /\ s.conn = r.conn
          /\ r.conn \in Conns /\ conn[r.conn].exists /\ r.at = "verified" /\ s.met = r.met
          /\ workspace' = workspace /\ made' = made /\ Quiet(c)
      BY <1>10 DEF Saves, Kept
    <2>2. Rows' = Rows /\ \A k \in Conns : conn'[k].exists = conn[k].exists
      BY <1>10, RowsSaved
    <2>3. workspace \/ "delete" \in r.met
      BY <2>1 DEF FoundInv, Found, Open
    <2>4. Found(c)'
      BY <2>1, <2>2, <2>3 DEF Found
    <2> QED
      BY <1>2, <2>1, <2>2, <2>4
  <1>11. ASSUME NEW event, Heard(c, event), Found(c)',
                \A d \in Calls \ {c} :
                    /\ Open(d) => /\ workspace' = workspace \/ event = "delete"
                                  /\ \/ \A k \in Conns : conn[k].exists => conn'[k].exists
                                     \/ event = "delete"
                                  /\ Rows' \subseteq Rows \/ event = "connection"
                                  /\ Slugs' \subseteq Slugs \/ event = "workspace"
         PROVE  FoundInv'
    <2> SUFFICES ASSUME NEW d \in Calls, d # c, Open(d)' PROVE Found(d)'
      BY <1>11 DEF FoundInv, Found, Open
    <2>1. /\ call'[d].at = call[d].at /\ call'[d].op = call[d].op
          /\ call'[d].conn = call[d].conn /\ call'[d].swept = call[d].swept
          /\ call'[d].given = call[d].given /\ call'[d].tried = call[d].tried
      BY <1>11, HeardFields DEF CallFields
    <2>2. Open(d)
      BY <2>1 DEF Open
    <2>3. call'[d].met = call[d].met \cup {event}
      BY <1>11, <2>2, HeardFields
    <2>4. Found(d) /\ StageOf(d, call[d])
      BY DEF FoundInv, StageInv
    <2>5. call[d].op \in OnRow => call[d].conn \in Conns
      BY <2>2, <2>4 DEF StageOf, Open, Asked, About, OnConnection
    <2>6. Slug(call[d])' = Slug(call[d])
      BY <2>1 DEF Slug
    <2> QED
      BY <1>11, <2>1, <2>2, <2>3, <2>4, <2>5, <2>6 DEF Found
  <1>12. CASE Makes(c)
    <2>1. workspace' = workspace /\ Rows' = Rows /\ conn' = conn /\ Heard(c, "workspace")
          /\ s.at = "answered"
      BY <1>12 DEF Makes, Rows, Finished
    <2> QED
      BY <1>5, <1>11, <2>1
  <1>13. CASE Adds(c)
    <2>1. /\ workspace' = workspace /\ made' = made /\ Heard(c, "connection")
          /\ s.at = "answered"
      BY <1>13 DEF Adds, Finished
    <2>2. Slugs' = Slugs
      BY <2>1 DEF Slugs
    <2>3. \A k \in Conns : conn[k].exists => conn'[k].exists
      BY <1>13, RowsAdded
    <2> QED
      BY <1>5, <1>11, <2>1, <2>2, <2>3
  <1>14. CASE Edits(c)
    <2>1. /\ workspace' = workspace /\ made' = made /\ Heard(c, "edit")
          /\ s.at = "answered"
      BY <1>14 DEF Edits, Finished
    <2>2. Slugs' = Slugs
      BY <2>1 DEF Slugs
    <2>3. Rows' = Rows /\ \A k \in Conns : conn[k].exists => conn'[k].exists
      BY <1>14, RowsEdited
    <2> QED
      BY <1>5, <1>11, <2>1, <2>2, <2>3
  <1>15. CASE Deletes(c)
    <2>1. /\ workspace' = FALSE /\ made' = made /\ Heard(c, "delete")
          /\ s.at = "saved" /\ s.op = "workspace_delete"
      BY <1>15 DEF Deletes, Kept
    <2>2. Slugs' \subseteq Slugs
      BY <2>1 DEF Slugs
    <2>3. Rows' = {}
      BY <1>15, RowsDeleted
    <2>4. Found(c)'
      BY <2>1 DEF Found, OnRow
    <2> QED
      BY <1>11, <2>1, <2>2, <2>3, <2>4
  <1> QED
    BY <1>6, <1>7, <1>8, <1>9, <1>10, <1>12, <1>13, <1>14, <1>15 DEF Kinds

-----------------------------------------------------------------------------
(* New connections.                                                         *)

\* A call that has not created its connection has none.
FreshInv ==
    \A c \in Calls :
        call[c].at = "idle" \/ (Open(c) /\ call[c].op = "jira_connection_create") =>
            ~conn[c].exists

LEMMA FreshStays ==
    ASSUME RecordInv, StageInv, FreshInv, NEW c \in Calls, Kinds(c)
    PROVE  FreshInv'
  <1> DEFINE s == call'[c]
  <1>1. Others(c)
    BY StructureStays
  <1>2. \A d \in Calls \ {c} : call'[d].at = call[d].at /\ call'[d].op = call[d].op
    BY <1>1, OthersWrite
  <1>3. \A d \in Calls : d \in Conns
    BY DEF Conns
  <1>4. ASSUME \A k \in Conns : conn'[k].exists = conn[k].exists,
               \/ s.at \in {"answered", "ended"}
               \/ call[c].at = "idle"
               \/ Open(c) /\ call'[c].op = call[c].op /\ s.at # "idle"
        PROVE  FreshInv'
    BY <1>2, <1>3, <1>4 DEF FreshInv, Open
  <1>5. CASE Begins(c)
    BY <1>4, <1>5, Begun DEF Still
  <1>6. CASE Closes(c)
    BY <1>4, <1>6 DEF Closes, Ends, Finished, Still
  <1>7. CASE Leaves(c)
    BY <1>4, <1>7, NoCallFields DEF Leaves, Still
  <1>8. CASE Goes(c)
    BY <1>4, <1>8 DEF Goes, Kept, Still, InStage, OpenStages
  <1>9. CASE Makes(c)
    BY <1>4, <1>9 DEF Makes, Finished
  <1>10. CASE Edits(c)
    BY <1>4, <1>10, RowsEdited DEF Edits, Finished
  <1>11. CASE Saves(c)
    BY <1>4, <1>11, RowsSaved DEF Saves, Kept, Open
  <1>12. CASE Adds(c)
    <2>1. s.at = "answered" /\ \A k \in Conns \ {c} : conn'[k] = conn[k]
      BY <1>12, RowsAdded DEF Adds, Finished
    <2> QED
      BY <1>2, <1>3, <2>1 DEF FreshInv, Open
  <1>13. CASE Deletes(c)
    BY <1>3, <1>13, RowsDeleted DEF FreshInv
  <1> QED
    BY <1>5, <1>6, <1>7, <1>8, <1>9, <1>10, <1>11, <1>12, <1>13 DEF Kinds

-----------------------------------------------------------------------------
(* Verdicts.                                                                *)

\* TestAnswerIsStored, from the statement that saves the verdict on.
Judged(c) ==
    /\ call[c].op = "jira_connection_test"
    /\ call[c].at = "saved" \/ (call[c].at = "answered" /\ call[c].answer.status = 200)

Stored(c) ==
    conn[call[c].conn].verdict.by # c \/ conn[call[c].conn].verdict = Verdict(c)

VerdictInv == \A c \in Calls : Judged(c) => Stored(c)

LEMMA VerdictsStay ==
    ASSUME RecordInv, StageInv, VerdictInv, NEW c \in Calls, Kinds(c)
    PROVE  VerdictInv'
  <1> DEFINE r == call[c]
             s == call'[c]
  <1>1. Others(c) /\ StageInv'
    BY StructureStays
  <1>4. \A d \in Calls \ {c} : /\ Judged(d)' = Judged(d) /\ Verdict(d)' = Verdict(d)
                               /\ call'[d].conn = call[d].conn
    <2>1. \A d \in Calls \ {c} : \A f \in CallFields \ {"met", "promise"} :
              call'[d][f] = call[d][f]
      BY <1>1 DEF Others
    <2>2. \A d \in Calls \ {c} :
              /\ call'[d].op = call[d].op /\ call'[d].at = call[d].at
              /\ call'[d].answer = call[d].answer /\ call'[d].said = call[d].said
              /\ call'[d].conn = call[d].conn
      BY <2>1 DEF CallFields
    <2> QED
      BY <2>2 DEF Verdict, Judged
  <1>5. \A d \in Calls : Judged(d) => call[d].conn \in Conns
    BY DEF Judged, StageInv, StageOf, OpenStages, Asked, About, OnConnection, OnRow
  <1>6. Unknown.by = "none"
    BY DEF Unknown
  <1>7. ASSUME \A k \in Conns : \/ conn'[k].verdict = conn[k].verdict
                                \/ conn'[k].verdict = Unknown
                                \/ conn'[k].verdict.by = c,
               Judged(c)' => Stored(c)'
        PROVE  VerdictInv'
    <2>1. ASSUME NEW d \in Calls \ {c}, Judged(d)'
          PROVE  Stored(d)'
      <3>1. Judged(d) /\ call'[d].conn = call[d].conn /\ Verdict(d)' = Verdict(d)
        BY <1>4, <2>1
      <3>2. Stored(d) /\ call[d].conn \in Conns
        BY <1>5, <3>1 DEF VerdictInv
      <3>3. d # "none" /\ d # c
        BY NoneAssumption
      <3> QED
        BY <1>6, <1>7, <3>1, <3>2, <3>3 DEF Stored
    <2> QED
      BY <1>7, <2>1 DEF VerdictInv
  <1>8. ASSUME s.op # "jira_connection_test" \/ s.at \notin {"saved", "answered"}
        PROVE  ~Judged(c)'
    BY <1>8 DEF Judged
  <1>9. CASE Begins(c)
    <2>1. ~Judged(c)'
      BY <1>9, Begun DEF Judged
    <2> QED
      BY <1>7, <1>9, <2>1, Begun DEF Still
  <1>10. CASE Closes(c)
    <2>1. Still /\ Open(c)
      BY <1>10 DEF Closes
    <2>2. PICK answer, M : Ends(c, answer, M) /\ Reason(c, answer, M)
      BY <1>10 DEF Closes
    <2>3. s.op = r.op /\ s.conn = r.conn /\ s.said = r.said /\ s.answer = answer
      BY <2>2 DEF Ends, Finished
    <2>4. ASSUME Judged(c)'
          PROVE  Stored(c)'
      <3>1. s.op = "jira_connection_test" /\ (s.at = "saved" \/ s.answer.status = 200)
        BY <2>4 DEF Judged
      <3>2. s.at = "answered"
        BY <2>2 DEF Ends, Finished
      <3>3. r.op = "jira_connection_test" /\ answer.status = 200
        BY <2>3, <3>1, <3>2
      <3>4. ~Refused(c, answer) /\ answer # ServerError
        BY <3>3, Handled DEF Refused
      <3>5. Succeeds(c, answer)
        BY <2>2, <3>4 DEF Reason, Surprised
      <3>6. r.at = "saved"
        BY <3>3, <3>5 DEF Succeeds
      <3>7. Stored(c)
        BY <3>3, <3>6 DEF VerdictInv, Judged
      <3>8. Verdict(c)' = Verdict(c)
        BY <2>3 DEF Verdict
      <3> QED
        BY <2>1, <2>3, <3>7, <3>8 DEF Still, Stored
    <2> QED
      BY <1>7, <2>1, <2>4 DEF Still
  <1>11. CASE Leaves(c)
    <2>1. s.at = "ended"
      BY <1>11, NoCallFields DEF Leaves
    <2> QED
      BY <1>7, <1>8, <1>11, <2>1 DEF Leaves, Still
  <1>12. CASE Goes(c)
    <2>1. s.op # "jira_connection_test" \/ s.at # "saved"
      BY <1>12 DEF Goes, Ways, Kept
    <2>2. s.at # "answered"
      BY <1>12 DEF Goes, InStage, OpenStages
    <2> QED
      BY <1>7, <1>8, <1>12, <2>1, <2>2 DEF Goes, Still
  <1>13. CASE Saves(c)
    <2>1. conn'[r.conn].verdict = Verdict(c) /\ \A k \in Conns \ {r.conn} : conn'[k] = conn[k]
      BY <1>13, RowsSaved
    <2>2. Verdict(c)' = Verdict(c) /\ s.conn = r.conn
      BY <1>13 DEF Saves, Kept, Verdict
    <2>3. Verdict(c).by = c
      BY DEF Verdict
    <2> QED
      BY <1>7, <2>1, <2>2, <2>3 DEF Stored
  <1>14. CASE Makes(c)
    <2>1. s.op = "workspace_create" /\ conn' = conn
      BY <1>14 DEF Makes, Finished
    <2> QED
      BY <1>7, <1>8, <2>1
  <1>15. CASE Adds(c)
    <2>1. s.op = "jira_connection_create"
      BY <1>15 DEF Adds, Finished
    <2> QED
      BY <1>7, <1>8, <1>15, <2>1, RowsAdded
  <1>16. CASE Edits(c)
    <2>1. s.op \in {"jira_connection_update", "jira_connection_deactivate"}
      BY <1>16 DEF Edits, Finished
    <2> QED
      BY <1>7, <1>8, <1>16, <2>1, RowsEdited
  <1>17. CASE Deletes(c)
    <2>1. s.op = "workspace_delete"
      BY <1>17 DEF Deletes, Kept
    <2> QED
      BY <1>7, <1>8, <1>17, <2>1, RowsDeleted
  <1> QED
    BY <1>9, <1>10, <1>11, <1>12, <1>13, <1>14, <1>15, <1>16, <1>17 DEF Kinds

-----------------------------------------------------------------------------
(* Promises.                                                                *)

\* As long as a call has met nothing, what it was promised is what the state
\* promises.
Meant(c) ==
    IF call[c].at = "saved" /\ call[c].op = "workspace_delete" THEN {204}
    ELSE Promised(call[c])

PromiseInv ==
    \A c \in Calls : Open(c) /\ call[c].met = {} => call[c].promise = Meant(c)

LEMMA MeantStays ==
    ASSUME RecordInv, StageInv, NEW c \in Calls, Open(c),
           call'[c].op = call[c].op, call'[c].role = call[c].role,
           call'[c].body = call[c].body, call'[c].given = call[c].given,
           call'[c].conn = call[c].conn,
           workspace' = workspace, Rows' = Rows,
           \A k \in Conns : conn'[k].exists = conn[k].exists /\ conn'[k].name = conn[k].name
    PROVE  Promised(call[c])' = Promised(call[c])
  <1>1. About(c, call[c])
    BY DEF StageInv, StageOf, Open, Asked
  <1>2. NameTaken(call[c])' = NameTaken(call[c])
    BY DEF NameTaken, Rows
  <1>3. call[c].op \in ConnectionOps \ {"jira_connection_list", "jira_connection_create"} =>
            conn'[call[c].conn].exists = conn[call[c].conn].exists
    BY <1>1 DEF About, ConnectionOps, OnConnection, OnRow
  <1>4. \A s : Refusable(call[c], s)' = Refusable(call[c], s)
    BY <1>2, <1>3 DEF Refusable
  <1> QED
    BY <1>4 DEF Promised

LEMMA PromisesStay ==
    ASSUME RecordInv, StageInv, FoundInv, PromiseInv, NEW c \in Calls, Kinds(c)
    PROVE  PromiseInv'
  <1> DEFINE r == call[c]
             s == call'[c]
  <1>1. StageInv'
    BY StructureStays
  <1>2. ASSUME NEW event, Heard(c, event), Open(c)' /\ s.met = {} => s.promise = Meant(c)'
        PROVE  PromiseInv'
    <2>1. ASSUME NEW d \in Calls \ {c}, Open(d)'
          PROVE  call'[d].met # {}
      <3>1. Open(d)
        BY <1>2, <2>1, HeardFields DEF Open
      <3> QED
        BY <1>2, <3>1, HeardFields
    <2> QED
      BY <1>2, <2>1 DEF PromiseInv
  <1>3. ASSUME Quiet(c), workspace' = workspace, Rows' = Rows,
               \A k \in Conns : conn'[k].exists = conn[k].exists /\ conn'[k].name = conn[k].name,
               Open(c)' /\ s.met = {} => s.promise = Meant(c)'
        PROVE  PromiseInv'
    <2> SUFFICES ASSUME NEW d \in Calls, d # c, Open(d)', call'[d].met = {}
                 PROVE  call'[d].promise = Meant(d)'
      BY <1>3 DEF PromiseInv
    <2>1. call'[d] = call[d]
      BY <1>3 DEF Quiet
    <2>2. Open(d) /\ call[d].promise = Meant(d)
      BY <2>1 DEF PromiseInv, Open
    <2>3. Promised(call[d])' = Promised(call[d])
      BY <1>3, <2>1, <2>2, MeantStays
    <2> QED
      BY <2>1, <2>2, <2>3 DEF Meant
  <1>4. ASSUME Still
        PROVE  /\ workspace' = workspace /\ Rows' = Rows
               /\ \A k \in Conns : /\ conn'[k].exists = conn[k].exists
                                   /\ conn'[k].name = conn[k].name
    BY <1>4 DEF Still, Rows
  <1>5. CASE Begins(c)
    <2>1. s.at # "answered" => s.promise = Promised(s) /\ s.at \in {"naming", "found"}
      BY <1>5, Begun
    <2>2. Still
      BY <1>5, Begun
    <2>3. Promised(call[c])' = Promised(s)
      <3>1. \A status : Refusable(call[c], status)' = Refusable(s, status)
        BY <2>2 DEF Refusable, NameTaken, Still, Rows
      <3> QED
        BY <3>1 DEF Promised
    <2>4. Open(c)' => s.promise = Meant(c)'
      BY <2>1, <2>3 DEF Meant, Open
    <2> QED
      BY <1>3, <1>4, <1>5, <2>4, Begun
  <1>6. CASE Closes(c)
    <2>1. ~Open(c)'
      BY <1>6 DEF Closes, Ends, Finished, Open
    <2> QED
      BY <1>3, <1>4, <1>6, <2>1 DEF Closes, Ends
  <1>7. CASE Leaves(c)
    <2>1. ~Open(c)'
      BY <1>7, NoCallFields DEF Leaves, Open
    <2> QED
      BY <1>3, <1>4, <1>7, <2>1 DEF Leaves
  <1>8. CASE Goes(c)
    <2>1. Open(c) /\ Kept(c) /\ Ways(c) /\ Quiet(c) /\ Still
      BY <1>8 DEF Goes
    <2>2. Promised(call[c])' = Promised(call[c])
      BY <1>4, <2>1, MeantStays DEF Kept
    <2>3. ASSUME s.met = {}
          PROVE  s.promise = Meant(c)'
      <3>1. r.met = {} /\ s.promise = r.promise /\ s.op = r.op
        BY <2>1, <2>3 DEF Kept
      <3>2. r.promise = Promised(r)
        BY <2>1, <3>1 DEF PromiseInv, Meant, Ways
      <3>3. ~(s.at = "saved" /\ s.op = "workspace_delete")
        BY <2>1, <3>1 DEF Ways
      <3> QED
        BY <2>2, <3>1, <3>2, <3>3 DEF Meant
    <2> QED
      BY <1>3, <1>4, <2>1, <2>3
  <1>9. CASE Saves(c)
    <2>1. /\ Open(c) /\ Kept(c) /\ Quiet(c) /\ workspace' = workspace
          /\ s.op = "jira_connection_test" /\ r.op = "jira_connection_test" /\ s.met = r.met
      BY <1>9 DEF Saves, Kept, Open
    <2>2. /\ Rows' = Rows
          /\ \A k \in Conns : conn'[k].exists = conn[k].exists /\ conn'[k].name = conn[k].name
      BY <1>9, RowsSaved DEF Fields
    <2>3. Promised(call[c])' = Promised(call[c])
      BY <2>1, <2>2, MeantStays DEF Kept
    <2>4. ASSUME s.met = {}
          PROVE  s.promise = Meant(c)'
      <3>1. s.promise = r.promise /\ r.promise = Promised(r)
        BY <2>1, <2>4 DEF Kept, PromiseInv, Meant
      <3> QED
        BY <2>1, <2>3, <3>1 DEF Meant
    <2> QED
      BY <1>3, <2>1, <2>2, <2>4
  <1>10. CASE Makes(c)
    BY <1>2, <1>10 DEF Makes, Finished, Open
  <1>11. CASE Adds(c)
    BY <1>2, <1>11 DEF Adds, Finished, Open
  <1>12. CASE Edits(c)
    BY <1>2, <1>12 DEF Edits, Finished, Open
  <1>13. CASE Deletes(c)
    <2>1. /\ r.op = "workspace_delete" /\ r.at = "sweeping" /\ Open(c)
          /\ s.met = r.met /\ s.promise = r.promise
          /\ s.at = "saved" /\ s.op = "workspace_delete" /\ Heard(c, "delete")
      BY <1>13 DEF Deletes, Kept, Open
    <2>2. ASSUME s.met = {}
          PROVE  s.promise = {204}
      <3>1. r.promise = Promised(r)
        BY <2>1, <2>2 DEF PromiseInv, Meant
      <3>2. workspace
        BY <2>1, <2>2 DEF FoundInv, Found
      <3>3. r.role = "owner" /\ r.body \in {"valid"}
        BY <2>1 DEF StageInv, StageOf, OpenStages, InStage, Admission, Asked, BodiesOf
      <3>4. \A status : ~Refusable(r, status)
        BY <2>1, <3>2, <3>3 DEF Refusable, ConnectionOps, NeedsAdmin, OnRow
      <3>5. Promised(r) = {204}
        BY <2>1, <3>4, PromisedReasons DEF SuccessStatus
      <3> QED
        BY <2>1, <3>1, <3>5
    <2>3. Open(c)' /\ s.met = {} => s.promise = Meant(c)'
      BY <2>1, <2>2 DEF Meant
    <2> QED
      BY <1>2, <2>1, <2>3
  <1> QED
    BY <1>5, <1>6, <1>7, <1>8, <1>9, <1>10, <1>11, <1>12, <1>13 DEF Kinds

-----------------------------------------------------------------------------
(* Answers.                                                                 *)

\* What lets a call succeed is what leaves no reason to refuse it.
LEMMA NothingRefused ==
    ASSUME StageInv, NEW c \in Calls, Open(c), call[c].met = {}, call[c].promise = Meant(c),
           Found(c), call[c].at \in {"found", "written", "saved"},
           call[c].at = "found" =>
               \/ call[c].op \in {"workspace_members_list", "jira_connection_list"}
               \/ call[c].op = "jira_connection_get" /\ conn[call[c].conn].exists,
           ~NameTaken(call[c])
    PROVE  call[c].promise = {SuccessStatus(call[c].op)}
  <1> DEFINE r == call[c]
  <1>1. InStage(r) /\ Asked(c, r)
    BY DEF StageInv, StageOf, Open
  <1>2. CASE r.at = "saved" /\ r.op = "workspace_delete"
    BY <1>2 DEF Meant, SuccessStatus
  <1>3. CASE ~(r.at = "saved" /\ r.op = "workspace_delete")
    <2>1. r.body # "invalid"
      <3>1. CASE r.at = "found"
        <4>1. r.body \in {"valid"}
          BY <1>1, <3>1 DEF Asked, BodiesOf
        <4> QED
          BY <4>1
      <3>2. CASE r.at # "found"
        BY <1>1, <3>2 DEF InStage, Admission
      <3> QED
        BY <3>1, <3>2
    <2>2. r.op # "workspace_create" => workspace /\ r.role # "stranger"
      BY <1>1, <1>3 DEF Found, InStage, Admission
    <2>3. r.op \in NeedsAdmin => r.role \in {"owner", "admin"}
      <3>1. CASE r.at = "found"
        BY <3>1 DEF NeedsAdmin
      <3>2. CASE r.at # "found"
        BY <1>1, <3>2 DEF InStage, Admission
      <3> QED
        BY <3>1, <3>2
    <2>4. r.op # "workspace_delete"
      <3>1. CASE r.at = "found"
        BY <3>1
      <3>2. CASE r.at # "found"
        BY <1>1, <1>3, <3>2 DEF InStage, Stage
      <3> QED
        BY <3>1, <3>2
    <2>5. r.op \in OnRow \cup {"jira_connection_get"} => conn[r.conn].exists
      <3>1. CASE r.at = "found"
        BY <3>1 DEF OnRow
      <3>2. CASE r.at # "found"
        BY <1>1, <3>2 DEF InStage, Stage, Found, OnRow
      <3> QED
        BY <3>1, <3>2
    <2>6. ConnectionOps \ {"jira_connection_list", "jira_connection_create"}
              = OnRow \cup {"jira_connection_get"}
      BY DEF ConnectionOps, OnRow
    <2>7. \A status : ~Refusable(r, status)
      BY <2>1, <2>2, <2>3, <2>4, <2>5, <2>6 DEF Refusable
    <2>8. Promised(r) = {SuccessStatus(r.op)}
      BY <2>7, PromisedReasons
    <2> QED
      BY <1>3, <2>8 DEF Meant
  <1> QED
    BY <1>2, <1>3

\* An answer that surprises follows an event.
LEMMA SurpriseMet ==
    ASSUME StageInv, NEW c \in Calls, Open(c), Found(c), NEW answer, Surprised(c, answer)
    PROVE  LET r == call[c] IN
           \/ "workspace" \in r.met /\ r.op = "workspace_create"
           \/ "delete" \in r.met /\ r.op \in NeedsAdmin
           \/ "connection" \in r.met /\ r.op = "workspace_delete"
  <1> DEFINE r == call[c]
  <1>1. InStage(r)
    BY DEF StageInv, StageOf, Open
  <1>2. CASE r.at = "named" /\ Slug(r) \in Slugs
    BY <1>1, <1>2 DEF Found, InStage, Stage
  <1>3. CASE r.op \in NeedsAdmin /\ ~workspace
    BY <1>3 DEF Found, NeedsAdmin
  <1>4. CASE r.op \in OnRow /\ r.at # "found" /\ ~conn[r.conn].exists
    BY <1>4 DEF Found, NeedsAdmin, OnRow
  <1>5. CASE /\ r.at = "sweeping" /\ r.swept \cap Rows \subseteq r.held
             /\ ~(Rows \subseteq r.held)
    BY <1>1, <1>5 DEF Found, InStage, Stage
  <1> QED
    BY <1>2, <1>3, <1>4, <1>5 DEF Surprised

LEMMA PlainNames ==
    ASSUME StageInv, NEW c \in Calls, Open(c),
           call[c].op \in {"workspace_members_list", "workspace_create", "workspace_update",
                           "workspace_delete", "jira_connection_list", "jira_connection_get",
                           "jira_connection_test"}
    PROVE  call[c].op # "workspace_create" => ~NameTaken(call[c])
  <1> SUFFICES ASSUME call[c].op # "workspace_create"
               PROVE  "name" \notin DOMAIN call[c].given
    BY DEF NameTaken
  <1>1. call[c].given \in Given(call[c].op)
    BY DEF StageInv, StageOf, Open, Asked
  <1>2. call[c].given \in {<<>>}
    BY <1>1 DEF Given
  <1>3. call[c].given = <<>>
    BY <1>2
  <1> QED
    BY <1>3

\* The answer keeps the promise of a call that has met nothing.
KeepsPromise(c) ==
    call[c].at = "answered" /\ call[c].met = {} => call[c].answer.status \in call[c].promise

LEMMA AloneStays ==
    ASSUME RecordInv, StageInv, FoundInv, PromiseInv, NameInv, AloneAsPromised,
           NEW c \in Calls, Kinds(c)
    PROVE  AloneAsPromised'
  <1> DEFINE r == call[c]
             s == call'[c]
  <1>1. Others(c)
    BY StructureStays
  <1>2. ASSUME KeepsPromise(c)'
        PROVE  AloneAsPromised'
    <2> SUFFICES ASSUME NEW d \in Calls, d # c PROVE KeepsPromise(d)'
      BY <1>2 DEF AloneAsPromised, KeepsPromise
    <2>1. CASE call'[d] = call[d]
      BY <2>1 DEF AloneAsPromised, KeepsPromise
    <2>2. CASE call'[d] # call[d]
      <3>1. Open(d)
        BY <1>1, <2>2 DEF Others
      <3>2. call'[d].at = call[d].at
        BY <1>1, OthersWrite
      <3> QED
        BY <3>1, <3>2 DEF KeepsPromise, Open
    <2> QED
      BY <2>1, <2>2
  <1>3. ASSUME s.at # "answered"
        PROVE  KeepsPromise(c)'
    BY <1>3 DEF KeepsPromise
  <1>4. Found(c) /\ (Open(c) /\ r.met = {} => r.promise = Meant(c))
    BY DEF FoundInv, PromiseInv
  <1>5. ASSUME Open(c), Finished(c, Success(SuccessStatus(r.op)), {}),
               r.at \in {"found", "written", "saved"},
               r.at = "found" =>
                   \/ r.op \in {"workspace_members_list", "jira_connection_list"}
                   \/ r.op = "jira_connection_get" /\ conn[r.conn].exists,
               r.op # "workspace_create" => ~NameTaken(r)
        PROVE  KeepsPromise(c)'
    <2> SUFFICES ASSUME s.met = {} PROVE s.answer.status \in s.promise
      BY <1>5 DEF KeepsPromise
    <2>1. r.met = {} /\ s.promise = r.promise /\ s.answer.status = SuccessStatus(r.op)
      BY <1>5, Handled DEF Finished
    <2>2. CASE r.op # "workspace_create"
      BY <1>4, <1>5, <2>1, <2>2, NothingRefused
    <2>3. CASE r.op = "workspace_create"
      <3>1. r.at \in {"written"} /\ InStage(r)
        BY <1>5, <2>3 DEF StageInv, StageOf, Open, InStage, Stage
      <3>2. r.body # "invalid"
        BY <3>1, <2>3 DEF InStage, Admission
      <3>3. \A status : ~Refusable(r, status)
        BY <2>3, <3>2 DEF Refusable, ConnectionOps, NeedsAdmin
      <3>4. Promised(r) = {SuccessStatus(r.op)}
        BY <3>3, PromisedReasons
      <3> QED
        BY <1>4, <1>5, <2>1, <2>3, <3>4 DEF Meant
    <2> QED
      BY <2>2, <2>3
  <1>6. CASE Begins(c)
    <2>1. s.at = "answered" => s.answer.status \in s.promise
      BY <1>6, Begun
    <2> QED
      BY <1>2, <2>1 DEF KeepsPromise
  <1>7. CASE Goes(c)
    BY <1>2, <1>3, <1>7 DEF Goes, InStage, OpenStages
  <1>8. CASE Leaves(c)
    BY <1>2, <1>3, <1>8, NoCallFields DEF Leaves
  <1>9. CASE Saves(c) \/ Deletes(c)
    BY <1>2, <1>3, <1>9 DEF Saves, Deletes
  <1>10. CASE Makes(c)
    <2>1. /\ r.op = "workspace_create" /\ r.at = "written" /\ Open(c)
          /\ Finished(c, Success(201), {})
      BY <1>10 DEF Makes, Open
    <2> QED
      BY <1>2, <1>5, <2>1 DEF SuccessStatus
  <1>11. CASE Adds(c)
    <2>1. /\ r.op = "jira_connection_create" /\ r.at = "written" /\ Open(c)
          /\ Finished(c, Success(201), {})
      BY <1>11 DEF Adds, Open
    <2>2. ~NameTaken(r)
      BY <2>1 DEF NameInv, Writes, NameTaken
    <2> QED
      BY <1>2, <1>5, <2>1, <2>2 DEF SuccessStatus
  <1>12. CASE Edits(c)
    <2>1. /\ r.op \in {"jira_connection_update", "jira_connection_deactivate"}
          /\ r.at = "written" /\ Open(c)
          /\ Finished(c, Success(200), {})
      BY <1>12 DEF Edits, Open
    <2>2. Asked(c, r)
      BY <2>1 DEF StageInv, StageOf, Open
    <2>3. r.op = "jira_connection_deactivate" => "name" \notin DOMAIN r.given
      BY <2>1, <2>2, GivenFields DEF ConnectionOps
    <2>4. ~NameTaken(r)
      BY <2>1, <2>3 DEF NameInv, Writes, NameTaken
    <2> QED
      BY <1>2, <1>5, <2>1, <2>4 DEF SuccessStatus
  <1>13. CASE Closes(c)
    <2>1. Open(c)
      BY <1>13 DEF Closes
    <2>2. PICK answer, M : Ends(c, answer, M) /\ Reason(c, answer, M)
      BY <1>13 DEF Closes
    <2>3. Finished(c, answer, M)
      BY <2>2 DEF Ends
    <2>4. CASE M # {}
      BY <1>2, <2>3, <2>4 DEF Finished, KeepsPromise
    <2>5. CASE M = {} /\ Succeeds(c, answer)
      <3>1. /\ answer = Success(SuccessStatus(r.op)) /\ r.at \in {"found", "saved"}
            /\ r.at = "found" =>
                   \/ r.op \in {"workspace_members_list", "jira_connection_list"}
                   \/ r.op = "jira_connection_get" /\ conn[r.conn].exists
        BY <2>5 DEF Succeeds
      <3>2. InStage(r)
        BY <2>1 DEF StageInv, StageOf, Open
      <3>3. r.op # "workspace_create" => ~NameTaken(r)
        BY <2>1, <3>1, <3>2, PlainNames DEF InStage, Stage
      <3> QED
        BY <1>2, <1>5, <2>1, <2>3, <2>5, <3>1, <3>3
    <2>6. CASE M = {} /\ Refused(c, answer)
      <3> SUFFICES ASSUME s.met = {} PROVE s.answer.status \in s.promise
        BY <1>2 DEF KeepsPromise
      <3>1. r.met = {} /\ s.promise = r.promise /\ s.answer = answer
        BY <2>3, <2>6 DEF Finished
      <3>2. ~(r.at = "saved" /\ r.op = "workspace_delete") => r.promise = Promised(r)
        BY <1>4, <2>1, <3>1 DEF Meant
      <3>3. InStage(r)
        BY <2>1 DEF StageInv, StageOf, Open
      <3>4. ~(r.at = "saved" /\ r.op = "workspace_delete")
        BY <2>6, <3>3 DEF Refused, InStage, Admission, OnRow, NeedsAdmin
      <3>5. r.op \in NeedsAdmin => workspace
        BY <1>4, <2>1, <3>1 DEF Found, NeedsAdmin
      <3>6. answer.status \in {400, 403, 404} /\ Refusable(r, answer.status)
        BY <2>6, <3>5, Handled DEF Refused, Refusable, ConnectionOps, OnRow
      <3> QED
        BY <3>1, <3>2, <3>4, <3>6, PromisedReasons
    <2>7. CASE M = {} /\ Surprised(c, answer)
      <3>1. r.met # {}
        BY <1>4, <2>1, <2>7, SurpriseMet
      <3> QED
        BY <1>2, <2>3, <2>7, <3>1 DEF Finished, KeepsPromise
    <2> QED
      BY <2>2, <2>4, <2>5, <2>6, <2>7 DEF Reason
  <1> QED
    BY <1>6, <1>7, <1>8, <1>9, <1>10, <1>11, <1>12, <1>13 DEF Kinds

\* The events that let a call answer 500.
Causes(r) ==
    \/ r.met \cap {"too_long", "fault"} # {}
    \/ "deadlock" \in r.met /\ r.op \in {"workspace_delete", "jira_connection_update"}
    \/ "workspace" \in r.met /\ r.op = "workspace_create"
    \/ "connection" \in r.met /\ r.op = "workspace_delete"
    \/ "delete" \in r.met /\ r.op \in NeedsAdmin

Explained(r) ==
    r.at = "answered" /\ r.answer.status \notin Documented(r.op) =>
        r.answer = ServerError /\ Causes(r)

LEMMA CausesExplain == UndocumentedHasCause <=> \A c \in Calls : Explained(call[c])
  BY DEF UndocumentedHasCause, Explained, Causes, NeedsAdmin

\* A refusal is one the documentation lists.
LEMMA RefusalsListed ==
    ASSUME NEW c \in Calls, NEW answer, Refused(c, answer)
    PROVE  answer.status \in Documented(call[c].op)
  BY Handled DEF Refused, Documented, WorkspaceOps, WorkspaceDocs, ConnectionDocs, NeedsAdmin, OnRow

LEMMA SuccessesListed ==
    ASSUME NEW op \in WorkspaceOps \cup ConnectionOps
    PROVE  SuccessStatus(op) \in Documented(op)
  BY DEF SuccessStatus, Documented, WorkspaceOps, ConnectionOps, WorkspaceDocs, ConnectionDocs

LEMMA CausesStay ==
    ASSUME RecordInv, StageInv, FoundInv, UndocumentedHasCause, NEW c \in Calls, Kinds(c)
    PROVE  UndocumentedHasCause'
  <1> DEFINE r == call[c]
             s == call'[c]
  <1>1. Others(c)
    BY StructureStays
  <1>2. ASSUME Explained(s)
        PROVE  UndocumentedHasCause'
    <2>1. ASSUME NEW d \in Calls, d # c
          PROVE  Explained(call'[d])
      <3>1. CASE call'[d] = call[d]
        BY <3>1, CausesExplain
      <3>2. CASE call'[d] # call[d]
        <4>1. Open(d)
          BY <1>1, <2>1, <3>2 DEF Others
        <4>2. call'[d].at = call[d].at
          BY <1>1, <2>1, OthersWrite
        <4> QED
          BY <4>1, <4>2 DEF Explained, Open
      <3> QED
        BY <3>1, <3>2
    <2>2. \A d \in Calls : Explained(call'[d])
      BY <1>2, <2>1
    <2> QED
      BY <2>2 DEF UndocumentedHasCause, Explained, Causes, NeedsAdmin
  <1>3. ASSUME s.at # "answered"
        PROVE  Explained(s)
    BY <1>3 DEF Explained
  <1>4. ASSUME Open(c), NEW answer, NEW M, Finished(c, answer, M),
               answer.status \in Documented(r.op)
        PROVE  Explained(s)
    BY <1>4 DEF Finished, Explained
  <1>5. ASSUME Open(c)
        PROVE  r.op \in WorkspaceOps \cup ConnectionOps
    BY <1>5 DEF StageInv, StageOf, Open, Asked, About
  <1>6. CASE Begins(c)
    BY <1>2, <1>6, Begun DEF Explained
  <1>7. CASE Goes(c)
    BY <1>2, <1>3, <1>7 DEF Goes, InStage, OpenStages
  <1>8. CASE Leaves(c)
    BY <1>2, <1>3, <1>8, NoCallFields DEF Leaves
  <1>9. CASE Saves(c) \/ Deletes(c)
    BY <1>2, <1>3, <1>9 DEF Saves, Deletes
  <1>10. CASE Makes(c) \/ Adds(c) \/ Edits(c)
    <2>1. /\ Open(c) /\ Finished(c, Success(SuccessStatus(r.op)), {})
      BY <1>10 DEF Makes, Adds, Edits, Open, SuccessStatus
    <2>2. Success(SuccessStatus(r.op)).status \in Documented(r.op)
      BY <1>5, <2>1, Handled, SuccessesListed
    <2> QED
      BY <1>2, <1>4, <2>1, <2>2
  <1>11. CASE Closes(c)
    <2>1. Open(c)
      BY <1>11 DEF Closes
    <2>2. PICK answer, M : Ends(c, answer, M) /\ Reason(c, answer, M)
      BY <1>11 DEF Closes
    <2>3. Finished(c, answer, M)
      BY <2>2 DEF Ends
    <2>4. s.op = r.op /\ s.answer = answer /\ s.met = r.met \cup M
      BY <2>3 DEF Finished
    <2>5. CASE answer = ServerError /\ M \in {{"too_long"}, {"fault"}}
      BY <1>2, <2>4, <2>5 DEF Explained, Causes
    <2>6. CASE /\ answer = ServerError /\ M = {"deadlock"}
               /\ r.op \in {"workspace_delete", "jira_connection_update"}
      BY <1>2, <2>4, <2>6 DEF Explained, Causes
    <2>7. CASE Succeeds(c, answer)
      <3>1. answer.status \in Documented(r.op)
        BY <1>5, <2>1, <2>7, Handled, SuccessesListed DEF Succeeds
      <3> QED
        BY <1>2, <1>4, <2>1, <2>3, <3>1
    <2>8. CASE Refused(c, answer)
      BY <1>2, <1>4, <2>1, <2>3, <2>8, RefusalsListed
    <2>9. CASE Surprised(c, answer)
      <3>1. answer = ServerError
        BY <2>9 DEF Surprised
      <3>2. \/ "workspace" \in r.met /\ r.op = "workspace_create"
            \/ "delete" \in r.met /\ r.op \in NeedsAdmin
            \/ "connection" \in r.met /\ r.op = "workspace_delete"
        BY <2>1, <2>9, SurpriseMet DEF FoundInv
      <3> QED
        BY <1>2, <2>4, <3>1, <3>2 DEF Explained, Causes
    <2> QED
      BY <2>2, <2>5, <2>6, <2>7, <2>8, <2>9 DEF Reason
  <1> QED
    BY <1>6, <1>7, <1>8, <1>9, <1>10, <1>11 DEF Kinds

-----------------------------------------------------------------------------
(* Changes.                                                                 *)

\* Only an UPDATE that is committed changes fields of a row there is.
LEMMA ChangesAreGiven ==
    ASSUME RecordInv, StageInv, FreshInv, NEW c \in Calls, Kinds(c),
           NEW k \in Rows, conn'[k].exists, NEW f \in Fields, conn'[k][f] # conn[k][f]
    PROVE  /\ call[c].conn = k /\ f \in DOMAIN call[c].given
           /\ conn'[k][f] = call[c].given[f] /\ call'[c].answer = Success(200)
  <1>1. k \in Conns /\ conn[k].exists
    BY DEF Rows
  <1>2. conn' # conn
    OBVIOUS
  <1>3. ~Begins(c) /\ ~Goes(c) /\ ~Closes(c) /\ ~Leaves(c) /\ ~Makes(c)
    BY <1>2 DEF Begins, Goes, Closes, Leaves, Makes, Still
  <1>4. ~Saves(c)
    BY <1>1, RowsSaved
  <1>5. ~Deletes(c)
    BY <1>1, RowsDeleted
  <1>6. ~Adds(c)
    <2> SUFFICES ASSUME Adds(c) PROVE FALSE
      OBVIOUS
    <2>1. k = c
      BY <1>1, RowsAdded
    <2>2. Open(c) /\ call[c].op = "jira_connection_create"
      BY DEF Adds, Open
    <2> QED
      BY <1>1, <2>1, <2>2 DEF FreshInv
  <1>7. Edits(c)
    BY <1>3, <1>4, <1>5, <1>6 DEF Kinds
  <1>8. k = call[c].conn
    BY <1>1, <1>7, RowsEdited
  <1>9. f \in DOMAIN call[c].given /\ conn'[k][f] = call[c].given[f]
    BY <1>7, <1>8, RowsEdited
  <1>10. call'[c].answer = Success(200)
    BY <1>7 DEF Edits, Finished
  <1> QED
    BY <1>8, <1>9, <1>10

-----------------------------------------------------------------------------
(* Creating workspaces: the candidates do not run out.                      *)

Making(c) == Open(c) /\ call[c].op = "workspace_create"

\* What the other calls and the workspace may have taken.
Taken(c) == {OwnSlug} \cup {made[d] : d \in Calls \ {c}}

MadeBy(c) ==
    /\ c \in Creators /\ made[c] # TooLong
    /\ \E n \in DOMAIN Candidates : \E i \in DOMAIN Candidates[n] : made[c] = Candidates[n][i]

\* The candidates tried so far are taken.
Tries(c) ==
    LET r == call[c]
        candidates == Candidates[r.given.name]
    IN  /\ r.tried \in DOMAIN candidates
        /\ \A i \in 1 .. (r.tried - 1) : candidates[i] \in Taken(c)
        /\ r.at = "written" => Slug(r) # TooLong

MakingInv ==
    \A c \in Calls :
        /\ made[c] = "none" \/ MadeBy(c)
        /\ call[c].at = "idle" \/ Making(c) => made[c] = "none"
        /\ Making(c) => Tries(c)

LEMMA MakingAsked ==
    ASSUME StageInv, NEW c \in Calls, Making(c)
    PROVE  /\ call[c].given.name \in DOMAIN Candidates /\ c \in Creators
           /\ call[c].at \in {"naming", "named", "written"}
  <1>1. Asked(c, call[c]) /\ InStage(call[c]) /\ call[c].op = "workspace_create"
    BY DEF Making, StageInv, StageOf, Open
  <1>2. call[c].given \in {[name |-> n] : n \in DOMAIN Candidates}
    BY <1>1 DEF Asked, Given
  <1>3. call[c].given.name \in DOMAIN Candidates
    BY <1>2
  <1>4. c \in Creators
    BY <1>1 DEF Asked, Creators
  <1>5. call[c].at \in {"naming", "named", "written"}
    BY <1>1 DEF InStage, Stage, OpenStages, OnRow, NeedsAdmin
  <1> QED
    BY <1>3, <1>4, <1>5

LEMMA CandidatesList ==
    ASSUME NEW n \in DOMAIN Candidates
    PROVE  /\ Len(Candidates[n]) \in Nat \ {0} /\ DOMAIN Candidates[n] = 1 .. Len(Candidates[n])
           /\ \A i \in DOMAIN Candidates[n] : /\ Candidates[n][i] # "none" /\ i \in Nat
                                              /\ 1 .. (i - 1) \subseteq DOMAIN Candidates[n]
           /\ 1 \in DOMAIN Candidates[n] /\ 1 .. (1 - 1) = {}
  <1> DEFINE slugs == {Candidates[n][i] : i \in DOMAIN Candidates[n]}
  <1>1. /\ Len(Candidates[n]) \in Nat \ {0} /\ DOMAIN Candidates[n] = 1 .. Len(Candidates[n])
        /\ "none" \notin slugs
    BY CandidatesAssumption
  <1>2. PICK last \in Nat \ {0} : last = Len(Candidates[n])
    BY <1>1
  <1>3. \A i \in 1 .. last : i \in Nat /\ 1 .. (i - 1) \subseteq 1 .. last
    OBVIOUS
  <1>4. 1 \in 1 .. last /\ 1 .. (1 - 1) = {}
    OBVIOUS
  <1> QED
    BY <1>1, <1>2, <1>3, <1>4

\* There is a candidate after one that is taken.
LEMMA CandidatesLast ==
    ASSUME StageInv, MakingInv, NEW c \in Calls, Making(c), Slug(call[c]) \in Slugs
    PROVE  /\ call[c].tried + 1 \in DOMAIN Candidates[call[c].given.name]
           /\ \A i \in 1 .. call[c].tried : Candidates[call[c].given.name][i] \in Taken(c)
  <1>1. PICK n \in DOMAIN Candidates : n = call[c].given.name
    BY MakingAsked
  <1>2. PICK t \in DOMAIN Candidates[n] : t = call[c].tried
    BY <1>1 DEF MakingInv, Tries
  <1> DEFINE slugs == {Candidates[n][i] : i \in DOMAIN Candidates[n]}
             makers == Creators \ {c}
             others == {made[d] : d \in makers}
             last == Len(Candidates[n])
  <1>3. /\ last \in Nat \ {0} /\ DOMAIN Candidates[n] = 1 .. last /\ "none" \notin slugs
        /\ TooLong \in slugs \/ Cardinality(slugs \ {OwnSlug}) >= Cardinality(Creators)
    BY CandidatesAssumption
  <1>4. \A i \in 1 .. (t - 1) : Candidates[n][i] \in Taken(c)
    BY <1>1, <1>2 DEF MakingInv, Tries
  <1>5. Candidates[n][t] \in Taken(c)
    <2>1. Candidates[n][t] \in Slugs /\ Candidates[n][t] # "none"
      BY <1>1, <1>2, <1>3 DEF Slug
    <2>2. made[c] = "none"
      BY DEF MakingInv
    <2> QED
      BY <2>1, <2>2 DEF Slugs, Taken
  <1>6. \A i \in 1 .. t : Candidates[n][i] \in Taken(c)
    BY <1>2, <1>3, <1>4, <1>5
  <1>7. t # last
    <2> SUFFICES ASSUME t = last PROVE FALSE
      OBVIOUS
    <2>1. slugs \subseteq Taken(c)
      BY <1>3, <1>6
    <2>2. TooLong \notin Taken(c)
      BY CandidatesAssumption DEF Taken, MakingInv, MadeBy
    <2>3. slugs \ {OwnSlug} \subseteq others
      <3> SUFFICES ASSUME NEW x \in slugs, x # OwnSlug PROVE x \in others
        OBVIOUS
      <3>1. PICK d \in Calls \ {c} : x = made[d]
        BY <2>1 DEF Taken
      <3>2. x # "none"
        BY <1>3
      <3>3. d \in makers
        BY <3>1, <3>2 DEF MakingInv, MadeBy
      <3> QED
        BY <3>1, <3>3
    <2>4. IsFiniteSet(Creators)
      BY CandidatesAssumption, FS_Subset DEF Creators
    <2>5. /\ IsFiniteSet(makers) /\ Cardinality(makers) = Cardinality(Creators) - 1
          /\ Cardinality(Creators) \in Nat
      <3>1. c \in Creators
        BY MakingAsked
      <3> QED
        BY <2>4, <3>1, FS_RemoveElement, FS_CardinalityType
    <2>6. IsFiniteSet(others) /\ Cardinality(others) <= Cardinality(makers)
      <3> DEFINE f == [d \in makers |-> made[d]]
      <3>1. f \in Surjection(makers, others)
        BY DEF Surjection
      <3> HIDE DEF f, makers, others
      <3> QED
        BY <2>5, <3>1, FS_Surjection
    <2>7. IsFiniteSet(others) /\ Cardinality(slugs \ {OwnSlug}) <= Cardinality(others)
      <3> HIDE DEF slugs, others
      <3> QED
        BY <2>3, <2>6, FS_Subset
    <2>8. Cardinality(slugs \ {OwnSlug}) >= Cardinality(Creators)
      BY <1>3, <2>1, <2>2
    <2>9. /\ Cardinality(others) \in Nat /\ Cardinality(slugs \ {OwnSlug}) \in Nat
      <3>1. IsFiniteSet(slugs \ {OwnSlug})
        <4> HIDE DEF slugs, others
        <4> QED
          BY <2>3, <2>6, FS_Subset
      <3> QED
        BY <2>6, <3>1, FS_CardinalityType
    <2> QED
      BY <2>5, <2>6, <2>7, <2>8, <2>9
  <1> QED
    BY <1>1, <1>2, <1>3, <1>6, <1>7

LEMMA MakingStays ==
    ASSUME RecordInv, StageInv, MakingInv, NEW c \in Calls, Kinds(c)
    PROVE  MakingInv'
  <1> DEFINE r == call[c]
             s == call'[c]
  <1>1. Others(c)
    BY StructureStays
  <1>2. \A d \in Calls \ {c} :
            /\ call'[d].op = call[d].op /\ call'[d].at = call[d].at
            /\ call'[d].given = call[d].given /\ call'[d].tried = call[d].tried
            /\ Making(d)' = Making(d) /\ Slug(call'[d]) = Slug(call[d])
    BY <1>1, OthersWrite DEF Making, Open, Slug
  <1>3. ASSUME made' = made, s.at # "idle",
               Making(c)' => /\ r.at = "idle" \/ Making(c)
                             /\ Tries(c)'
        PROVE  MakingInv'
    <2>1. \A d \in Calls : Taken(d)' = Taken(d) /\ MadeBy(d)' = MadeBy(d)
      BY <1>3 DEF Taken, MadeBy
    <2>2. ASSUME NEW d \in Calls \ {c}, Making(d)'
          PROVE  Tries(d)'
      BY <1>2, <2>1, <2>2 DEF MakingInv, Tries, Slug
    <2> QED
      BY <1>2, <1>3, <2>1, <2>2 DEF MakingInv
  <1>4. ASSUME s.at \in {"answered", "ended"}
        PROVE  s.at # "idle" /\ ~Making(c)'
    BY <1>4 DEF Making, Open
  <1>5. CASE Begins(c)
    <2>1. /\ Still /\ r.at = "idle" /\ s.at \in {"answered", "naming", "found"}
          /\ s.at = "naming" => s.tried = 1
      BY <1>5, Begun
    <2>2. StageInv'
      BY StructureStays
    <2>3. ASSUME Making(c)'
          PROVE  Tries(c)'
      <3>1. s.at = "naming" /\ s.given.name \in DOMAIN Candidates
        <4>1. Open(c)' /\ s.op = "workspace_create"
          BY <2>3 DEF Making
        <4>2. Asked(c, s) /\ InStage(s)
          BY <2>2, <4>1 DEF StageInv, StageOf, Open
        <4>3. s.at = "naming"
          BY <2>1, <4>1, <4>2 DEF Open, InStage, Stage
        <4>4. s.given \in {[name |-> n] : n \in DOMAIN Candidates}
          BY <4>1, <4>2 DEF Asked, Given
        <4> QED
          BY <4>3, <4>4
      <3>2. PICK n \in DOMAIN Candidates : n = s.given.name
        BY <3>1
      <3>3. 1 \in DOMAIN Candidates[n] /\ 1 .. (1 - 1) = {}
        BY CandidatesList
      <3> QED
        BY <2>1, <3>1, <3>2, <3>3 DEF Tries
    <2> QED
      BY <1>3, <2>1, <2>3 DEF Still
  <1>6. CASE Closes(c)
    BY <1>3, <1>4, <1>6 DEF Closes, Ends, Finished, Still
  <1>7. CASE Leaves(c)
    BY <1>3, <1>4, <1>7, NoCallFields DEF Leaves, Still
  <1>8. CASE Goes(c)
    <2>1. Open(c) /\ Kept(c) /\ Ways(c) /\ Still /\ s.at # "idle"
      BY <1>8 DEF Goes, InStage, OpenStages
    <2>2. s.op = r.op /\ s.given = r.given
      BY <2>1 DEF Kept
    <2>3. ASSUME Making(c)'
          PROVE  Making(c) /\ Tries(c)'
      <3>1. Making(c)
        BY <2>1, <2>2, <2>3 DEF Making
      <3>2. Tries(c) /\ Taken(c)' = Taken(c)
        BY <2>1, <3>1 DEF MakingInv, Taken, Still
      <3>3. s.at \in {"naming", "named", "written"}
        BY <1>8, <2>2, <3>1 DEF Goes, InStage, Stage, OpenStages, OnRow, NeedsAdmin, Making
      <3>4. CASE s.at = "naming"
        <4>1. s.tried = r.tried + 1 /\ Slug(r) \in Slugs
          BY <2>1, <3>4 DEF Ways
        <4>2. /\ r.tried + 1 \in DOMAIN Candidates[r.given.name]
              /\ \A i \in 1 .. r.tried : Candidates[r.given.name][i] \in Taken(c)
          BY <3>1, <4>1, CandidatesLast
        <4>3. r.given.name \in DOMAIN Candidates
          BY <3>1, MakingAsked
        <4>4. r.tried \in Nat
          BY <3>2, <4>3, CandidatesList DEF Tries
        <4>5. 1 .. (s.tried - 1) = 1 .. r.tried
          <5>1. PICK t \in Nat : t = r.tried
            BY <4>4
          <5>2. s.tried - 1 = t
            BY <4>1, <5>1
          <5> QED
            BY <5>1, <5>2
        <4>6. s.tried \in DOMAIN Candidates[s.given.name]
          BY <2>2, <4>1, <4>2
        <4>7. \A i \in 1 .. (s.tried - 1) : Candidates[s.given.name][i] \in Taken(c)'
          BY <2>2, <3>2, <4>2, <4>5
        <4> QED
          BY <3>1, <3>4, <4>6, <4>7 DEF Tries
      <3>5. CASE s.at = "named"
        <4>1. s.tried = r.tried
          BY <2>1, <3>5 DEF Ways
        <4> QED
          BY <2>2, <3>1, <3>2, <3>5, <4>1 DEF Tries
      <3>6. CASE s.at = "written"
        <4>1. s.tried = r.tried /\ Slug(r) # TooLong
          BY <2>1, <2>2, <3>1, <3>6 DEF Ways, Making
        <4> QED
          BY <2>2, <3>1, <3>2, <3>6, <4>1 DEF Tries, Slug
      <3> QED
        BY <3>1, <3>3, <3>4, <3>5, <3>6
    <2> QED
      BY <1>3, <2>1, <2>3 DEF Still
  <1>9. CASE Adds(c) \/ Edits(c)
    BY <1>3, <1>4, <1>9 DEF Adds, Edits, Finished
  <1>10. CASE Saves(c) \/ Deletes(c)
    <2>1. made' = made /\ s.at = "saved" /\ s.op # "workspace_create"
      BY <1>10 DEF Saves, Deletes, Kept
    <2> QED
      BY <1>3, <2>1 DEF Making
  <1>11. CASE Makes(c)
    <2>1. /\ made' = [made EXCEPT ![c] = Slug(r)] /\ s.at = "answered"
          /\ r.op = "workspace_create" /\ r.at = "written"
      BY <1>11 DEF Makes, Finished
    <2>2. ~Making(c)' /\ Making(c)
      BY <1>4, <2>1 DEF Making, Open
    <2>3. made'[c] = Slug(r) /\ \A d \in Calls \ {c} : made'[d] = made[d]
      BY <2>1 DEF RecordInv
    <2>4. MadeBy(c)'
      <3>1. Tries(c) /\ c \in Creators /\ r.given.name \in DOMAIN Candidates
        BY <2>2, MakingAsked DEF MakingInv
      <3> QED
        BY <2>1, <2>3, <3>1 DEF MadeBy, Tries, Slug
    <2>5. ASSUME NEW d \in Calls \ {c}, Making(d)
          PROVE  Tries(d)'
      <3>1. Tries(d) /\ made[c] = "none"
        BY <2>2, <2>5 DEF MakingInv
      <3>2. PICK n \in DOMAIN Candidates : n = call[d].given.name
        BY <2>5, MakingAsked
      <3>3. PICK t \in DOMAIN Candidates[n] : t = call[d].tried
        BY <3>1, <3>2 DEF Tries
      <3>4. \A i \in 1 .. (t - 1) : Candidates[n][i] \in Taken(d) /\ Candidates[n][i] # "none"
        BY <3>1, <3>2, <3>3, CandidatesList DEF Tries
      <3>5. \A x : x \in Taken(d) /\ x # "none" => x \in Taken(d)'
        BY <2>3, <3>1 DEF Taken
      <3> QED
        BY <1>2, <3>1, <3>2, <3>3, <3>4, <3>5 DEF Tries
    <2>6. \A d \in Calls \ {c} : MadeBy(d)' = MadeBy(d)
      BY <2>3 DEF MadeBy
    <2> QED
      BY <1>2, <2>1, <2>2, <2>3, <2>4, <2>5, <2>6 DEF MakingInv
  <1> QED
    BY <1>5, <1>6, <1>7, <1>8, <1>9, <1>10, <1>11 DEF Kinds

-----------------------------------------------------------------------------
(* Events, answers and rows.                                                *)

ValueInv ==
    /\ workspace \in BOOLEAN
    /\ \A c \in Calls : call[c].met \subseteq Events
    /\ \A k \in Conns : /\ conn[k].verdict.status \in {"unknown", "success", "failed"}
                        /\ conn[k].exists \/ conn[k] = NoRow

LEMMA ValuesStay ==
    ASSUME RecordInv, StageInv, LockInv, ValueInv, NEW c \in Calls, Kinds(c)
    PROVE  ValueInv'
  <1> DEFINE r == call[c]
             s == call'[c]
  <1>1. Unknown.status = "unknown"
    BY DEF Unknown
  <1>2. ASSUME Quiet(c), s.met \subseteq Events, workspace' = workspace, conn' = conn
        PROVE  ValueInv'
    BY <1>2 DEF ValueInv, Quiet
  <1>3. ASSUME NEW event \in Events, Heard(c, event)
        PROVE  \A d \in Calls \ {c} : call'[d].met \subseteq Events
    BY <1>3, HeardFields DEF ValueInv
  <1>4. r.met \subseteq Events
    BY DEF ValueInv
  <1>5. CASE Begins(c)
    BY <1>2, <1>5, Begun DEF Still
  <1>6. CASE Closes(c)
    <2>1. PICK answer, M : Ends(c, answer, M) /\ Reason(c, answer, M)
      BY <1>6 DEF Closes
    <2>2. M \subseteq Events
      BY <2>1 DEF Reason, Events
    <2>3. s.met = r.met \cup M /\ Quiet(c)
      BY <2>1 DEF Ends, Finished
    <2> QED
      BY <1>2, <1>4, <1>6, <2>2, <2>3 DEF Closes, Still
  <1>7. CASE Leaves(c)
    <2>1. s.met = {}
      BY <1>7, NoCallFields DEF Leaves, CallFields
    <2> QED
      BY <1>2, <1>7, <2>1 DEF Leaves, Still
  <1>8. CASE Goes(c)
    <2>1. s.met = r.met \/ s.met = r.met \cup {"fault"}
      BY <1>8 DEF Goes, Kept
    <2> QED
      BY <1>2, <1>4, <1>8, <2>1 DEF Goes, Still, Events
  <1>9. CASE Makes(c)
    <2>1. Heard(c, "workspace") /\ s.met = r.met
      BY <1>9 DEF Makes, Finished
    <2>2. \A d \in Calls : call'[d].met \subseteq Events
      BY <1>3, <1>4, <2>1 DEF Events
    <2> QED
      BY <1>9, <2>2 DEF Makes, ValueInv
  <1>10. CASE Adds(c)
    <2>1. Heard(c, "connection") /\ s.met = r.met
      BY <1>10 DEF Adds, Finished
    <2>2. \A d \in Calls : call'[d].met \subseteq Events
      BY <1>3, <1>4, <2>1 DEF Events
    <2>3. \A k \in Conns : /\ conn'[k].verdict.status \in {"unknown", "success", "failed"}
                           /\ conn'[k].exists \/ conn'[k] = NoRow
      BY <1>1, <1>10, RowsAdded DEF ValueInv
    <2> QED
      BY <1>10, <2>2, <2>3 DEF Adds, ValueInv
  <1>11. CASE Edits(c)
    <2>1. Heard(c, "edit") /\ s.met = r.met
      BY <1>11 DEF Edits, Finished
    <2>2. \A d \in Calls : call'[d].met \subseteq Events
      BY <1>3, <1>4, <2>1 DEF Events
    <2>3. conn[r.conn].exists
      <3>1. InStage(r)
        BY <1>11 DEF Edits, StageInv, StageOf, OpenStages
      <3>2. r.held = {r.conn}
        BY <1>11, <3>1 DEF Edits, InStage, Holds, HasRow
      <3> QED
        BY <3>2 DEF LockInv, Rows
    <2>4. \A k \in Conns : /\ conn'[k].verdict.status \in {"unknown", "success", "failed"}
                           /\ conn'[k].exists \/ conn'[k] = NoRow
      <3> SUFFICES ASSUME NEW k \in Conns
                   PROVE  /\ conn'[k].verdict.status \in {"unknown", "success", "failed"}
                          /\ conn'[k].exists \/ conn'[k] = NoRow
        OBVIOUS
      <3>1. CASE k = r.conn
        BY <1>11, <2>3, <3>1, RowsEdited DEF ValueInv
      <3>2. CASE k # r.conn
        BY <1>11, <3>2, RowsEdited DEF ValueInv
      <3> QED
        BY <3>1, <3>2
    <2> QED
      BY <1>11, <2>2, <2>4 DEF Edits, ValueInv
  <1>12. CASE Deletes(c)
    <2>1. Heard(c, "delete") /\ s.met = r.met
      BY <1>12 DEF Deletes
    <2>2. \A d \in Calls : call'[d].met \subseteq Events
      BY <1>3, <1>4, <2>1 DEF Events
    <2>3. \A k \in Conns : /\ conn'[k].verdict.status \in {"unknown", "success", "failed"}
                           /\ conn'[k].exists \/ conn'[k] = NoRow
      BY <1>1, <1>12, RowsDeleted
    <2> QED
      BY <1>12, <2>2, <2>3 DEF Deletes, ValueInv
  <1>13. CASE Saves(c)
    <2>1. s.met = r.met /\ Quiet(c)
      BY <1>13 DEF Saves
    <2>2. \A d \in Calls : call'[d].met \subseteq Events
      BY <1>4, <2>1 DEF Quiet, ValueInv
    <2>3. Verdict(c).status \in {"success", "failed"}
      <3>1. InStage(r)
        BY <1>13 DEF Saves, StageInv, StageOf, OpenStages
      <3> QED
        BY <1>13, <3>1 DEF Saves, InStage, Stage, Verdict
    <2>4. \A k \in Conns : /\ conn'[k].verdict.status \in {"unknown", "success", "failed"}
                           /\ conn'[k].exists \/ conn'[k] = NoRow
      <3> SUFFICES ASSUME NEW k \in Conns
                   PROVE  /\ conn'[k].verdict.status \in {"unknown", "success", "failed"}
                          /\ conn'[k].exists \/ conn'[k] = NoRow
        OBVIOUS
      <3>1. CASE k = r.conn
        BY <1>13, <2>3, <3>1, RowsSaved DEF Saves
      <3>2. CASE k # r.conn
        BY <1>13, <3>2, RowsSaved DEF ValueInv
      <3> QED
        BY <3>1, <3>2
    <2> QED
      BY <1>13, <2>2, <2>4 DEF Saves, ValueInv
  <1> QED
    BY <1>5, <1>6, <1>7, <1>8, <1>9, <1>10, <1>11, <1>12, <1>13 DEF Kinds

-----------------------------------------------------------------------------
(* The invariant.                                                           *)

IInv ==
    /\ RecordInv
    /\ StageInv
    /\ LockInv
    /\ NameInv
    /\ SlugInv
    /\ FoundInv
    /\ FreshInv
    /\ VerdictInv
    /\ PromiseInv
    /\ AloneAsPromised
    /\ UndocumentedHasCause
    /\ MakingInv
    /\ ValueInv

LEMMA InitInv ==
    ASSUME Init
    PROVE  IInv
  <1>1. /\ workspace = TRUE /\ DOMAIN call = Calls /\ DOMAIN made = Calls
        /\ \A c \in Calls : call[c] = NoCall /\ made[c] = "none"
    BY DEF Init
  <1>2. \A c \in Calls : /\ call[c].at = "idle" /\ call[c].op = "none" /\ call[c].held = {}
                         /\ ~Open(c)
    BY <1>1, NoCallFields DEF Open
  <1>3. /\ DOMAIN conn = Conns
        /\ \A k \in Existing : conn[k] = Row(Names[k], "old", TRUE)
        /\ \A k \in Conns \ Existing : conn[k] = NoRow
    BY DEF Init, Conns
  <1>4. /\ \A k \in Conns : DOMAIN conn[k] = RowFields
        /\ \A k \in Existing : conn[k].exists /\ conn[k].name = Names[k]
        /\ \A k \in Conns \ Existing : ~conn[k].exists
    <2>1. ASSUME NEW k \in Existing
          PROVE  DOMAIN conn[k] = RowFields /\ conn[k].exists /\ conn[k].name = Names[k]
      <3>1. conn[k] = Row(Names[k], "old", TRUE)
        BY <1>3
      <3>2. /\ DOMAIN Row(Names[k], "old", TRUE) = RowFields
            /\ Row(Names[k], "old", TRUE).exists = TRUE
            /\ Row(Names[k], "old", TRUE).name = Names[k]
        BY DEF Row, RowFields
      <3> QED
        BY <3>1, <3>2
    <2>2. ASSUME NEW k \in Conns \ Existing
          PROVE  DOMAIN conn[k] = RowFields /\ ~conn[k].exists
      BY <1>3, <2>2, RowTyped
    <2> QED
      BY <2>1, <2>2
  <1>5. Rows = Existing
    BY <1>4 DEF Rows, Conns
  <1>6. RecordInv
    BY <1>1, <1>3, <1>4, NoCallFields DEF RecordInv
  <1>7. StageInv
    BY <1>1, <1>2 DEF StageInv, StageOf, OpenStages
  <1>8. LockInv
    BY <1>2 DEF LockInv
  <1>9. NameInv
    BY <1>2, <1>4, <1>5, ConnectionsAssumption DEF NameInv, Writes
  <1>10. SlugInv
    BY <1>1, <1>2, NoneAssumption DEF SlugInv, Creates
  <1>11. FoundInv
    BY <1>2 DEF FoundInv, Found
  <1>12. FreshInv
    BY <1>4, ConnectionsAssumption DEF FreshInv, Conns
  <1>13. VerdictInv
    BY <1>2 DEF VerdictInv, Judged
  <1>14. PromiseInv
    BY <1>2 DEF PromiseInv
  <1>15. AloneAsPromised /\ UndocumentedHasCause
    BY <1>2 DEF AloneAsPromised, UndocumentedHasCause
  <1>16. MakingInv
    BY <1>1, <1>2 DEF MakingInv, Making
  <1>17. ValueInv
    <2>1. Unknown.status = "unknown"
      BY DEF Unknown
    <2>2. ASSUME NEW k \in Conns
          PROVE  conn[k].verdict = Unknown
      <3>1. CASE k \in Existing
        <4>1. conn[k] = Row(Names[k], "old", TRUE)
          BY <1>3, <3>1
        <4>2. Row(Names[k], "old", TRUE).verdict = Unknown
          BY DEF Row
        <4> QED
          BY <4>1, <4>2
      <3>2. CASE k \notin Existing
        BY <1>3, <3>2, RowTyped
      <3> QED
        BY <3>1, <3>2
    <2>3. \A c \in Calls : call[c].met = {}
      BY <1>1, NoCallFields
    <2> QED
      BY <1>1, <1>3, <1>4, <2>1, <2>2, <2>3 DEF ValueInv
  <1> QED
    BY <1>6, <1>7, <1>8, <1>9, <1>10, <1>11, <1>12, <1>13, <1>14, <1>15, <1>16, <1>17 DEF IInv

LEMMA StutterInv ==
    ASSUME IInv, UNCHANGED vars
    PROVE  IInv'
  <1>1. workspace' = workspace /\ made' = made /\ call' = call /\ conn' = conn
    BY DEF vars
  <1>2. Rows' = Rows /\ Slugs' = Slugs
    BY <1>1 DEF Rows, Slugs
  <1>3. RecordInv' /\ StageInv' /\ LockInv' /\ FreshInv'
    BY <1>1, <1>2 DEF IInv, RecordInv, StageInv, LockInv, FreshInv, Open
  <1>4. NameInv'
    BY <1>1, <1>2 DEF IInv, NameInv, Writes, NameTaken
  <1>5. SlugInv'
    BY <1>1, <1>2 DEF IInv, SlugInv, Creates, Slug
  <1>6. FoundInv'
    BY <1>1, <1>2 DEF IInv, FoundInv, Found, Open, Slug
  <1>7. VerdictInv'
    BY <1>1 DEF IInv, VerdictInv, Judged, Stored, Verdict
  <1>8. PromiseInv'
    <2>1. \A c \in Calls : \A status : Refusable(call[c], status)' = Refusable(call[c], status)
      BY <1>1, <1>2 DEF Refusable, NameTaken
    <2>2. \A c \in Calls : Promised(call[c])' = Promised(call[c])
      BY <1>1, <2>1 DEF Promised
    <2> QED
      BY <1>1, <2>2 DEF IInv, PromiseInv, Meant, Open
  <1>9. AloneAsPromised' /\ UndocumentedHasCause'
    BY <1>1 DEF IInv, AloneAsPromised, UndocumentedHasCause
  <1>10. MakingInv'
    BY <1>1 DEF IInv, MakingInv, Making, MadeBy, Tries, Taken, Slug, Open
  <1>11. ValueInv'
    BY <1>1 DEF IInv, ValueInv
  <1> QED
    BY <1>3, <1>4, <1>5, <1>6, <1>7, <1>8, <1>9, <1>10, <1>11 DEF IInv

LEMMA NextInv ==
    ASSUME IInv, [Next]_vars
    PROVE  IInv'
  <1>1. CASE UNCHANGED vars
    BY <1>1, StutterInv
  <1>2. CASE Next
    <2>1. PICK c \in Calls : Begin(c) \/ Step(c) \/ LogTestFails(c) \/ LogFails(c) \/ Crash(c)
      BY <1>2 DEF Next
    <2>2. /\ RecordInv /\ StageInv /\ LockInv /\ NameInv /\ SlugInv /\ FoundInv /\ FreshInv
          /\ VerdictInv /\ PromiseInv /\ AloneAsPromised /\ UndocumentedHasCause
          /\ MakingInv /\ ValueInv
      BY DEF IInv
    <2>3. Kinds(c)
      BY <2>1, <2>2, StepKinds
    <2>4. RecordInv' /\ StageInv' /\ LockInv' /\ NameInv' /\ SlugInv'
      BY <2>2, <2>3, StructureStays, LocksStay, NamesStay, SlugsStay
    <2>5. FoundInv' /\ FreshInv' /\ VerdictInv' /\ PromiseInv'
      BY <2>2, <2>3, FoundStays, FreshStays, VerdictsStay, PromisesStay
    <2>6. AloneAsPromised' /\ UndocumentedHasCause'
      BY <2>2, <2>3, AloneStays, CausesStay
    <2>7. MakingInv' /\ ValueInv'
      BY <2>2, <2>3, MakingStays, ValuesStay
    <2> QED
      BY <2>4, <2>5, <2>6, <2>7 DEF IInv
  <1> QED
    BY <1>1, <1>2

LEMMA Invariant == Spec => []IInv
  BY InitInv, NextInv, PTL DEF Spec

-----------------------------------------------------------------------------
(* The theorems.                                                            *)

\* The type invariant; with it, that the search for a slug always has a next
\* candidate, that an answer is one, and that a call holds rows there are.
THEOREM TypeCorrect == Spec => []TypeOK
  <1>1. ASSUME IInv
        PROVE  TypeOK
    <2> USE <1>1 DEF IInv
    <2>1. ASSUME NEW c \in Calls
          PROVE  /\ DOMAIN call[c] = DOMAIN NoCall
                 /\ call[c].op \in {"none"} \cup WorkspaceOps \cup ConnectionOps
                 /\ call[c].held \cup call[c].swept \subseteq Conns
                 /\ call[c].met \subseteq Events
      <3>1. DOMAIN call[c] = DOMAIN NoCall
        BY NoCallFields DEF RecordInv
      <3>2. call[c].op \in {"none"} \cup WorkspaceOps \cup ConnectionOps
        <4>1. Ended.op = "none" /\ NoCall.op = "none"
          BY NoCallFields DEF CallFields
        <4> QED
          BY <4>1 DEF StageInv, StageOf, Asked, About
      <3>3. call[c].held \subseteq Conns
        BY DEF LockInv, Rows
      <3>4. call[c].swept \subseteq Conns
        <4>1. Ended.swept = {} /\ NoCall.swept = {}
          BY NoCallFields DEF CallFields
        <4> QED
          BY <4>1 DEF StageInv, StageOf, InStage
      <3> QED
        BY <3>1, <3>2, <3>3, <3>4 DEF ValueInv
    <2>2. ASSUME NEW c \in Calls
          PROVE  call[c].answer # NoAnswer <=> call[c].at = "answered"
      <3>1. Ended.answer = NoAnswer /\ NoCall.answer = NoAnswer /\ Ended.at = "ended"
            /\ NoCall.at = "idle"
        BY NoCallFields DEF CallFields
      <3>2. ASSUME call[c].at = "answered"
            PROVE  call[c].answer # NoAnswer
        <4>1. call[c].op \in WorkspaceOps \cup ConnectionOps
          BY <3>2 DEF StageInv, StageOf, OpenStages, About
        <4>2. 0 \notin Documented(call[c].op)
          BY <4>1 DEF Documented, WorkspaceOps, ConnectionOps, WorkspaceDocs, ConnectionDocs
        <4>3. NoAnswer.status = 0 /\ ServerError.status = 500
          BY Handled
        <4> QED
          BY <3>2, <4>2, <4>3 DEF UndocumentedHasCause
      <3> QED
        BY <3>1, <3>2 DEF StageInv, StageOf, InStage
    <2>3. ASSUME NEW c \in Calls, call[c].at = "naming"
          PROVE  call[c].tried \in DOMAIN Candidates[call[c].given.name]
      <3>1. Making(c)
        BY <2>3 DEF StageInv, StageOf, InStage, Stage, OpenStages, Making, Open
      <3> QED
        BY <3>1 DEF MakingInv, Tries
    <2>4. \A c \in Calls : made[c] = "none" \/ \E n \in DOMAIN Candidates :
                               \E i \in DOMAIN Candidates[n] : made[c] = Candidates[n][i]
      BY DEF MakingInv, MadeBy
    <2>5. \A k \in Conns : DOMAIN conn[k] = DOMAIN NoRow
      BY RowTyped DEF RecordInv
    <2> HIDE DEF IInv
    <2> QED
      BY <2>1, <2>2, <2>3, <2>4, <2>5 DEF IInv, ValueInv, TypeOK
  <1> QED
    BY <1>1, Invariant, PTL

\* The unique indexes and the foreign key hold at every moment: it is enough
\* that no two open transactions have written the same name or slug, and that a
\* written one is not taken (the waits of the index and of the row locks).
THEOREM IndexesHold == Spec => []RowsConsistent
  <1>1. IInv => RowsConsistent
    BY DEF IInv, NameInv, SlugInv, RowsConsistent
  <1> QED
    BY <1>1, Invariant, PTL

\* What a connection test answers is what it left in the row, unless a later
\* test overwrote it, also when log_action raises between the two saves.
THEOREM TestsTellTheirVerdict == Spec => []TestAnswerIsStored
  <1>1. IInv => TestAnswerIsStored
    BY DEF IInv, VerdictInv, Judged, Stored, TestAnswerIsStored
  <1> QED
    BY <1>1, Invariant, PTL

\* A call that nothing disturbs answers what the documentation promises for the
\* state it began in: nothing it reads changes without an event it meets.
THEOREM PromisesAreKept == Spec => []AloneAsPromised
  <1>1. IInv => AloneAsPromised
    BY DEF IInv
  <1> QED
    BY <1>1, Invariant, PTL

\* A status the documentation does not list is a 500 with one of the named
\* causes: every other overlap of calls gets an answer it lists.
THEOREM SurprisesHaveCauses == Spec => []UndocumentedHasCause
  <1>1. IInv => UndocumentedHasCause
    BY DEF IInv
  <1> QED
    BY <1>1, Invariant, PTL

\* A field of a connection changes only to what a call gave for it, and only
\* when that call answers success: no test and no PATCH of other fields takes a
\* change back, and a call that fails changes nothing.
THEOREM ChangesAreKept == Spec => ChangesKept
  <1>1. ASSUME IInv, Next, NEW k \in Rows, conn'[k].exists, NEW f \in Fields,
               conn'[k][f] # conn[k][f]
        PROVE  \E c \in Calls : /\ call[c].conn = k
                                /\ f \in DOMAIN call[c].given
                                /\ conn'[k][f] = call[c].given[f]
                                /\ call'[c].answer = Success(200)
    <2>1. PICK c \in Calls : Begin(c) \/ Step(c) \/ LogTestFails(c) \/ LogFails(c) \/ Crash(c)
      BY <1>1 DEF Next
    <2>2. RecordInv /\ StageInv /\ FreshInv
      BY <1>1 DEF IInv
    <2>3. Kinds(c)
      BY <2>1, <2>2, StepKinds
    <2> QED
      BY <1>1, <2>2, <2>3, ChangesAreGiven
  <1>2. IInv /\ [Next]_vars =>
            [\A k \in Rows : conn'[k].exists =>
                 \A f \in Fields : conn'[k][f] # conn[k][f] =>
                     \E c \in Calls : /\ call[c].conn = k
                                      /\ f \in DOMAIN call[c].given
                                      /\ conn'[k][f] = call[c].given[f]
                                      /\ call'[c].answer = Success(200)]_vars
    BY <1>1
  <1> QED
    BY <1>2, Invariant, PTL DEF Spec, ChangesKept
=============================================================================
