-------------------------- MODULE HttpLayerProofs ---------------------------
(* What holds of HttpLayer for any threads, workers, requests, executions,  *)
(* tokens, bodies and outages: trace ids stay with their request or task, a *)
(* PATCH of the profile undoes nothing that was over when it began, and     *)
(* every answer is true of some moment of its call.                         *)
EXTENDS HttpLayer, TLAPS

-----------------------------------------------------------------------------
(* Records.                                                                 *)

Fields == {"unit", "op", "at", "trace", "with", "given", "copy", "failing", "lost",
           "out", "answer"}

RecordInv ==
    /\ DOMAIN job = Processes /\ DOMAIN bound = Processes
    /\ \A p \in Processes : DOMAIN job[p] = Fields

LEMMA NoJobFields ==
    /\ DOMAIN NoJob = Fields
    /\ NoJob.unit = "none" /\ NoJob.op = "none" /\ NoJob.at = "idle" /\ NoJob.out = {}
  BY DEF NoJob, Fields

\* What writing an id does to a job.
LEMMA PutFields ==
    ASSUME NEW j, DOMAIN j = Fields, NEW kind, NEW id
    PROVE  /\ DOMAIN Put(j, kind, id) = Fields
           /\ \A f \in Fields \ {"out"} : Put(j, kind, id)[f] = j[f]
           /\ Put(j, kind, id).out = j.out \cup {[kind |-> kind, id |-> id]}
  BY DEF Put, Fields

\* A job goes on from j to k: it is the same request, and it has written nothing
\* but under the ids of the set ids.
Kept == {"unit", "op", "trace", "with", "given", "lost"}

GoesOn(j, k, ids) ==
    /\ DOMAIN k = Fields
    /\ \A f \in Kept : k[f] = j[f]
    /\ \A o \in k.out : o \in j.out \/ o.id \in ids

LEMMA PutGoesOn ==
    ASSUME NEW j, NEW k, NEW ids, GoesOn(j, k, ids), NEW kind, NEW id \in ids
    PROVE  /\ GoesOn(j, Put(k, kind, id), ids)
           /\ Put(k, kind, id).at = k.at /\ Put(k, kind, id).failing = k.failing
  <1>1. DOMAIN k = Fields
    BY DEF GoesOn
  <1>2. /\ DOMAIN Put(k, kind, id) = Fields
        /\ \A f \in Fields \ {"out"} : Put(k, kind, id)[f] = k[f]
        /\ Put(k, kind, id).out = k.out \cup {[kind |-> kind, id |-> id]}
    BY <1>1, PutFields
  <1>3. Kept \subseteq Fields \ {"out"} /\ {"at", "failing"} \subseteq Fields \ {"out"}
    BY DEF Fields, Kept
  <1> QED
    BY <1>2, <1>3 DEF GoesOn

LEMMA AnsweredGoesOn ==
    ASSUME NEW p \in Processes, NEW j, NEW k, NEW answer,
           GoesOn(j, k, {bound[p], k.trace})
    PROVE  /\ GoesOn(j, Answered(p, k, answer), {bound[p], k.trace})
           /\ Answered(p, k, answer).at = "answered"
           /\ Answered(p, k, answer).answer = answer
  <1> DEFINE ids == {bound[p], k.trace}
  <1> DEFINE headed == Put(k, "header", k.trace)
  <1> DEFINE all == IF answer.code = "none" THEN headed ELSE Put(headed, "body", bound[p])
  <1>1. GoesOn(j, headed, ids)
    BY PutGoesOn
  <1>2. GoesOn(j, Put(headed, "body", bound[p]), ids)
    <2> HIDE DEF headed
    <2> QED
      BY <1>1, PutGoesOn
  <1>3. GoesOn(j, all, ids)
    BY <1>1, <1>2
  <1>4. Answered(p, k, answer) = [all EXCEPT !.at = "answered", !.answer = answer]
    BY DEF Answered
  <1> HIDE DEF all
  <1> QED
    BY <1>3, <1>4 DEF GoesOn, Fields, Kept

\* What a step of process p leads to: its own job is j then, and those of the
\* others are what they were.
LEMMA Moved ==
    ASSUME RecordInv, NEW p \in Processes, NEW j, Move(p, j)
    PROVE  /\ job'[p] = j
           /\ \A q \in Processes : q # p => job'[q] = job[q]
           /\ DOMAIN job' = Processes
  BY DEF RecordInv, Move

\* The request of process p goes on to the stage at.
Continues(p, at) ==
    /\ bound' = bound
    /\ DOMAIN job' = Processes
    /\ GoesOn(job[p], job'[p], {bound[p], job[p].trace})
    /\ \A q \in Processes : q # p => job'[q] = job[q]
    /\ job'[p].at = at

LEMMA GotoContinues ==
    ASSUME RecordInv, NEW p \in Processes, NEW at, Goto(p, at), bound' = bound
    PROVE  Continues(p, at) /\ job'[p].failing = job[p].failing
  <1>1. /\ GoesOn(job[p], [job[p] EXCEPT !.at = at], {bound[p], job[p].trace})
        /\ [job[p] EXCEPT !.at = at].at = at
        /\ [job[p] EXCEPT !.at = at].failing = job[p].failing
    BY DEF RecordInv, GoesOn, Fields, Kept
  <1> QED
    BY <1>1, Moved DEF Goto, Continues

LEMMA RaiseContinues ==
    ASSUME RecordInv, NEW p \in Processes, NEW exc, Raise(p, exc), bound' = bound
    PROVE  Continues(p, "answered") /\ job'[p].answer = Handle(exc)
  <1>1. GoesOn(job[p], job[p], {bound[p], job[p].trace})
    BY DEF RecordInv, GoesOn
  <1>2. /\ GoesOn(job[p], Answered(p, job[p], Handle(exc)), {bound[p], job[p].trace})
        /\ Answered(p, job[p], Handle(exc)).at = "answered"
        /\ Answered(p, job[p], Handle(exc)).answer = Handle(exc)
    BY <1>1, AnsweredGoesOn
  <1> QED
    BY <1>2, Moved DEF Raise, Continues

LEMMA ReplyContinues ==
    ASSUME RecordInv, NEW p \in Processes, NEW j, NEW status, Reply(p, j, status), bound' = bound,
           GoesOn(job[p], j, {bound[p], job[p].trace})
    PROVE  Continues(p, "answered") /\ job'[p].answer = Success(status)
  <1>1. j.trace = job[p].trace
    BY DEF GoesOn, Kept
  <1>2. /\ GoesOn(job[p], Answered(p, j, Success(status)), {bound[p], job[p].trace})
        /\ Answered(p, j, Success(status)).at = "answered"
        /\ Answered(p, j, Success(status)).answer = Success(status)
    BY <1>1, AnsweredGoesOn
  <1> QED
    BY <1>2, Moved DEF Reply, Continues

LEMMA CheckedContinues ==
    ASSUME RecordInv, NEW p \in Processes, NEW d, NEW ok, NEW at,
           Checked(p, d, ok, at), bound' = bound
    PROVE  /\ Continues(p, at)
           /\ job'[p].failing = IF ok THEN job[p].failing ELSE job[p].failing \cup {d}
  <1> DEFINE j == [job[p] EXCEPT !.at = at, !.failing = IF ok THEN @ ELSE @ \cup {d}]
  <1>1. GoesOn(job[p], j, {bound[p], job[p].trace})
    BY DEF RecordInv, GoesOn, Fields, Kept
  <1>2. j.at = at /\ j.failing = IF ok THEN job[p].failing ELSE job[p].failing \cup {d}
    BY DEF RecordInv, Fields
  <1>3. Move(p, j)
    BY DEF Checked
  <1> HIDE DEF j
  <1> QED
    BY <1>1, <1>2, <1>3, Moved DEF Continues

LEMMA FailsContinues ==
    ASSUME RecordInv, NEW p \in Processes, Fails(p), bound' = bound
    PROVE  Continues(p, "answered") /\ job'[p].answer.status = 500
  <1>1. Handle(Unexpected).status = 500
    BY DEF Handle, Unexpected, ServerError, Answer
  <1> QED
    BY <1>1, RaiseContinues DEF Fails

LEMMA LogAndReplyContinues ==
    ASSUME RecordInv, NEW p \in Processes, NEW status, LogAndReply(p, status), bound' = bound
    PROVE  /\ Continues(p, "answered")
           /\ job'[p].answer.status = status \/ (job'[p].answer.status = 500 /\ DatabaseFails(p))
  <1>1. CASE Fails(p)
    BY <1>1, FailsContinues DEF Fails
  <1>2. CASE Reply(p, Audit(p), status)
    <2>1. GoesOn(job[p], job[p], {bound[p], job[p].trace})
      BY DEF RecordInv, GoesOn
    <2>2. GoesOn(job[p], Audit(p), {bound[p], job[p].trace})
      BY <2>1, PutGoesOn DEF Audit
    <2>3. Continues(p, "answered") /\ job'[p].answer = Success(status)
      BY <1>2, <2>2, ReplyContinues
    <2> QED
      BY <2>3 DEF Success, Answer
  <1> QED
    BY <1>1, <1>2 DEF LogAndReply

-----------------------------------------------------------------------------
(* Where each step of a request leads.                                      *)

\* One check after another, then the answer.
LEMMA ReadinessContinues ==
    ASSUME RecordInv, NEW p \in Processes, ReadinessStep(p)
    PROVE  \E at \in {"redis", "probe_set", "probe_read", "broker", "workers", "checked",
                      "answered"} : Continues(p, at)
  <1> USE DEF Unreachable
  <1>1. CASE CheckDatabase(p)
    BY <1>1, CheckedContinues DEF CheckDatabase
  <1>2. CASE SetProbe(p)
    <2>1. CASE Unreachable("redis")
      BY <1>2, <2>1, CheckedContinues DEF SetProbe
    <2>2. CASE ~Unreachable("redis")
      BY <1>2, <2>2, GotoContinues DEF SetProbe
    <2> QED
      BY <2>1, <2>2
  <1>3. CASE GetProbe(p)
    <2>1. CASE Unreachable("redis") \/ ~probe
      BY <1>3, <2>1, CheckedContinues DEF GetProbe
    <2>2. CASE ~(Unreachable("redis") \/ ~probe)
      BY <1>3, <2>2, GotoContinues DEF GetProbe
    <2> QED
      BY <2>1, <2>2
  <1>4. CASE DeleteProbe(p)
    BY <1>4, CheckedContinues DEF DeleteProbe
  <1>5. CASE CheckBroker(p)
    BY <1>5, CheckedContinues DEF CheckBroker
  <1>6. CASE CheckWorkers(p)
    BY <1>6, CheckedContinues DEF CheckWorkers
  <1>7. GoesOn(job[p], job[p], {bound[p], job[p].trace})
    BY DEF RecordInv, GoesOn
  <1>8. CASE AnswerReady(p)
    <2>1. bound' = bound
      BY <1>8 DEF AnswerReady
    <2>2. CASE Reply(p, job[p], 200)
      BY <1>7, <2>1, <2>2, ReplyContinues
    <2>3. CASE Reply(p, Put(job[p], "audit", job[p].trace), 503)
      <3>1. GoesOn(job[p], Put(job[p], "audit", job[p].trace), {bound[p], job[p].trace})
        BY <1>7, PutGoesOn
      <3> QED
        BY <3>1, <2>1, <2>3, ReplyContinues
    <2>4. CASE Raise(p, Unexpected)
      BY <2>1, <2>4, RaiseContinues
    <2> QED
      BY <1>8, <2>2, <2>3, <2>4 DEF AnswerReady
  <1>9. CASE AnswerLive(p)
    BY <1>7, <1>9, ReplyContinues DEF AnswerLive
  <1> QED
    BY <1>1, <1>2, <1>3, <1>4, <1>5, <1>6, <1>8, <1>9 DEF ReadinessStep

\* The calls of a session.
LEMMA SessionContinues ==
    ASSUME RecordInv, NEW p \in Processes,
           \/ FindUser(p) \/ Authenticate(p) \/ IssueTokens(p)
           \/ DecodeToken(p) \/ Blacklist(p) \/ LogLogout(p) \/ Refresh(p)
    PROVE  /\ profile' = profile
           /\ \E at \in {"found", "authenticated", "decoded", "blacklisted", "answered"} :
                  Continues(p, at)
  <1> USE DEF sessionVars
  <1>1. GoesOn(job[p], job[p], {bound[p], job[p].trace})
    BY DEF RecordInv, GoesOn
  <1>2. CASE FindUser(p)
    <2>1. bound' = bound /\ profile' = profile
      BY <1>2 DEF FindUser
    <2>2. \/ Goto(p, "found") \/ Raise(p, ValidationError) \/ Fails(p)
          \/ Raise(p, ApiError(403, "EMAIL_NOT_VERIFIED")) \/ Raise(p, InvalidCredentials)
      BY <1>2 DEF FindUser
    <2> QED
      BY <2>1, <2>2, GotoContinues, RaiseContinues, FailsContinues
  <1>3. CASE Authenticate(p)
    BY <1>3, GotoContinues, RaiseContinues, FailsContinues DEF Authenticate
  <1>4. CASE IssueTokens(p)
    BY <1>4, LogAndReplyContinues DEF IssueTokens
  <1>5. CASE DecodeToken(p)
    <2>1. bound' = bound /\ profile' = profile
      BY <1>5 DEF DecodeToken
    <2>2. \/ Goto(p, "decoded") \/ Raise(p, ValidationError)
          \/ Raise(p, ApiError(401, "TOKEN_INVALID"))
      BY <1>5 DEF DecodeToken
    <2> QED
      BY <2>1, <2>2, GotoContinues, RaiseContinues
  <1>6. CASE Blacklist(p)
    BY <1>6, GotoContinues, RaiseContinues DEF Blacklist
  <1>7. CASE LogLogout(p)
    BY <1>7, LogAndReplyContinues DEF LogLogout
  <1>8. CASE Refresh(p)
    <2>1. bound' = bound /\ profile' = profile
      BY <1>8 DEF Refresh
    <2>2. CASE Reply(p, job[p], 200)
      BY <1>1, <2>1, <2>2, ReplyContinues
    <2>3. CASE ~Reply(p, job[p], 200)
      BY <1>8, <2>1, <2>3, RaiseContinues, FailsContinues DEF Refresh
    <2> QED
      BY <2>2, <2>3
  <1> QED
    BY <1>2, <1>3, <1>4, <1>5, <1>6, <1>7, <1>8

\* GET and PATCH of the profile.
LEMMA ProfileContinues ==
    ASSUME RecordInv, NEW p \in Processes,
           AuthenticateJWT(p) \/ ValidateProfile(p) \/ GetProfile(p) \/ SaveProfile(p) \/ LogProfile(p)
    PROVE  /\ \E at \in {"identified", "valid", "profile_read", "profile_saved", "answered"} :
                  Continues(p, at)
           /\ job'[p].at = "profile_read" => job'[p].copy = profile /\ profile' = profile
           /\ profile' # profile =>
                  /\ job[p].at = "profile_read" /\ job'[p].at = "profile_saved"
                  /\ profile' = [f \in ProfileFields |->
                         IF f \in DOMAIN job[p].given THEN job[p].given[f] ELSE job[p].copy[f]]
  <1> USE DEF sessionVars
  <1>1. CASE AuthenticateJWT(p)
    <2>1. bound' = bound /\ profile' = profile
      BY <1>1 DEF AuthenticateJWT
    <2>2. Goto(p, "identified") \/ Fails(p) \/ \E exc : Raise(p, exc)
      BY <1>1 DEF AuthenticateJWT
    <2>3. Continues(p, "identified") \/ Continues(p, "answered")
      BY <2>1, <2>2, GotoContinues, RaiseContinues, FailsContinues
    <2> QED
      BY <2>1, <2>3 DEF Continues
  <1>2. CASE ValidateProfile(p)
    <2>1. bound' = bound /\ profile' = profile
      BY <1>2 DEF ValidateProfile
    <2>2. Goto(p, "valid") \/ \E exc : Raise(p, exc)
      BY <1>2 DEF ValidateProfile
    <2>3. Continues(p, "valid") \/ Continues(p, "answered")
      BY <2>1, <2>2, GotoContinues, RaiseContinues
    <2> QED
      BY <2>1, <2>3 DEF Continues
  <1>3. CASE GetProfile(p)
    <2> DEFINE k == [job[p] EXCEPT !.at = "profile_read", !.copy = profile]
    <2>1. bound' = bound /\ profile' = profile
      BY <1>3 DEF GetProfile
    <2>2. CASE Move(p, k)
      <3>1. GoesOn(job[p], k, {bound[p], job[p].trace})
        BY DEF RecordInv, GoesOn, Fields, Kept
      <3>2. k.at = "profile_read" /\ k.copy = profile
        BY DEF RecordInv, Fields
      <3> HIDE DEF k
      <3>3. Continues(p, "profile_read") /\ job'[p].copy = profile
        BY <2>1, <2>2, <3>1, <3>2, Moved DEF Continues
      <3> QED
        BY <2>1, <3>3
    <2>3. CASE Reply(p, job[p], 200)
      <3>1. GoesOn(job[p], job[p], {bound[p], job[p].trace})
        BY DEF RecordInv, GoesOn
      <3> QED
        BY <2>1, <2>3, <3>1, ReplyContinues DEF Continues
    <2>4. CASE Fails(p)
      <3>1. Continues(p, "answered")
        BY <2>1, <2>4, FailsContinues
      <3> QED
        BY <2>1, <3>1 DEF Continues
    <2> QED
      BY <1>3, <2>2, <2>3, <2>4 DEF GetProfile
  <1>4. CASE SaveProfile(p)
    <2>1. bound' = bound
      BY <1>4 DEF SaveProfile
    <2>2. CASE Fails(p) /\ UNCHANGED profile
      <3>1. Continues(p, "answered")
        BY <2>1, <2>2, FailsContinues
      <3> QED
        BY <2>2, <3>1 DEF Continues
    <2>3. CASE ~(Fails(p) /\ UNCHANGED profile)
      <3>1. Continues(p, "profile_saved")
        BY <1>4, <2>1, <2>3, GotoContinues DEF SaveProfile
      <3> QED
        BY <1>4, <2>3, <3>1 DEF Continues, SaveProfile
    <2> QED
      BY <2>2, <2>3
  <1>5. CASE LogProfile(p)
    <2>1. Continues(p, "answered") /\ profile' = profile
      BY <1>5, LogAndReplyContinues DEF LogProfile
    <2> QED
      BY <2>1 DEF Continues
  <1> QED
    BY <1>1, <1>2, <1>3, <1>4, <1>5

-----------------------------------------------------------------------------
(* The other steps.                                                         *)

LEMMA BeginStarts ==
    ASSUME RecordInv, NEW p \in Processes, Begin(p)
    PROVE  \E r \in Requests : \E ask \in Asks[r] :
              /\ Idle(p)
              /\ DOMAIN job' = Processes /\ DOMAIN job'[p] = Fields
              /\ bound' = [bound EXCEPT ![p] = ResolveTraceId(r, 1)]
              /\ job'[p].unit = r /\ job'[p].trace = ResolveTraceId(r, 1)
              /\ job'[p].op = ask.op /\ job'[p].with = ask.with /\ job'[p].given = ask.given
              /\ job'[p].at = "begun" /\ job'[p].out = {}
              /\ job'[p].failing = {} /\ job'[p].lost = FALSE
              /\ \A q \in Processes : q # p => job'[q] = job[q]
  <1> DEFINE begun(ask) == [NoJob EXCEPT !.op = ask.op, !.at = "begun",
                                         !.with = ask.with, !.given = ask.given]
  <1> DEFINE all(r, ask) == [begun(ask) EXCEPT !.unit = r, !.trace = ResolveTraceId(r, 1)]
  <1>0. PICK r \in Requests : \E ask \in Asks[r] : Accept(p, r, begun(ask))
    BY DEF Begin
  <1>1. PICK ask \in Asks[r] : Accept(p, r, begun(ask))
    BY <1>0
  <1>2. Move(p, all(r, ask))
    BY <1>1 DEF Accept
  <1>3. /\ DOMAIN all(r, ask) = Fields
        /\ all(r, ask).unit = r /\ all(r, ask).trace = ResolveTraceId(r, 1)
        /\ all(r, ask).op = ask.op /\ all(r, ask).with = ask.with
        /\ all(r, ask).given = ask.given
        /\ all(r, ask).at = "begun" /\ all(r, ask).out = {}
        /\ all(r, ask).failing = {} /\ all(r, ask).lost = FALSE
    BY DEF NoJob, Fields
  <1>4. Idle(p) /\ bound' = [bound EXCEPT ![p] = ResolveTraceId(r, 1)]
    BY <1>1 DEF Accept
  <1> HIDE DEF all
  <1>5. /\ job'[p] = all(r, ask) /\ DOMAIN job' = Processes
        /\ \A q \in Processes : q # p => job'[q] = job[q]
    BY <1>2, Moved
  <1> QED
    BY <1>3, <1>4, <1>5

\* The jobs after an outage: an open connection to the database is lost.
LEMMA OutageFields ==
    ASSUME RecordInv, NEW d, GoesDown(d), NEW p \in Processes
    PROVE  /\ DOMAIN job' = Processes /\ bound' = bound
           /\ DOMAIN job'[p] = Fields
           /\ \A f \in Fields \ {"lost"} : job'[p][f] = job[p][f]
           /\ job'[p].lost => job[p].lost \/ d = "database"
           /\ job[p].lost => job'[p].lost
  BY DEF RecordInv, GoesDown, Fields

\* What is known of a thread whose request was there before the step and is
\* there after it.
LEMMA Observed ==
    ASSUME Observe, NEW p \in Threads, job[p].at # "idle", job'[p].at # "idle"
    PROVE  seen'[p] =
              [ever |-> seen[p].ever \cup Facts(p)'
                            \cup {f \in ProfileFields : profile'[f] # profile[f]},
               always |-> seen[p].always \cap Facts(p)']
  <1>1. job[p] # NoJob /\ job'[p] # NoJob
    BY NoJobFields
  <1>2. ~Idle(p)
    BY <1>1 DEF Idle
  <1> QED
    BY <1>1, <1>2 DEF Observe

-----------------------------------------------------------------------------
(* Trace ids.                                                               *)

HasId(j, o) ==
    \/ o.id = OwnId(j.unit)
    \/ /\ j.op = "failed_task" /\ o.kind \in {"failure", "finished"}
       /\ o.id = GenerateTraceId(j.unit, 2)

\* What the variable of process p holds, whatever the process did before.
RequestHasId(p) ==
    job[p].at # "idle" =>
        /\ bound[p] = OwnId(job[p].unit)
        /\ job[p].trace = OwnId(job[p].unit)

TaskHasId(p) ==
    /\ job[p].at \in {"running", "raised"} =>
           job[p].unit \in Executions /\ bound[p] = OwnId(job[p].unit)
    /\ job[p].at = "raised" => job[p].op = "failed_task"
    /\ job[p].at = "ran" =>
           \/ bound[p] = OwnId(job[p].unit)
           \/ job[p].op = "failed_task" /\ bound[p] = GenerateTraceId(job[p].unit, 2)

TraceInv ==
    /\ \A p \in Processes : \A o \in job[p].out : HasId(job[p], o)
    /\ \A p \in Threads : RequestHasId(p)
    /\ \A p \in Workers : TaskHasId(p)

IdInv == RecordInv /\ TraceInv

\* One process makes a step, and the others are as they were.
LEMMA TraceOfOne ==
    ASSUME IdInv, NEW p \in Processes,
           DOMAIN job' = Processes, DOMAIN bound' = Processes, DOMAIN job'[p] = Fields,
           \A q \in Processes : q # p => job'[q] = job[q] /\ bound'[q] = bound[q],
           \A o \in job'[p].out : HasId(job'[p], o),
           p \in Threads => RequestHasId(p)',
           p \in Workers => TaskHasId(p)'
    PROVE  IdInv'
  <1>1. RecordInv'
    BY DEF IdInv, RecordInv
  <1>2. \A q \in Processes : \A o \in job'[q].out : HasId(job'[q], o)
    BY DEF IdInv, TraceInv
  <1>3. ASSUME NEW q \in Threads PROVE RequestHasId(q)'
    <2>1. CASE q = p
      BY <2>1
    <2>2. CASE q # p
      <3>1. job'[q] = job[q] /\ bound'[q] = bound[q]
        BY <2>2 DEF Processes
      <3> QED
        BY <3>1 DEF IdInv, TraceInv, RequestHasId
    <2> QED
      BY <2>1, <2>2
  <1>4. ASSUME NEW q \in Workers PROVE TaskHasId(q)'
    <2>1. CASE q = p
      BY <2>1
    <2>2. CASE q # p
      <3>1. job'[q] = job[q] /\ bound'[q] = bound[q]
        BY <2>2 DEF Processes
      <3> QED
        BY <3>1 DEF IdInv, TraceInv, TaskHasId
    <2> QED
      BY <2>1, <2>2
  <1> QED
    BY <1>1, <1>2, <1>3, <1>4 DEF IdInv, TraceInv

LEMMA InitIds == Init => IdInv
  <1> SUFFICES ASSUME Init PROVE IdInv
    OBVIOUS
  <1>1. DOMAIN job = Processes /\ DOMAIN bound = Processes
    BY DEF Init
  <1>2. \A p \in Processes : job[p] = NoJob
    BY DEF Init
  <1>3. RecordInv
    BY <1>1, <1>2, NoJobFields DEF RecordInv
  <1>4. \A p \in Processes : job[p].at = "idle" /\ job[p].out = {}
    BY <1>2, NoJobFields
  <1> QED
    BY <1>3, <1>4 DEF IdInv, TraceInv, RequestHasId, TaskHasId, Processes

LEMMA BeginKeepsIds ==
    ASSUME IdInv, NEW p \in Threads, Begin(p)
    PROVE  IdInv'
  <1>1. p \in Processes /\ p \notin Workers
    BY ProcessesAssumption DEF Processes
  <1>2. PICK r \in Requests : \E ask \in Asks[r] :
              /\ Idle(p)
              /\ DOMAIN job' = Processes /\ DOMAIN job'[p] = Fields
              /\ bound' = [bound EXCEPT ![p] = ResolveTraceId(r, 1)]
              /\ job'[p].unit = r /\ job'[p].trace = ResolveTraceId(r, 1)
              /\ job'[p].out = {}
              /\ \A q \in Processes : q # p => job'[q] = job[q]
    BY <1>1, BeginStarts DEF IdInv
  <1>3. /\ DOMAIN bound' = Processes /\ bound'[p] = ResolveTraceId(r, 1)
        /\ \A q \in Processes : q # p => bound'[q] = bound[q]
    BY <1>1, <1>2 DEF IdInv, RecordInv
  <1>4. RequestHasId(p)'
    BY <1>2, <1>3 DEF RequestHasId, OwnId
  <1> QED
    BY <1>1, <1>2, <1>3, <1>4, TraceOfOne

LEMMA ContinuesKeepsIds ==
    ASSUME IdInv, NEW p \in Threads, NEW at, at # "idle", Continues(p, at), job[p].at # "idle"
    PROVE  IdInv'
  <1>1. p \in Processes /\ p \notin Workers
    BY ProcessesAssumption DEF Processes
  <1>2. bound[p] = OwnId(job[p].unit) /\ job[p].trace = OwnId(job[p].unit)
    BY DEF IdInv, TraceInv, RequestHasId
  <1>3. /\ job'[p].unit = job[p].unit /\ job'[p].op = job[p].op
        /\ job'[p].trace = job[p].trace /\ DOMAIN job'[p] = Fields
    BY DEF Continues, GoesOn, Kept
  <1>4. \A o \in job'[p].out : HasId(job'[p], o)
    <2>1. \A o \in job'[p].out : o \in job[p].out \/ o.id = OwnId(job[p].unit)
      BY <1>2 DEF Continues, GoesOn
    <2>2. \A o \in job[p].out : HasId(job[p], o)
      BY <1>1 DEF IdInv, TraceInv
    <2> QED
      BY <1>3, <2>1, <2>2 DEF HasId
  <1>5. RequestHasId(p)'
    BY <1>2, <1>3 DEF RequestHasId, Continues
  <1>6. DOMAIN bound' = Processes
    BY DEF Continues, IdInv, RecordInv
  <1> QED
    BY <1>1, <1>3, <1>4, <1>5, <1>6, TraceOfOne DEF Continues

\* An id that came with the task is found again, any other is a new one.
LEMMA ExtractedAgain ==
    ASSUME NEW e \in Executions
    PROVE  /\ ExtractTraceId(e, 1) = OwnId(e)
           /\ ExtractTraceId(e, 2) \in {OwnId(e), GenerateTraceId(e, 2)}
  <1>1. e \notin Requests
    BY UnitsAssumption
  <1> QED
    BY <1>1 DEF ExtractTraceId, OwnId

\* A step of a task: the job of its worker is k then, and its variable holds id.
LEMMA TaskMoves ==
    ASSUME IdInv, NEW p \in Workers, NEW k, Move(p, k), DOMAIN k = Fields,
           NEW id, bound'[p] = id, bound' = bound \/ bound' = [bound EXCEPT ![p] = id],
           \A o \in k.out : HasId(k, o),
           k.at \in {"running", "raised"} => k.unit \in Executions /\ id = OwnId(k.unit),
           k.at = "raised" => k.op = "failed_task",
           k.at = "ran" => \/ id = OwnId(k.unit)
                           \/ k.op = "failed_task" /\ id = GenerateTraceId(k.unit, 2)
    PROVE  IdInv'
  <1>1. p \in Processes /\ p \notin Threads
    BY ProcessesAssumption DEF Processes
  <1>2. /\ job'[p] = k /\ DOMAIN job' = Processes
        /\ \A q \in Processes : q # p => job'[q] = job[q]
    BY <1>1, Moved DEF IdInv
  <1>3. /\ DOMAIN bound' = Processes /\ bound'[p] = id
        /\ \A q \in Processes : q # p => bound'[q] = bound[q]
    BY <1>1 DEF IdInv, RecordInv
  <1>4. TaskHasId(p)'
    BY <1>2, <1>3 DEF TaskHasId
  <1> QED
    BY <1>1, <1>2, <1>3, <1>4, TraceOfOne

LEMMA TaskKeepsIds ==
    ASSUME IdInv, NEW p \in Workers, TaskStep(p)
    PROVE  IdInv'
  <1> DEFINE id1 == OwnId(job[p].unit)
  <1>1. p \in Processes /\ DOMAIN job[p] = Fields /\ TaskHasId(p)
        /\ \A o \in job[p].out : HasId(job[p], o)
    BY DEF Processes, IdInv, RecordInv, TraceInv
  <1>2. \A id : bound' = [bound EXCEPT ![p] = id] => bound'[p] = id
    BY <1>1 DEF IdInv, RecordInv
  <1>3. CASE TaskPrerun(p)
    <2>1. PICK e \in Executions :
             LET id == ExtractTraceId(e, 1) IN
             /\ bound' = [bound EXCEPT ![p] = id]
             /\ Move(p, Put([NoJob EXCEPT !.unit = e, !.op = "task", !.at = "running",
                                          !.trace = id], "started", id))
      BY <1>3 DEF TaskPrerun
    <2> DEFINE id == ExtractTraceId(e, 1)
               j == [NoJob EXCEPT !.unit = e, !.op = "task", !.at = "running", !.trace = id]
               k == Put(j, "started", id)
    <2>2. DOMAIN j = Fields /\ j.unit = e /\ j.at = "running" /\ j.out = {}
      BY DEF NoJob, Fields
    <2>3. Move(p, k) /\ bound' = [bound EXCEPT ![p] = id]
      BY <2>1
    <2> HIDE DEF j, id
    <2>4. DOMAIN k = Fields /\ k.unit = e /\ k.at = "running"
      BY <2>2, PutFields DEF Fields
    <2>5. \A o \in k.out : o.id = id
      BY <2>2, PutFields
    <2>6. k.unit \in Executions /\ id = OwnId(k.unit)
      BY <2>4, ExtractedAgain DEF id
    <2> HIDE DEF k
    <2> QED
      BY <1>2, <2>3, <2>4, <2>5, <2>6, TaskMoves DEF HasId
  <1>4. \* What the task writes itself has the id bound for it.
        ASSUME job[p].at = "running"
        PROVE  /\ bound[p] = id1 /\ job[p].unit \in Executions
               /\ DOMAIN Audit(p) = Fields
               /\ \A f \in Fields \ {"out"} : Audit(p)[f] = job[p][f]
               /\ \A o \in Audit(p).out : o \in job[p].out \/ o.id = id1
    <2>1. bound[p] = id1 /\ job[p].unit \in Executions
      BY <1>1, <1>4 DEF TaskHasId
    <2>2. DOMAIN Audit(p) = Fields
          /\ (\A f \in Fields \ {"out"} : Audit(p)[f] = job[p][f])
          /\ Audit(p).out = job[p].out \cup {[kind |-> "audit", id |-> bound[p]]}
      BY <1>1, PutFields DEF Audit
    <2> QED
      BY <2>1, <2>2
  <1>5. CASE TaskReturns(p)
    <2> DEFINE k == [Audit(p) EXCEPT !.at = "ran"]
    <2>1. job[p].at = "running" /\ Move(p, k) /\ bound' = bound
      BY <1>5 DEF TaskReturns
    <2>2. DOMAIN k = Fields /\ k.unit = job[p].unit /\ k.op = job[p].op /\ k.at = "ran"
          /\ k.out = Audit(p).out
      BY <1>4, <2>1 DEF Fields
    <2> HIDE DEF k
    <2>3. \A o \in k.out : HasId(k, o)
      BY <1>1, <1>4, <2>1, <2>2 DEF HasId
    <2> QED
      BY <1>2, <1>4, <2>1, <2>2, <2>3, TaskMoves
  <1>6. CASE TaskRaises(p)
    <2> DEFINE k1 == [Audit(p) EXCEPT !.at = "raised", !.op = "failed_task"]
               k2 == [job[p] EXCEPT !.at = "raised", !.op = "failed_task"]
    <2>1. job[p].at = "running" /\ bound' = bound /\ (Move(p, k1) \/ Move(p, k2))
      BY <1>6 DEF TaskRaises
    <2>2. DOMAIN k1 = Fields /\ k1.unit = job[p].unit /\ k1.op = "failed_task"
          /\ k1.at = "raised" /\ k1.out = Audit(p).out
      BY <1>4, <2>1 DEF Fields
    <2>3. DOMAIN k2 = Fields /\ k2.unit = job[p].unit /\ k2.op = "failed_task"
          /\ k2.at = "raised" /\ k2.out = job[p].out
      BY <1>1 DEF Fields
    <2> HIDE DEF k1, k2
    <2>4. (\A o \in k1.out : HasId(k1, o)) /\ (\A o \in k2.out : HasId(k2, o))
      BY <1>1, <1>4, <2>1, <2>2, <2>3 DEF HasId
    <2>5. CASE Move(p, k1)
      BY <1>2, <1>4, <2>1, <2>2, <2>4, <2>5, TaskMoves
    <2>6. CASE Move(p, k2)
      BY <1>2, <1>4, <2>1, <2>3, <2>4, <2>6, TaskMoves
    <2> QED
      BY <2>1, <2>5, <2>6
  <1>7. CASE LogTaskFailure(p)
    <2> DEFINE id == ExtractTraceId(job[p].unit, 2)
               ran == [job[p] EXCEPT !.at = "ran"]
               k == Put(ran, "failure", id)
    <2>1. job[p].at = "raised" /\ bound' = [bound EXCEPT ![p] = id]
          /\ (Move(p, k) \/ Move(p, ran))
      BY <1>7 DEF LogTaskFailure
    <2>2. job[p].op = "failed_task" /\ job[p].unit \in Executions
      BY <1>1, <2>1 DEF TaskHasId
    <2>3. DOMAIN ran = Fields /\ ran.unit = job[p].unit /\ ran.op = "failed_task"
          /\ ran.at = "ran" /\ ran.out = job[p].out
      BY <1>1, <2>2 DEF Fields
    <2>4. id = OwnId(job[p].unit) \/ id = GenerateTraceId(job[p].unit, 2)
      BY <2>2, ExtractedAgain
    <2> HIDE DEF ran, id
    <2>5. DOMAIN k = Fields /\ k.unit = job[p].unit /\ k.op = "failed_task" /\ k.at = "ran"
          /\ k.out = job[p].out \cup {[kind |-> "failure", id |-> id]}
      BY <2>3, PutFields DEF Fields
    <2> HIDE DEF k
    <2>6. \A o \in ran.out : HasId(ran, o)
      BY <1>1, <2>2, <2>3 DEF HasId
    <2>7. \A o \in k.out : HasId(k, o)
      BY <1>1, <2>2, <2>4, <2>5 DEF HasId
    <2>8. CASE Move(p, k)
      BY <1>2, <2>1, <2>4, <2>5, <2>7, <2>8, TaskMoves
    <2>9. CASE Move(p, ran)
      BY <1>2, <2>1, <2>3, <2>4, <2>6, <2>9, TaskMoves
    <2> QED
      BY <2>1, <2>8, <2>9
  <1>8. CASE TaskPostrun(p)
    <2> DEFINE j == Put(job[p], "finished", bound[p])
               k == [j EXCEPT !.at = "finished"]
    <2>1. job[p].at = "ran" /\ Move(p, k) /\ bound' = [bound EXCEPT ![p] = Unbound]
      BY <1>8 DEF TaskPostrun
    <2>2. DOMAIN j = Fields /\ j.unit = job[p].unit /\ j.op = job[p].op
          /\ j.out = job[p].out \cup {[kind |-> "finished", id |-> bound[p]]}
      BY <1>1, PutFields DEF Fields
    <2> HIDE DEF j
    <2>3. DOMAIN k = Fields /\ k.unit = job[p].unit /\ k.op = job[p].op /\ k.at = "finished"
          /\ k.out = job[p].out \cup {[kind |-> "finished", id |-> bound[p]]}
      BY <2>2 DEF Fields
    <2> HIDE DEF k
    <2>4. \A o \in k.out : HasId(k, o)
      BY <1>1, <2>1, <2>3 DEF HasId, TaskHasId
    <2> QED
      BY <1>2, <2>1, <2>3, <2>4, TaskMoves
  <1>9. CASE WorkerKilled(p)
    BY <1>2, <1>9, NoJobFields, TaskMoves DEF WorkerKilled
  <1> QED
    BY <1>3, <1>5, <1>6, <1>7, <1>8, <1>9 DEF TaskStep

LEMMA FinishKeepsIds ==
    ASSUME IdInv, NEW p \in Processes, Finish(p)
    PROVE  IdInv'
  <1>1. /\ job'[p] = NoJob /\ DOMAIN job' = Processes
        /\ \A q \in Processes : q # p => job'[q] = job[q]
    BY Moved DEF IdInv, Finish
  <1>2. bound' = bound /\ DOMAIN bound' = Processes
    BY DEF IdInv, RecordInv, Finish
  <1>3. RequestHasId(p)' /\ TaskHasId(p)'
    BY <1>1, NoJobFields DEF RequestHasId, TaskHasId
  <1> QED
    BY <1>1, <1>2, <1>3, NoJobFields, TraceOfOne

LEMMA OutageKeepsIds ==
    ASSUME IdInv, NEW d, GoesDown(d)
    PROVE  IdInv'
  <1>1. ASSUME NEW p \in Processes
        PROVE  /\ DOMAIN job' = Processes /\ bound' = bound /\ DOMAIN job'[p] = Fields
               /\ job'[p].unit = job[p].unit /\ job'[p].op = job[p].op
               /\ job'[p].at = job[p].at /\ job'[p].trace = job[p].trace
               /\ job'[p].out = job[p].out
    BY OutageFields DEF IdInv, Fields
  <1>2. DOMAIN job' = Processes /\ bound' = bound
    BY DEF GoesDown
  <1>3. RecordInv'
    BY <1>1, <1>2 DEF IdInv, RecordInv
  <1>4. \A p \in Processes : \A o \in job'[p].out : HasId(job'[p], o)
    BY <1>1 DEF IdInv, TraceInv, HasId
  <1>5. \A p \in Threads : RequestHasId(p)'
    BY <1>1, <1>2 DEF IdInv, TraceInv, RequestHasId, Processes
  <1>6. \A p \in Workers : TaskHasId(p)'
    BY <1>1, <1>2 DEF IdInv, TraceInv, TaskHasId, Processes
  <1> QED
    BY <1>3, <1>4, <1>5, <1>6 DEF IdInv, TraceInv

LEMMA RequestIsRunning ==
    ASSUME NEW p, ReadinessStep(p) \/ SessionStep(p)
    PROVE  job[p].at # "idle"
  <1>1. CASE ReadinessStep(p)
    BY <1>1 DEF ReadinessStep, CheckDatabase, SetProbe, GetProbe, DeleteProbe, CheckBroker,
                CheckWorkers, AnswerReady, AnswerLive
  <1>2. CASE FindUser(p) \/ Authenticate(p) \/ IssueTokens(p)
    BY <1>2 DEF FindUser, Authenticate, IssueTokens
  <1>3. CASE DecodeToken(p) \/ Blacklist(p) \/ LogLogout(p) \/ Refresh(p)
    BY <1>3 DEF DecodeToken, Blacklist, LogLogout, Refresh
  <1>4. CASE \/ AuthenticateJWT(p) \/ ValidateProfile(p) \/ GetProfile(p) \/ SaveProfile(p)
             \/ LogProfile(p)
    BY <1>4 DEF AuthenticateJWT, ValidateProfile, GetProfile, SaveProfile, LogProfile
  <1> QED
    BY <1>1, <1>2, <1>3, <1>4 DEF SessionStep

LEMMA StepKeepsIds == IdInv /\ [Next]_vars => IdInv'
  <1> SUFFICES ASSUME IdInv, [Next]_vars PROVE IdInv'
    OBVIOUS
  <1>1. RecordInv
    BY DEF IdInv
  <1>2. \* Neither the processes nor their variables.
        ASSUME job' = job, bound' = bound
        PROVE  IdInv'
    BY <1>2 DEF IdInv, RecordInv, TraceInv, RequestHasId, TaskHasId
  <1>3. ASSUME NEW p \in Threads, Begin(p)
        PROVE  IdInv'
    BY <1>3, BeginKeepsIds
  <1>4. ASSUME NEW p \in Threads, ReadinessStep(p) \/ SessionStep(p)
        PROVE  IdInv'
    <2>1. p \in Processes /\ job[p].at # "idle"
      BY <1>4, RequestIsRunning DEF Processes
    <2>2. PICK at : at # "idle" /\ Continues(p, at)
      <3>1. CASE ReadinessStep(p)
        BY <1>1, <2>1, <3>1, ReadinessContinues
      <3>2. CASE \/ FindUser(p) \/ Authenticate(p) \/ IssueTokens(p)
                 \/ DecodeToken(p) \/ Blacklist(p) \/ LogLogout(p) \/ Refresh(p)
        BY <1>1, <2>1, <3>2, SessionContinues
      <3>3. CASE \/ AuthenticateJWT(p) \/ ValidateProfile(p) \/ GetProfile(p) \/ SaveProfile(p)
                 \/ LogProfile(p)
        BY <1>1, <2>1, <3>3, ProfileContinues
      <3> QED
        BY <1>4, <3>1, <3>2, <3>3 DEF SessionStep
    <2> QED
      BY <2>1, <2>2, ContinuesKeepsIds
  <1>5. CASE BackgroundStep
    <2>1. ASSUME NEW p \in Workers, TaskStep(p) PROVE IdInv'
      BY <2>1, TaskKeepsIds
    <2>2. ASSUME NEW p \in Processes, Finish(p) PROVE IdInv'
      BY <2>2, FinishKeepsIds
    <2>3. ASSUME NEW d \in Dependencies, GoesDown(d) \/ ComesBack(d) PROVE IdInv'
      BY <1>2, <2>3, OutageKeepsIds DEF ComesBack
    <2>4. CASE ProbeExpires
      BY <1>2, <2>4 DEF ProbeExpires, contextVars
    <2>5. CASE AccountRegistered \/ AccountVerified
      BY <1>2, <2>5 DEF AccountRegistered, AccountVerified, contextVars
    <2> QED
      BY <1>5, <2>1, <2>2, <2>3, <2>4, <2>5 DEF BackgroundStep
  <1>6. CASE vars' = vars
    BY <1>2, <1>6 DEF vars, contextVars
  <1> QED
    BY <1>3, <1>4, <1>5, <1>6 DEF Next, RequestStep

\* Every line, record, body and header has the id of the request or the execution
\* it was written for, after whatever the process ran before: TraceIdMiddleware
\* and the hooks of Celery hand nothing over.
THEOREM IdsAreKept == Spec => []TraceIdsKept
  <1>1. Init => IdInv
    BY InitIds
  <1>2. IdInv /\ [Next]_vars => IdInv'
    BY StepKeepsIds
  <1>3. IdInv => TraceIdsKept
    BY DEF IdInv, TraceInv, HasId, TraceIdsKept
  <1> QED
    BY <1>1, <1>2, <1>3, PTL DEF Spec

-----------------------------------------------------------------------------
(* The profile.                                                             *)

\* What a PATCH has read of the row is still there, but for the fields that
\* were written since.
ReadIsCurrent(p) ==
    job[p].at = "profile_read" =>
        \A f \in ProfileFields : job[p].copy[f] = profile[f] \/ f \in seen[p].ever

CopyInv == \A p \in Threads : ReadIsCurrent(p)

\* What was read in an earlier step stays so.
LEMMA ReadStaysCurrent ==
    ASSUME Observe, NEW p \in Threads, ReadIsCurrent(p),
           job'[p].at = job[p].at, job'[p].copy = job[p].copy
    PROVE  ReadIsCurrent(p)'
  <1> SUFFICES ASSUME job'[p].at = "profile_read", NEW f \in ProfileFields
               PROVE  job'[p].copy[f] = profile'[f] \/ f \in seen'[p].ever
    BY DEF ReadIsCurrent
  <1>1. seen'[p] = [ever |-> seen[p].ever \cup Facts(p)'
                                \cup {g \in ProfileFields : profile'[g] # profile[g]},
                    always |-> seen[p].always \cap Facts(p)']
    BY Observed
  <1>2. seen[p].ever \subseteq seen'[p].ever /\ (profile'[f] # profile[f] => f \in seen'[p].ever)
    BY <1>1
  <1>3. job[p].copy[f] = profile[f] \/ f \in seen[p].ever
    BY DEF ReadIsCurrent
  <1> QED
    BY <1>2, <1>3

\* What one step does to the request of thread p: it goes on, or it is begun,
\* over or untouched.
LEMMA StepOfThread ==
    ASSUME RecordInv, [Next]_vars, NEW p \in Threads
    PROVE  \/ ReadinessStep(p) /\ UNCHANGED sessionVars
           \/ SessionStep(p) /\ UNCHANGED probe
           \/ Begin(p) /\ UNCHANGED <<probe, sessionVars>>
           \/ Finish(p)
           \/ job'[p] = job[p]
           \/ \E d : GoesDown(d)
  <1>1. p \in Processes /\ p \notin Workers
    BY ProcessesAssumption DEF Processes
  <1>2. ASSUME NEW q \in Threads, q # p, Begin(q)
        PROVE  job'[p] = job[p]
    <2>1. q \in Processes
      BY DEF Processes
    <2> QED
      BY <1>1, <1>2, <2>1, BeginStarts
  <1>3. ASSUME NEW q \in Threads, q # p, ReadinessStep(q) \/ SessionStep(q)
        PROVE  job'[p] = job[p]
    <2>1. \E at : Continues(q, at)
      BY <1>3, ReadinessContinues, SessionContinues, ProfileContinues DEF SessionStep, Processes
    <2> QED
      BY <1>1, <1>3, <2>1 DEF Continues
  <1>4. CASE \E q \in Threads : RequestStep(q)
    BY <1>2, <1>3, <1>4 DEF RequestStep
  <1>5. ASSUME NEW q \in Workers, TaskStep(q)
        PROVE  job'[p] = job[p]
    <2>1. \E j : Move(q, j)
      <3>1. CASE TaskPrerun(q) \/ TaskReturns(q) \/ TaskRaises(q)
        BY <3>1 DEF TaskPrerun, TaskReturns, TaskRaises
      <3>2. CASE LogTaskFailure(q) \/ TaskPostrun(q) \/ WorkerKilled(q)
        BY <3>2 DEF LogTaskFailure, TaskPostrun, WorkerKilled
      <3> QED
        BY <1>5, <3>1, <3>2 DEF TaskStep
    <2>2. p # q /\ q \in Processes
      BY <1>1 DEF Processes
    <2> QED
      BY <1>1, <2>1, <2>2, Moved
  <1>6. ASSUME NEW q \in Processes, q # p, Finish(q)
        PROVE  job'[p] = job[p]
    BY <1>1, <1>6, Moved DEF Finish
  <1>7. CASE BackgroundStep
    <2>1. CASE \E q \in Workers : TaskStep(q)
      BY <1>5, <2>1
    <2>2. CASE \E q \in Processes : Finish(q)
      BY <1>6, <2>2
    <2>3. CASE \E d \in Dependencies : GoesDown(d) \/ ComesBack(d)
      BY <2>3 DEF ComesBack
    <2>4. CASE ProbeExpires
      BY <2>4 DEF ProbeExpires, contextVars
    <2>5. CASE AccountRegistered \/ AccountVerified
      BY <2>5 DEF AccountRegistered, AccountVerified, contextVars
    <2> QED
      BY <1>7, <2>1, <2>2, <2>3, <2>4, <2>5 DEF BackgroundStep
  <1>8. CASE vars' = vars
    BY <1>8 DEF vars, contextVars
  <1> QED
    BY <1>4, <1>7, <1>8 DEF Next

LEMMA InitCopy == Init => CopyInv
  <1> SUFFICES ASSUME Init, NEW p \in Threads PROVE ReadIsCurrent(p)
    BY DEF CopyInv
  <1>1. job[p].at = "idle"
    BY NoJobFields DEF Init, Processes
  <1> QED
    BY <1>1 DEF ReadIsCurrent

LEMMA StepKeepsCopy == RecordInv /\ CopyInv /\ [Next]_vars => CopyInv'
  <1> SUFFICES ASSUME RecordInv, CopyInv, [Next]_vars, NEW p \in Threads PROVE ReadIsCurrent(p)'
    BY DEF CopyInv
  <1>1. ReadIsCurrent(p) /\ p \in Processes
    BY DEF CopyInv, Processes
  <1>2. CASE vars' = vars
    BY <1>1, <1>2 DEF vars, contextVars, sessionVars, ReadIsCurrent
  <1>3. CASE ~(vars' = vars)
    <2>1. Observe
      BY <1>3 DEF Next
    <2>2. CASE job'[p] = job[p]
      BY <1>1, <2>1, <2>2, ReadStaysCurrent
    <2>3. CASE \E d : GoesDown(d)
      <3>1. job'[p].at = job[p].at /\ job'[p].copy = job[p].copy
        BY <1>1, <2>3, OutageFields DEF Fields
      <3> QED
        BY <1>1, <2>1, <3>1, ReadStaysCurrent
    <2>4. ASSUME job'[p].at # "profile_read" PROVE ReadIsCurrent(p)'
      BY <2>4 DEF ReadIsCurrent
    <2>5. CASE Finish(p)
      <3>1. job'[p] = NoJob
        BY <1>1, <2>5, Moved DEF Finish
      <3> QED
        BY <2>4, <3>1, NoJobFields
    <2>6. CASE Begin(p)
      BY <1>1, <2>4, <2>6, BeginStarts
    <2>7. CASE ReadinessStep(p)
      BY <1>1, <2>4, <2>7, ReadinessContinues DEF Continues
    <2>8. CASE SessionStep(p)
      <3>1. CASE \/ FindUser(p) \/ Authenticate(p) \/ IssueTokens(p)
                 \/ DecodeToken(p) \/ Blacklist(p) \/ LogLogout(p) \/ Refresh(p)
        BY <1>1, <2>4, <3>1, SessionContinues DEF Continues
      <3>2. CASE \/ AuthenticateJWT(p) \/ ValidateProfile(p) \/ GetProfile(p) \/ SaveProfile(p)
                 \/ LogProfile(p)
        <4>1. job'[p].at = "profile_read" => job'[p].copy = profile /\ profile' = profile
          BY <1>1, <3>2, ProfileContinues
        <4> QED
          BY <4>1 DEF ReadIsCurrent
      <3> QED
        BY <2>8, <3>1, <3>2 DEF SessionStep
    <2> QED
      BY <2>2, <2>3, <2>5, <2>6, <2>7, <2>8, StepOfThread
  <1> QED
    BY <1>2, <1>3

\* Only a PATCH writes the profile.
LEMMA ProfileWriter ==
    ASSUME RecordInv, [Next]_vars, profile' # profile
    PROVE  \E p \in Threads :
              /\ job[p].at = "profile_read" /\ job'[p].at = "profile_saved"
              /\ profile' = [f \in ProfileFields |->
                     IF f \in DOMAIN job[p].given THEN job[p].given[f] ELSE job[p].copy[f]]
  <1>1. ~(vars' = vars)
    BY DEF vars, sessionVars
  <1>2. ~BackgroundStep
    BY DEF BackgroundStep, sessionVars, AccountRegistered, AccountVerified
  <1>3. PICK p \in Threads : RequestStep(p)
    BY <1>1, <1>2 DEF Next
  <1>4. SessionStep(p) /\ p \in Processes
    BY <1>3 DEF RequestStep, sessionVars, Processes
  <1>5. \/ AuthenticateJWT(p) \/ ValidateProfile(p) \/ GetProfile(p) \/ SaveProfile(p)
        \/ LogProfile(p)
    BY <1>4, SessionContinues DEF SessionStep
  <1> QED
    BY <1>4, <1>5, ProfileContinues

\* A PATCH of the profile changes a field it does not give only if another wrote
\* that field after the first had begun: update_profile saves a row it may have
\* read before, but nothing that was over by then is undone.
THEOREM NothingOverIsUndone == Spec => UndoesOverlappingOnly
  <1>1. Init => IdInv /\ CopyInv
    BY InitIds, InitCopy
  <1>2. IdInv /\ CopyInv /\ [Next]_vars => IdInv' /\ CopyInv'
    BY StepKeepsIds, StepKeepsCopy DEF IdInv
  <1>3. IdInv /\ CopyInv /\ [Next]_vars =>
            [\A f \in ProfileFields : profile'[f] # profile[f] =>
                 \E p \in Threads :
                     /\ job[p].at = "profile_read" /\ job'[p].at = "profile_saved"
                     /\ f \in DOMAIN job[p].given \/ f \in seen[p].ever]_vars
    <2> SUFFICES ASSUME RecordInv, CopyInv, [Next]_vars,
                        NEW f \in ProfileFields, profile'[f] # profile[f]
                 PROVE  \E p \in Threads :
                           /\ job[p].at = "profile_read" /\ job'[p].at = "profile_saved"
                           /\ f \in DOMAIN job[p].given \/ f \in seen[p].ever
      BY DEF IdInv
    <2>1. PICK p \in Threads :
              /\ job[p].at = "profile_read" /\ job'[p].at = "profile_saved"
              /\ profile' = [g \in ProfileFields |->
                     IF g \in DOMAIN job[p].given THEN job[p].given[g] ELSE job[p].copy[g]]
      BY ProfileWriter
    <2>2. f \in DOMAIN job[p].given \/ profile'[f] = job[p].copy[f]
      BY <2>1
    <2>3. job[p].copy[f] = profile[f] \/ f \in seen[p].ever
      BY <2>1 DEF CopyInv, ReadIsCurrent
    <2> QED
      BY <2>1, <2>2, <2>3
  <1> QED
    BY <1>1, <1>2, <1>3, PTL DEF Spec, UndoesOverlappingOnly

-----------------------------------------------------------------------------
(* Answers.                                                                 *)

\* The checks of a probe that are over: what passed worked at some moment, and
\* what failed has a reason.
ProbeReason(j, ever, always) ==
    LET checked(d) == d \in j.failing \/ d \notin always IN
    /\ j.at = "begun" => j.failing = {}
    /\ j.at \in {"redis", "probe_set", "probe_read", "broker", "workers", "checked"} =>
           /\ j.op = "ready"
           /\ j.failing # {} => ever \cap (Dependencies \cup {"probe_gone"}) # {}
           /\ checked("database")
    /\ j.at \in {"broker", "workers", "checked"} => checked("redis")
    /\ j.at \in {"workers", "checked"} => checked("broker")
    /\ j.at = "checked" => checked("workers")

\* What a login, a logout and a profile request have found out.
StageReason(j, ever, always, revoked) ==
    /\ j.at \in {"found", "authenticated"} => j.op = "auth_login"
    /\ j.at = "authenticated" => j.with = "right" /\ "unverified" \notin always
    /\ j.at \in {"decoded", "blacklisted"} =>
           j.op = "auth_logout" /\ j.with \in Tokens /\ "revoked" \notin always
    /\ j.at = "blacklisted" => j.with \in revoked
    /\ j.at \in {"identified", "valid", "profile_read", "profile_saved"} =>
           /\ j.op \in {"profile_get", "profile_update"}
           /\ j.with = "valid" /\ "unverified" \notin always
    /\ j.op = "profile_get" => DOMAIN j.given = {}

AnswerReason(op, with, given, status, ever, always, revoked) ==
    /\ op = "ready" =>
           /\ status = 200 => always \cap Dependencies = {}
           /\ status = 503 => ever \cap (Dependencies \cup {"probe_gone"}) # {}
    /\ op = "auth_login" =>
           /\ status = 200 => with = "right" /\ "unverified" \notin always
           /\ status = 403 \/ (status = 401 /\ with = "right") => "unverified" \in ever
    /\ op \in {"auth_logout", "auth_refresh"} =>
           /\ status \in {200, 204} => with \in Tokens /\ "revoked" \notin always
           /\ status = 204 => with \in revoked
           /\ status = 401 /\ with \in Tokens =>
                  "revoked" \in ever \/ (op = "auth_logout" /\ "database" \in ever)
    /\ op \in {"profile_get", "profile_update"} =>
           /\ status \in {200, 400} => with = "valid" /\ "unverified" \notin always
           /\ status = 401 /\ with = "valid" => "unverified" \in ever
    /\ status = 500 => "database" \in ever \/ "malformed" \in DOMAIN given
    /\ status \notin Documented[op] =>
           \/ status = 500
           \/ status = 400 /\ with = "missing"
           \/ status = 401 /\ op = "auth_logout"

\* The reasons of request j so far, known from what was true at some and at all
\* times of it, and from the tokens that are revoked.
Reasons(j, ever, always, revoked) ==
    /\ j.lost => "database" \in ever
    /\ ProbeReason(j, ever, always)
    /\ StageReason(j, ever, always, revoked)
    /\ j.at = "answered" =>
           AnswerReason(j.op, j.with, j.given, j.answer.status, ever, always, revoked)

ReasonInv ==
    \A p \in Threads : job[p].at # "idle" =>
        /\ seen[p].always \subseteq Facts(p) /\ Facts(p) \subseteq seen[p].ever
        /\ Reasons(job[p], seen[p].ever, seen[p].always, blacklisted)

LEMMA DocumentedStatus ==
    /\ Documented["live"] = {200}
    /\ Documented["ready"] = {200, 503}
    /\ Documented["auth_login"] = {200, 401, 403}
    /\ Documented["auth_logout"] = {204, 400}
    /\ Documented["auth_refresh"] = {200, 401}
    /\ Documented["profile_get"] = {200, 401}
    /\ Documented["profile_update"] = {200, 400, 401}
  <1>1. /\ DOMAIN HealthDocs = {"live", "ready"} /\ DOMAIN SessionDocs = {"auth_login", "auth_logout"}
        /\ DOMAIN ProfileDocs = {"auth_refresh", "profile_get", "profile_update"}
    BY DEF HealthDocs, SessionDocs, ProfileDocs
  <1>2. \A op \in Operations :
            Documented[op] = IF op \in DOMAIN HealthDocs THEN HealthDocs[op]
                             ELSE IF op \in DOMAIN SessionDocs THEN SessionDocs[op]
                             ELSE ProfileDocs[op]
    BY <1>1 DEF Documented, Operations
  <1> QED
    BY <1>1, <1>2 DEF Operations, HealthDocs, SessionDocs, ProfileDocs

\* What was true at some time stays so, and what was true at all times may cease
\* to be; a request that waits keeps its reasons.
LEMMA ReasonsStay ==
    ASSUME NEW j, NEW k, NEW ever, NEW ever2, NEW always, NEW always2, NEW revoked, NEW revoked2,
           Reasons(j, ever, always, revoked),
           ever \subseteq ever2, always2 \subseteq always, revoked \subseteq revoked2,
           k.at = j.at, k.op = j.op, k.with = j.with, k.given = j.given,
           k.failing = j.failing, k.answer = j.answer, k.lost => "database" \in ever2
    PROVE  Reasons(k, ever2, always2, revoked2)
  <1>1. ProbeReason(k, ever2, always2)
    BY DEF Reasons, ProbeReason
  <1>2. StageReason(k, ever2, always2, revoked2)
    BY DEF Reasons, StageReason
  <1>3. ASSUME k.at = "answered"
        PROVE  AnswerReason(k.op, k.with, k.given, k.answer.status, ever2, always2, revoked2)
    <2>1. AnswerReason(k.op, k.with, k.given, k.answer.status, ever, always, revoked)
      BY <1>3 DEF Reasons
    <2> QED
      BY <2>1 DEF AnswerReason
  <1> QED
    BY <1>1, <1>2, <1>3 DEF Reasons

\* What the state says of a request with the facts ever and always.
Explained(p, ever, always) ==
    /\ \A d \in Dependencies : (d \in down => d \in ever) /\ (d \notin down => d \notin always)
    /\ DatabaseFails(p) => "database" \in ever
    /\ DatabaseWorks(p) => "database" \notin always
    /\ IF user # "active" THEN "unverified" \in ever ELSE "unverified" \notin always
    /\ IF job[p].with \in blacklisted THEN "revoked" \in ever ELSE "revoked" \notin always
    /\ job[p].at = "probe_set" /\ ~probe => "probe_gone" \in ever

LEMMA FactsExplain ==
    ASSUME down \subseteq Dependencies, NEW p, NEW ever, NEW always,
           Facts(p) \subseteq ever, always \subseteq Facts(p), job[p].lost => "database" \in ever
    PROVE  Explained(p, ever, always)
  BY DEF Explained, Facts, Dependencies, DatabaseFails, DatabaseWorks

LEMMA AnsweredReasons ==
    ASSUME NEW p, NEW ever, NEW always, NEW revoked, NEW revoked2, Continues(p, "answered"),
           Reasons(job[p], ever, always, revoked),
           AnswerReason(job[p].op, job[p].with, job[p].given, job'[p].answer.status,
                        ever, always, revoked2)
    PROVE  Reasons(job'[p], ever, always, revoked2)
  BY DEF Continues, GoesOn, Kept, Reasons, ProbeReason, StageReason

LEMMA FailedReason ==
    ASSUME NEW p, NEW ever, NEW always, NEW revoked,
           "database" \in ever \/ "malformed" \in DOMAIN job[p].given
    PROVE  AnswerReason(job[p].op, job[p].with, job[p].given, 500, ever, always, revoked)
  BY DEF AnswerReason

LEMMA FailsReasons ==
    ASSUME RecordInv, NEW p \in Processes, NEW ever, NEW always, NEW revoked, NEW revoked2,
           Explained(p, ever, always), Reasons(job[p], ever, always, revoked),
           Fails(p), bound' = bound
    PROVE  Reasons(job'[p], ever, always, revoked2)
  <1>1. Continues(p, "answered") /\ job'[p].answer.status = 500
    BY FailsContinues
  <1>2. "database" \in ever
    BY DEF Fails, Explained
  <1>3. AnswerReason(job[p].op, job[p].with, job[p].given, 500, ever, always, revoked2)
    BY <1>2, FailedReason
  <1> QED
    BY <1>1, <1>3, AnsweredReasons

LEMMA LogAndReplyReasons ==
    ASSUME RecordInv, NEW p \in Processes, NEW ever, NEW always, NEW revoked, NEW revoked2,
           Explained(p, ever, always), Reasons(job[p], ever, always, revoked),
           NEW status, LogAndReply(p, status), bound' = bound,
           AnswerReason(job[p].op, job[p].with, job[p].given, status, ever, always, revoked2)
    PROVE  Reasons(job'[p], ever, always, revoked2)
  <1>1. /\ Continues(p, "answered")
        /\ job'[p].answer.status = status \/ (job'[p].answer.status = 500 /\ DatabaseFails(p))
    BY LogAndReplyContinues
  <1>2. DatabaseFails(p) =>
            AnswerReason(job[p].op, job[p].with, job[p].given, 500, ever, always, revoked2)
    BY FailedReason DEF Explained
  <1> QED
    BY <1>1, <1>2, AnsweredReasons

LEMMA RaiseReasons ==
    ASSUME RecordInv, NEW p \in Processes, NEW ever, NEW always, NEW revoked, NEW revoked2,
           Reasons(job[p], ever, always, revoked), NEW exc, Raise(p, exc), bound' = bound,
           AnswerReason(job[p].op, job[p].with, job[p].given, Handle(exc).status,
                        ever, always, revoked2)
    PROVE  Reasons(job'[p], ever, always, revoked2)
  BY RaiseContinues, AnsweredReasons

\* The statuses of the exceptions these requests raise.
LEMMA HandledStatus ==
    /\ Handle(ValidationError).status = 400
    /\ Handle(Unexpected).status = 500
    /\ \A status, code : Handle(ApiError(status, code)).status = status
    /\ \A status, says : Handle(APIException(status, says)).status = status
  <1>1. Handle(ValidationError).status = 400
    BY DEF Handle, ValidationError, Answer
  <1>2. Handle(Unexpected).status = 500
    BY DEF Handle, Unexpected, ServerError, Answer
  <1>3. ASSUME NEW status, NEW code PROVE Handle(ApiError(status, code)).status = status
    BY DEF Handle, ApiError, Answer
  <1>4. ASSUME NEW status, NEW says PROVE Handle(APIException(status, says)).status = status
    BY DEF Handle, APIException, Answer
  <1> QED
    BY <1>1, <1>2, <1>3, <1>4

-----------------------------------------------------------------------------
(* The reasons after each step of a request.                                *)

LEMMA ReadinessReasons ==
    ASSUME RecordInv, NEW p \in Processes, NEW ever, NEW always, NEW revoked,
           Explained(p, ever, always), Reasons(job[p], ever, always, revoked), ReadinessStep(p)
    PROVE  Reasons(job'[p], ever, always, revoked)
  <1> DEFINE j == job[p]
             k == job'[p]
  <1>1. ProbeReason(j, ever, always) /\ (j.lost => "database" \in ever)
        /\ (j.op = "profile_get" => DOMAIN j.given = {})
    BY DEF Reasons, StageReason
  <1>2. \* A check is over.
        ASSUME NEW at, Continues(p, at), at \notin {"begun", "answered"},
               ProbeReason(k, ever, always),
               at \in {"redis", "probe_set", "probe_read", "broker", "workers", "checked"}
        PROVE  Reasons(k, ever, always, revoked)
    <2>1. StageReason(k, ever, always, revoked)
      BY <1>1, <1>2 DEF StageReason, Continues, GoesOn, Kept
    <2>2. k.lost => "database" \in ever
      BY <1>1, <1>2 DEF Continues, GoesOn, Kept
    <2> QED
      BY <1>2, <2>1, <2>2 DEF Reasons, Continues
  <1>3. CASE CheckDatabase(p)
    <2>1. /\ bound' = bound
          /\ \/ DatabaseWorks(p) /\ Checked(p, "database", TRUE, "redis")
             \/ DatabaseFails(p) /\ Checked(p, "database", FALSE, "redis")
      BY <1>3 DEF CheckDatabase
    <2>2. /\ Continues(p, "redis")
          /\ \/ DatabaseWorks(p) /\ k.failing = j.failing
             \/ DatabaseFails(p) /\ k.failing = j.failing \cup {"database"}
      BY <2>1, CheckedContinues
    <2>3. j.at = "begun" /\ j.op = "ready" /\ k.at = "redis" /\ k.op = "ready"
      BY <1>3, <2>2 DEF CheckDatabase, Continues, GoesOn, Kept
    <2>4. j.failing = {}
      BY <1>1, <2>3 DEF ProbeReason
    <2>5. ProbeReason(k, ever, always)
      BY <2>2, <2>3, <2>4 DEF ProbeReason, Explained, Dependencies
    <2> QED
      BY <1>2, <2>2, <2>5
  <1>4. \* The checks after that of the database.
        ASSUME NEW d \in {"redis", "broker", "workers"}, NEW at, Continues(p, at),
               \/ k.failing = j.failing /\ d \notin always
               \/ /\ k.failing = j.failing \cup {d}
                  /\ ever \cap (Dependencies \cup {"probe_gone"}) # {},
               \/ d = "redis" /\ j.at \in {"redis", "probe_set", "probe_read"} /\ at = "broker"
               \/ d = "broker" /\ j.at = "broker" /\ at = "workers"
               \/ d = "workers" /\ j.at = "workers" /\ at = "checked"
        PROVE  Reasons(k, ever, always, revoked)
    <2>1. k.at = at /\ k.op = j.op
      BY <1>4 DEF Continues, GoesOn, Kept
    <2>2. ProbeReason(k, ever, always)
      BY <1>1, <1>4, <2>1 DEF ProbeReason
    <2> QED
      BY <1>2, <1>4, <2>2
  <1>5. \* The next step of a check.
        ASSUME NEW at \in {"probe_set", "probe_read"}, Goto(p, at), bound' = bound,
               j.at \in {"redis", "probe_set"}
        PROVE  Reasons(k, ever, always, revoked)
    <2>1. Continues(p, at) /\ k.failing = j.failing
      BY <1>5, GotoContinues
    <2>2. k.at = at /\ k.op = j.op
      BY <2>1 DEF Continues, GoesOn, Kept
    <2>3. ProbeReason(k, ever, always)
      BY <1>1, <1>5, <2>1, <2>2 DEF ProbeReason
    <2> QED
      BY <1>2, <2>1, <2>3
  <1>6. CASE SetProbe(p)
    <2>1. j.at = "redis" /\ bound' = bound
      BY <1>6 DEF SetProbe
    <2>2. CASE Unreachable("redis")
      <3>1. Checked(p, "redis", FALSE, "broker")
        BY <1>6, <2>2 DEF SetProbe
      <3>2. Continues(p, "broker") /\ k.failing = j.failing \cup {"redis"}
        BY <2>1, <3>1, CheckedContinues
      <3>3. "redis" \in ever
        BY <2>2 DEF Unreachable, Explained, Dependencies
      <3> QED
        BY <1>4, <2>1, <3>2, <3>3 DEF Dependencies
    <2>3. CASE ~Unreachable("redis")
      BY <1>5, <1>6, <2>1, <2>3 DEF SetProbe
    <2> QED
      BY <2>2, <2>3
  <1>7. CASE GetProbe(p)
    <2>1. j.at = "probe_set" /\ bound' = bound
      BY <1>7 DEF GetProbe
    <2>2. CASE Unreachable("redis") \/ ~probe
      <3>1. Checked(p, "redis", FALSE, "broker")
        BY <1>7, <2>2 DEF GetProbe
      <3>2. Continues(p, "broker") /\ k.failing = j.failing \cup {"redis"}
        BY <2>1, <3>1, CheckedContinues
      <3>3. "redis" \in ever \/ "probe_gone" \in ever
        BY <2>1, <2>2 DEF Unreachable, Explained, Dependencies
      <3> QED
        BY <1>4, <2>1, <3>2, <3>3 DEF Dependencies
    <2>3. CASE ~(Unreachable("redis") \/ ~probe)
      BY <1>5, <1>7, <2>1, <2>3 DEF GetProbe
    <2> QED
      BY <2>2, <2>3
  <1>8. \* The three that ask Redis or the broker once.
        ASSUME NEW d \in {"redis", "broker", "workers"}, NEW at, bound' = bound,
               \/ Checked(p, d, TRUE, at) /\ d \notin down
               \/ Checked(p, d, FALSE, at) /\ down \cap Dependencies # {},
               \/ d = "redis" /\ j.at \in {"redis", "probe_set", "probe_read"} /\ at = "broker"
               \/ d = "broker" /\ j.at = "broker" /\ at = "workers"
               \/ d = "workers" /\ j.at = "workers" /\ at = "checked"
        PROVE  Reasons(k, ever, always, revoked)
    <2>1. d \notin down => d \notin always
      BY DEF Explained, Dependencies
    <2>2. down \cap Dependencies # {} => ever \cap (Dependencies \cup {"probe_gone"}) # {}
      BY DEF Explained
    <2>3. /\ Continues(p, at)
          /\ \/ k.failing = j.failing /\ d \notin down
             \/ k.failing = j.failing \cup {d} /\ down \cap Dependencies # {}
      BY <1>8, CheckedContinues
    <2> QED
      BY <1>4, <1>8, <2>1, <2>2, <2>3
  <1>9. CASE DeleteProbe(p)
    <2>1. \/ Checked(p, "redis", TRUE, "broker") /\ "redis" \notin down
          \/ Checked(p, "redis", FALSE, "broker") /\ down \cap Dependencies # {}
      BY <1>9 DEF DeleteProbe, Unreachable, Checked, Dependencies
    <2> QED
      BY <1>8, <1>9, <2>1 DEF DeleteProbe
  <1>10. CASE CheckBroker(p)
    <2>1. \/ Checked(p, "broker", TRUE, "workers") /\ "broker" \notin down
          \/ Checked(p, "broker", FALSE, "workers") /\ down \cap Dependencies # {}
      BY <1>10 DEF CheckBroker, Unreachable, Checked, Dependencies
    <2> QED
      BY <1>8, <1>10, <2>1 DEF CheckBroker
  <1>11. CASE CheckWorkers(p)
    <2>1. \/ Checked(p, "workers", TRUE, "checked") /\ "workers" \notin down
          \/ Checked(p, "workers", FALSE, "checked") /\ down \cap Dependencies # {}
      BY <1>11 DEF CheckWorkers, Unreachable, Checked, Dependencies
    <2> QED
      BY <1>8, <1>11, <2>1 DEF CheckWorkers
  <1>12. GoesOn(j, j, {bound[p], j.trace})
    BY DEF RecordInv, GoesOn
  <1>13. CASE AnswerReady(p)
    <2>1. j.at = "checked" /\ j.op = "ready" /\ bound' = bound
      BY <1>1, <1>13 DEF AnswerReady, ProbeReason
    <2>2. CASE j.failing = {} /\ Reply(p, j, 200)
      <3>1. Continues(p, "answered") /\ k.answer = Success(200)
        BY <1>12, <2>1, <2>2, ReplyContinues
      <3>2. always \cap Dependencies = {}
        BY <1>1, <2>1, <2>2 DEF ProbeReason, Dependencies
      <3>3. AnswerReason(j.op, j.with, j.given, 200, ever, always, revoked)
        BY <2>1, <3>2, DocumentedStatus DEF AnswerReason
      <3>4. k.answer.status = 200
        BY <3>1 DEF Success, Answer
      <3> QED
        BY <3>1, <3>3, <3>4, AnsweredReasons
    <2>3. CASE j.failing # {} /\ Reply(p, Put(j, "audit", j.trace), 503)
      <3>1. GoesOn(j, Put(j, "audit", j.trace), {bound[p], j.trace})
        BY <1>12, PutGoesOn
      <3>2. Continues(p, "answered") /\ k.answer = Success(503)
        BY <2>1, <2>3, <3>1, ReplyContinues
      <3>3. ever \cap (Dependencies \cup {"probe_gone"}) # {}
        BY <1>1, <2>1, <2>3 DEF ProbeReason
      <3>4. AnswerReason(j.op, j.with, j.given, 503, ever, always, revoked)
        BY <2>1, <3>3, DocumentedStatus DEF AnswerReason
      <3>5. k.answer.status = 503
        BY <3>2 DEF Success, Answer
      <3> QED
        BY <3>2, <3>4, <3>5, AnsweredReasons
    <2>4. CASE DatabaseFails(p) /\ Raise(p, Unexpected)
      BY <2>1, <2>4, FailsReasons DEF Fails
    <2> QED
      BY <1>13, <2>2, <2>3, <2>4 DEF AnswerReady
  <1>14. CASE AnswerLive(p)
    <2>1. j.op = "live" /\ Continues(p, "answered") /\ k.answer = Success(200)
      BY <1>12, <1>14, ReplyContinues DEF AnswerLive
    <2>2. AnswerReason(j.op, j.with, j.given, 200, ever, always, revoked)
      BY <2>1, DocumentedStatus DEF AnswerReason
    <2>3. k.answer.status = 200
      BY <2>1 DEF Success, Answer
    <2> QED
      BY <2>1, <2>2, <2>3, AnsweredReasons
  <1> QED
    BY <1>3, <1>6, <1>7, <1>9, <1>10, <1>11, <1>13, <1>14 DEF ReadinessStep

\* A step to a stage of a session or of a profile request.
LEMMA StageReasons ==
    ASSUME NEW p, NEW ever, NEW always, NEW revoked, NEW revoked2,
           Reasons(job[p], ever, always, revoked),
           NEW at \in {"found", "authenticated", "decoded", "blacklisted", "identified", "valid",
                       "profile_read", "profile_saved"},
           Continues(p, at),
           at \in {"found", "authenticated"} => job[p].op = "auth_login",
           at = "authenticated" => job[p].with = "right" /\ "unverified" \notin always,
           at \in {"decoded", "blacklisted"} =>
               job[p].op = "auth_logout" /\ job[p].with \in Tokens /\ "revoked" \notin always,
           at = "blacklisted" => job[p].with \in revoked2,
           at \in {"identified", "valid", "profile_read", "profile_saved"} =>
               /\ job[p].op \in {"profile_get", "profile_update"}
               /\ job[p].with = "valid" /\ "unverified" \notin always
    PROVE  Reasons(job'[p], ever, always, revoked2)
  <1> DEFINE k == job'[p]
  <1>1. k.at = at /\ k.op = job[p].op /\ k.with = job[p].with /\ k.given = job[p].given
        /\ k.lost = job[p].lost
    BY DEF Continues, GoesOn, Kept
  <1> HIDE DEF k
  <1>2. ProbeReason(k, ever, always)
    BY <1>1 DEF ProbeReason
  <1>3. StageReason(k, ever, always, revoked2)
    BY <1>1 DEF StageReason, Reasons
  <1>4. Reasons(k, ever, always, revoked2)
    BY <1>1, <1>2, <1>3 DEF Reasons
  <1> QED
    BY <1>4 DEF k

LEMMA LoginReasons ==
    ASSUME RecordInv, NEW p \in Processes, NEW ever, NEW always,
           Explained(p, ever, always), Reasons(job[p], ever, always, blacklisted),
           FindUser(p) \/ Authenticate(p) \/ IssueTokens(p)
    PROVE  Reasons(job'[p], ever, always, blacklisted')
  <1> DEFINE j == job[p]
             Reason(status) ==
                 AnswerReason(j.op, j.with, j.given, status, ever, always, blacklisted')
  <1>1. bound' = bound
    BY DEF FindUser, Authenticate, IssueTokens
  <1>2. \A status : j.op = "auth_login" /\ status = 400 /\ j.with = "missing" => Reason(status)
    BY DocumentedStatus DEF AnswerReason
  <1>3. j.op = "auth_login" /\ "unverified" \in ever => Reason(403)
    BY DocumentedStatus DEF AnswerReason
  <1>4. j.op = "auth_login" /\ (j.with = "right" => "unverified" \in ever) => Reason(401)
    BY DocumentedStatus DEF AnswerReason
  <1>5. j.op = "auth_login" /\ j.with = "right" /\ "unverified" \notin always => Reason(200)
    BY DocumentedStatus DEF AnswerReason
  <1> HIDE DEF Reason
  <1>6. /\ j.at \in {"found", "authenticated"} => j.op = "auth_login"
        /\ j.at = "authenticated" => j.with = "right" /\ "unverified" \notin always
    BY DEF Reasons, StageReason
  <1>7. /\ user # "active" => "unverified" \in ever
        /\ user = "active" => "unverified" \notin always
    BY DEF Explained
  <1>8. \* An exception.
        ASSUME NEW exc, Raise(p, exc), Reason(Handle(exc).status)
        PROVE  Reasons(job'[p], ever, always, blacklisted')
    BY <1>1, <1>8, RaiseReasons DEF Reason
  <1>9. CASE FindUser(p)
    <2>1. j.op = "auth_login"
      BY <1>9 DEF FindUser
    <2>2. \/ j.with = "missing" /\ Raise(p, ValidationError)
          \/ Fails(p)
          \/ Goto(p, "found")
          \/ user = "inactive" /\ Raise(p, ApiError(403, "EMAIL_NOT_VERIFIED"))
          \/ j.with # "right" /\ Raise(p, ApiError(401, "INVALID_CREDENTIALS"))
      BY <1>9 DEF FindUser, InvalidCredentials
    <2>3. CASE Fails(p)
      BY <1>1, <2>3, FailsReasons
    <2>4. CASE Goto(p, "found")
      BY <1>1, <2>1, <2>4, GotoContinues, StageReasons
    <2>5. CASE j.with = "missing" /\ Raise(p, ValidationError)
      BY <1>2, <1>8, <2>1, <2>5, HandledStatus
    <2>6. CASE user = "inactive" /\ Raise(p, ApiError(403, "EMAIL_NOT_VERIFIED"))
      BY <1>3, <1>7, <1>8, <2>1, <2>6, HandledStatus
    <2>7. CASE j.with # "right" /\ Raise(p, ApiError(401, "INVALID_CREDENTIALS"))
      BY <1>4, <1>8, <2>1, <2>7, HandledStatus
    <2> QED
      BY <2>2, <2>3, <2>4, <2>5, <2>6, <2>7
  <1>10. CASE Authenticate(p)
    <2>1. j.op = "auth_login"
      BY <1>6, <1>10 DEF Authenticate
    <2>2. \/ Fails(p)
          \/ user = "active" /\ j.with = "right" /\ Goto(p, "authenticated")
          \/ /\ user # "active" \/ j.with # "right"
             /\ Raise(p, ApiError(401, "INVALID_CREDENTIALS"))
      BY <1>10 DEF Authenticate, InvalidCredentials
    <2>3. CASE Fails(p)
      BY <1>1, <2>3, FailsReasons
    <2>4. CASE user = "active" /\ j.with = "right" /\ Goto(p, "authenticated")
      BY <1>1, <1>7, <2>1, <2>4, GotoContinues, StageReasons
    <2>5. CASE /\ user # "active" \/ j.with # "right"
               /\ Raise(p, ApiError(401, "INVALID_CREDENTIALS"))
      BY <1>4, <1>7, <1>8, <2>1, <2>5, HandledStatus
    <2> QED
      BY <2>2, <2>3, <2>4, <2>5
  <1>11. CASE IssueTokens(p)
    <2>1. Reason(200) /\ LogAndReply(p, 200)
      BY <1>5, <1>6, <1>11 DEF IssueTokens
    <2> QED
      BY <1>1, <2>1, LogAndReplyReasons DEF Reason
  <1> QED
    BY <1>9, <1>10, <1>11

LEMMA LogoutReason ==
    ASSUME NEW j, j.op = "auth_logout", j.with \in Tokens, NEW ever, NEW always,
           "revoked" \notin always, NEW revoked, j.with \in revoked
    PROVE  AnswerReason(j.op, j.with, j.given, 204, ever, always, revoked)
  BY DocumentedStatus DEF AnswerReason

LEMMA TokenReasons ==
    ASSUME RecordInv, NEW p \in Processes, NEW ever, NEW always,
           Explained(p, ever, always), Reasons(job[p], ever, always, blacklisted),
           DecodeToken(p) \/ Blacklist(p) \/ LogLogout(p) \/ Refresh(p)
    PROVE  Reasons(job'[p], ever, always, blacklisted')
  <1> DEFINE j == job[p]
             Reason(status) ==
                 AnswerReason(j.op, j.with, j.given, status, ever, always, blacklisted')
  <1>1. bound' = bound
    BY DEF DecodeToken, Blacklist, LogLogout, Refresh
  <1>2. j.op \in {"auth_logout", "auth_refresh"} /\ j.with = "missing" => Reason(400)
    BY DocumentedStatus DEF AnswerReason
  <1>3. j.op = "auth_logout" /\ (j.with \in Tokens => "revoked" \in ever \/ "database" \in ever)
            => Reason(401)
    BY DocumentedStatus DEF AnswerReason
  <1>4. j.op = "auth_refresh" /\ (j.with \in Tokens => "revoked" \in ever) => Reason(401)
    BY DocumentedStatus DEF AnswerReason
  <1>5. j.op = "auth_logout" /\ j.with \in Tokens /\ "revoked" \notin always
            /\ j.with \in blacklisted' => Reason(204)
    BY LogoutReason
  <1>6. j.op = "auth_refresh" /\ j.with \in Tokens /\ "revoked" \notin always => Reason(200)
    BY DocumentedStatus DEF AnswerReason
  <1> HIDE DEF Reason
  <1>7. /\ j.at \in {"decoded", "blacklisted"} =>
               j.op = "auth_logout" /\ j.with \in Tokens /\ "revoked" \notin always
        /\ j.at = "blacklisted" => j.with \in blacklisted
    BY DEF Reasons, StageReason
  <1>8. /\ j.with \in blacklisted => "revoked" \in ever
        /\ j.with \notin blacklisted => "revoked" \notin always
        /\ DatabaseFails(p) => "database" \in ever
    BY DEF Explained
  <1>9. \* An exception.
        ASSUME NEW exc, Raise(p, exc), Reason(Handle(exc).status)
        PROVE  Reasons(job'[p], ever, always, blacklisted')
    BY <1>1, <1>9, RaiseReasons DEF Reason
  <1>10. CASE DecodeToken(p)
    <2>1. j.op = "auth_logout"
      BY <1>10 DEF DecodeToken
    <2>2. \/ j.with = "missing" /\ Raise(p, ValidationError)
          \/ j.with \in Tokens \ blacklisted /\ Goto(p, "decoded")
          \/ /\ j.with \notin Tokens \ blacklisted \/ DatabaseFails(p)
             /\ Raise(p, ApiError(401, "TOKEN_INVALID"))
      BY <1>10 DEF DecodeToken
    <2>3. CASE j.with = "missing" /\ Raise(p, ValidationError)
      BY <1>2, <1>9, <2>1, <2>3, HandledStatus
    <2>4. CASE j.with \in Tokens \ blacklisted /\ Goto(p, "decoded")
      BY <1>1, <1>8, <2>1, <2>4, GotoContinues, StageReasons
    <2>5. CASE /\ j.with \notin Tokens \ blacklisted \/ DatabaseFails(p)
               /\ Raise(p, ApiError(401, "TOKEN_INVALID"))
      BY <1>3, <1>8, <1>9, <2>1, <2>5, HandledStatus
    <2> QED
      BY <2>2, <2>3, <2>4, <2>5
  <1>11. CASE Blacklist(p)
    <2>1. j.op = "auth_logout" /\ j.with \in Tokens /\ "revoked" \notin always
      BY <1>7, <1>11 DEF Blacklist
    <2>2. CASE blacklisted' = blacklisted \cup {j.with} /\ Goto(p, "blacklisted")
      BY <1>1, <2>1, <2>2, GotoContinues, StageReasons
    <2>3. CASE DatabaseFails(p) /\ Raise(p, ApiError(401, "TOKEN_INVALID"))
      BY <1>3, <1>8, <1>9, <2>1, <2>3, HandledStatus
    <2> QED
      BY <1>11, <2>2, <2>3 DEF Blacklist
  <1>12. CASE LogLogout(p)
    <2>1. blacklisted' = blacklisted /\ LogAndReply(p, 204) /\ j.at = "blacklisted"
      BY <1>12 DEF LogLogout, sessionVars
    <2>2. Reason(204)
      BY <1>5, <1>7, <2>1
    <2> QED
      BY <1>1, <2>1, <2>2, LogAndReplyReasons DEF Reason
  <1>13. CASE Refresh(p)
    <2>1. j.op = "auth_refresh" /\ blacklisted' = blacklisted
      BY <1>13 DEF Refresh, sessionVars
    <2>2. \/ j.with = "missing" /\ Raise(p, ValidationError)
          \/ /\ j.with = "bad" \/ j.with \in blacklisted
             /\ Raise(p, APIException(401, "invalid or expired"))
          \/ Fails(p)
          \/ j.with \in Tokens \ blacklisted /\ Reply(p, j, 200)
      BY <1>13 DEF Refresh
    <2>3. CASE j.with = "missing" /\ Raise(p, ValidationError)
      BY <1>2, <1>9, <2>1, <2>3, HandledStatus
    <2>4. CASE /\ j.with = "bad" \/ j.with \in blacklisted
               /\ Raise(p, APIException(401, "invalid or expired"))
      <3>1. "bad" \notin Tokens
        BY TokensAssumption
      <3> QED
        <4>1. Reason(401)
          BY <1>4, <1>8, <2>1, <2>4, <3>1
        <4>2. PICK says : Raise(p, APIException(401, says))
          BY <2>4
        <4>3. Handle(APIException(401, says)).status = 401
          BY HandledStatus
        <4> QED
          BY <1>9, <4>1, <4>2, <4>3
    <2>5. CASE Fails(p)
      BY <1>1, <2>5, FailsReasons
    <2>6. CASE j.with \in Tokens \ blacklisted /\ Reply(p, j, 200)
      <3>1. GoesOn(j, j, {bound[p], j.trace})
        BY DEF RecordInv, GoesOn
      <3>2. Continues(p, "answered") /\ job'[p].answer = Success(200)
        BY <1>1, <2>6, <3>1, ReplyContinues
      <3>3. job'[p].answer.status = 200
        BY <3>2 DEF Success, Answer
      <3>4. Reason(200)
        BY <1>6, <1>8, <2>1, <2>6
      <3> QED
        BY <3>2, <3>3, <3>4, AnsweredReasons DEF Reason
    <2> QED
      BY <2>2, <2>3, <2>4, <2>5, <2>6
  <1> QED
    BY <1>10, <1>11, <1>12, <1>13

LEMMA ProfileReasons ==
    ASSUME RecordInv, NEW p \in Processes, NEW ever, NEW always,
           Explained(p, ever, always), Reasons(job[p], ever, always, blacklisted),
           AuthenticateJWT(p) \/ ValidateProfile(p) \/ GetProfile(p) \/ SaveProfile(p) \/ LogProfile(p)
    PROVE  Reasons(job'[p], ever, always, blacklisted')
  <1> DEFINE j == job[p]
             Reason(status) ==
                 AnswerReason(j.op, j.with, j.given, status, ever, always, blacklisted')
             Profile == j.op \in {"profile_get", "profile_update"}
             Admitted == Profile /\ j.with = "valid" /\ "unverified" \notin always
  <1>1. bound' = bound
    BY DEF AuthenticateJWT, ValidateProfile, GetProfile, SaveProfile, LogProfile
  <1>2. /\ Admitted => Reason(200)
        /\ Profile /\ (j.with = "valid" => "unverified" \in ever) => Reason(401)
    BY DocumentedStatus DEF AnswerReason
  <1>3. Admitted /\ j.op = "profile_update" => Reason(400)
    BY DocumentedStatus DEF AnswerReason
  <1>4. "malformed" \in DOMAIN j.given => Reason(500)
    BY FailedReason
  <1> HIDE DEF Reason
  <1>5. /\ j.at \in {"identified", "valid", "profile_read", "profile_saved"} => Admitted
        /\ j.op = "profile_get" => DOMAIN j.given = {}
    BY DEF Reasons, StageReason
  <1>6. \* An exception.
        ASSUME NEW exc, Raise(p, exc), Reason(Handle(exc).status)
        PROVE  Reasons(job'[p], ever, always, blacklisted')
    BY <1>1, <1>6, RaiseReasons DEF Reason
  <1>7. \* The next stage.
        ASSUME NEW at \in {"identified", "valid", "profile_read", "profile_saved"},
               Continues(p, at), Admitted
        PROVE  Reasons(job'[p], ever, always, blacklisted')
    BY <1>7, StageReasons
  <1>8. CASE AuthenticateJWT(p)
    <2>1. Profile
      BY <1>8 DEF AuthenticateJWT
    <2>2. \/ Fails(p)
          \/ j.with = "valid" /\ user = "active" /\ Goto(p, "identified")
          \/ /\ j.with = "valid" => user # "active"
             /\ \E says : Raise(p, APIException(401, says))
      BY <1>8 DEF AuthenticateJWT
    <2>3. CASE j.with = "valid" /\ user = "active" /\ Goto(p, "identified")
      <3>1. Admitted
        BY <2>1, <2>3 DEF Explained
      <3> QED
        BY <1>1, <1>7, <2>3, <3>1, GotoContinues
    <2>4. CASE Fails(p)
      BY <1>1, <2>4, FailsReasons
    <2>5. CASE /\ j.with = "valid" => user # "active"
               /\ \E says : Raise(p, APIException(401, says))
      <3>1. PICK says : Raise(p, APIException(401, says))
        BY <2>5
      <3>2. Handle(APIException(401, says)).status = 401
        BY HandledStatus
      <3>3. Reason(401)
        BY <1>2, <2>1, <2>5 DEF Explained
      <3> QED
        BY <1>6, <3>1, <3>2, <3>3
    <2> QED
      BY <2>2, <2>3, <2>4, <2>5
  <1>9. CASE ValidateProfile(p)
    <2>1. Admitted
      BY <1>5, <1>9 DEF ValidateProfile
    <2>2. \/ "malformed" \in DOMAIN j.given /\ Raise(p, Unexpected)
          \/ "invalid" \in DOMAIN j.given /\ Raise(p, ValidationError)
          \/ Goto(p, "valid")
      BY <1>9 DEF ValidateProfile
    <2>3. CASE "malformed" \in DOMAIN j.given /\ Raise(p, Unexpected)
      BY <1>4, <1>6, <2>3, HandledStatus
    <2>4. CASE "invalid" \in DOMAIN j.given /\ Raise(p, ValidationError)
      BY <1>3, <1>5, <1>6, <2>1, <2>4, HandledStatus
    <2>5. CASE Goto(p, "valid")
      BY <1>1, <1>7, <2>1, <2>5, GotoContinues
    <2> QED
      BY <2>2, <2>3, <2>4, <2>5
  <1>10. CASE GetProfile(p)
    <2>1. Admitted
      BY <1>5, <1>10 DEF GetProfile
    <2>2. \/ Fails(p) \/ Reply(p, j, 200)
          \/ Move(p, [j EXCEPT !.at = "profile_read", !.copy = profile])
      BY <1>10 DEF GetProfile
    <2>3. CASE Fails(p)
      BY <1>1, <2>3, FailsReasons
    <2>4. CASE Reply(p, j, 200)
      <3>1. GoesOn(j, j, {bound[p], j.trace})
        BY DEF RecordInv, GoesOn
      <3>2. Continues(p, "answered") /\ job'[p].answer = Success(200)
        BY <1>1, <2>4, <3>1, ReplyContinues
      <3>3. job'[p].answer.status = 200
        BY <3>2 DEF Success, Answer
      <3> QED
        BY <1>2, <2>1, <3>2, <3>3, AnsweredReasons DEF Reason
    <2>5. CASE Move(p, [j EXCEPT !.at = "profile_read", !.copy = profile])
      <3> DEFINE k == [j EXCEPT !.at = "profile_read", !.copy = profile]
      <3>1. GoesOn(j, k, {bound[p], j.trace}) /\ k.at = "profile_read"
        BY DEF RecordInv, GoesOn, Fields, Kept
      <3>2. Move(p, k)
        BY <2>5
      <3> HIDE DEF k
      <3>3. Continues(p, "profile_read")
        BY <1>1, <3>1, <3>2, Moved DEF Continues
      <3> QED
        BY <1>7, <2>1, <3>3
    <2> QED
      BY <2>2, <2>3, <2>4, <2>5
  <1>11. CASE SaveProfile(p)
    <2>1. Admitted
      BY <1>5, <1>11 DEF SaveProfile
    <2>2. Fails(p) \/ Goto(p, "profile_saved")
      BY <1>11 DEF SaveProfile
    <2>3. CASE Fails(p)
      BY <1>1, <2>3, FailsReasons
    <2>4. CASE Goto(p, "profile_saved")
      BY <1>1, <1>7, <2>1, <2>4, GotoContinues
    <2> QED
      BY <2>2, <2>3, <2>4
  <1>12. CASE LogProfile(p)
    <2>1. Reason(200) /\ LogAndReply(p, 200)
      BY <1>2, <1>5, <1>12 DEF LogProfile
    <2> QED
      BY <1>1, <2>1, LogAndReplyReasons DEF Reason
  <1> QED
    BY <1>8, <1>9, <1>10, <1>11, <1>12

-----------------------------------------------------------------------------
(* The invariant.                                                           *)

LEMMA InitReasons == Init => down \subseteq Dependencies /\ ReasonInv
  <1> SUFFICES ASSUME Init PROVE down \subseteq Dependencies /\ ReasonInv
    OBVIOUS
  <1>1. \A p \in Threads : job[p].at = "idle"
    BY NoJobFields DEF Init, Processes
  <1> QED
    BY <1>1 DEF Init, ReasonInv

LEMMA StepKeepsDown ==
    ASSUME down \subseteq Dependencies, [Next]_vars
    PROVE  down' \subseteq Dependencies
  <1>1. CASE BackgroundStep
    <2>1. CASE \E p \in Workers : TaskStep(p)
      BY <2>1 DEF TaskStep, TaskPrerun, TaskReturns, TaskRaises, LogTaskFailure, TaskPostrun,
                  WorkerKilled
    <2>2. CASE \E p \in Processes : Finish(p)
      BY <2>2 DEF Finish
    <2>3. CASE \E d \in Dependencies : GoesDown(d) \/ ComesBack(d)
      BY <2>3 DEF GoesDown, ComesBack
    <2>4. CASE ProbeExpires \/ AccountRegistered \/ AccountVerified
      BY <2>4 DEF ProbeExpires, AccountRegistered, AccountVerified, contextVars
    <2> QED
      BY <1>1, <2>1, <2>2, <2>3, <2>4 DEF BackgroundStep
  <1>2. ASSUME NEW p \in Threads, RequestStep(p)
        PROVE  down' \subseteq Dependencies
    <2>1. CASE Begin(p)
      BY <2>1 DEF Begin, Accept
    <2>2. CASE ReadinessStep(p)
      BY <2>2 DEF ReadinessStep, CheckDatabase, SetProbe, GetProbe, DeleteProbe, CheckBroker,
                  CheckWorkers, AnswerReady, AnswerLive
    <2>3. CASE SessionStep(p)
      BY <2>3 DEF SessionStep, FindUser, Authenticate, IssueTokens, DecodeToken, Blacklist,
                  LogLogout, Refresh, AuthenticateJWT, ValidateProfile, GetProfile, SaveProfile,
                  LogProfile
    <2> QED
      BY <1>2, <2>1, <2>2, <2>3 DEF RequestStep
  <1>3. CASE vars' = vars
    BY <1>3 DEF vars, contextVars
  <1> QED
    BY <1>1, <1>2, <1>3 DEF Next

\* A token that is revoked stays so.
LEMMA RevokedStays ==
    ASSUME [Next]_vars
    PROVE  blacklisted \subseteq blacklisted'
  <1>1. CASE BackgroundStep
    BY <1>1 DEF BackgroundStep, sessionVars, AccountRegistered, AccountVerified
  <1>2. ASSUME NEW p \in Threads, RequestStep(p)
        PROVE  blacklisted \subseteq blacklisted'
    <2>1. CASE SessionStep(p)
      BY <2>1 DEF SessionStep, FindUser, Authenticate, IssueTokens, DecodeToken, Blacklist,
                  LogLogout, Refresh, AuthenticateJWT, ValidateProfile, GetProfile, SaveProfile,
                  LogProfile, sessionVars
    <2> QED
      BY <1>2, <2>1 DEF RequestStep, sessionVars
  <1>3. CASE vars' = vars
    BY <1>3 DEF vars, sessionVars
  <1> QED
    BY <1>1, <1>2, <1>3 DEF Next

LEMMA BeginReasons ==
    ASSUME RecordInv, NEW p \in Processes, Begin(p), NEW ever, NEW always, NEW revoked
    PROVE  Reasons(job'[p], ever, always, revoked)
  <1> DEFINE k == job'[p]
  <1>1. PICK r \in Requests : \E ask \in Asks[r] :
              /\ k.op = ask.op /\ k.given = ask.given
              /\ k.at = "begun" /\ k.failing = {} /\ k.lost = FALSE
    BY BeginStarts
  <1>2. PICK ask \in Asking(Operations) :
              /\ k.op = ask.op /\ k.given = ask.given
              /\ k.at = "begun" /\ k.failing = {} /\ k.lost = FALSE
    BY <1>1, AsksAssumption
  <1>3. PICK op \in Operations :
              ask \in [op : {op}, with : Credentials(op),
                       given : IF op = "profile_update" THEN Patches ELSE {<<>>}]
    BY DEF Asking
  <1>4. k.op = "profile_get" => DOMAIN k.given = {}
    <2>1. ask.op = op /\ (op # "profile_update" => ask.given = <<>>)
      BY <1>3
    <2>2. DOMAIN <<>> = {}
      OBVIOUS
    <2> QED
      BY <1>2, <2>1, <2>2
  <1> HIDE DEF k
  <1>5. Reasons(k, ever, always, revoked)
    BY <1>2, <1>4 DEF Reasons, ProbeReason, StageReason
  <1> QED
    BY <1>5 DEF k

\* What Observe keeps lies around the facts of every moment.
ReasonAt(p) ==
    job[p].at # "idle" =>
        /\ seen[p].always \subseteq Facts(p) /\ Facts(p) \subseteq seen[p].ever
        /\ Reasons(job[p], seen[p].ever, seen[p].always, blacklisted)

LEMMA ObservedFacts ==
    ASSUME Observe, NEW p \in Threads, job'[p].at # "idle"
    PROVE  /\ seen'[p].always \subseteq Facts(p)' /\ Facts(p)' \subseteq seen'[p].ever
           /\ job[p].at # "idle" =>
                  seen[p].ever \subseteq seen'[p].ever /\ seen'[p].always \subseteq seen[p].always
  <1>1. job'[p] # NoJob
    BY NoJobFields
  <1>2. CASE Idle(p)
    <2>1. seen'[p] = [ever |-> Facts(p)', always |-> Facts(p)']
      BY <1>1, <1>2 DEF Observe
    <2>2. job[p].at = "idle"
      BY <1>2, NoJobFields DEF Idle
    <2> QED
      BY <2>1, <2>2
  <1>3. CASE ~Idle(p)
    <2>1. seen'[p] = [ever |-> seen[p].ever \cup Facts(p)'
                                  \cup {f \in ProfileFields : profile'[f] # profile[f]},
                      always |-> seen[p].always \cap Facts(p)']
      BY <1>1, <1>3 DEF Observe
    <2> QED
      BY <2>1
  <1> QED
    BY <1>2, <1>3

LEMMA StepKeepsReasons ==
    RecordInv /\ down \subseteq Dependencies /\ ReasonInv /\ [Next]_vars => ReasonInv'
  <1> SUFFICES ASSUME RecordInv, down \subseteq Dependencies, ReasonInv, [Next]_vars,
                      NEW p \in Threads, job'[p].at # "idle"
               PROVE  /\ seen'[p].always \subseteq Facts(p)' /\ Facts(p)' \subseteq seen'[p].ever
                      /\ Reasons(job'[p], seen'[p].ever, seen'[p].always, blacklisted')
    BY DEF ReasonInv
  <1> DEFINE ever == seen'[p].ever
             always == seen'[p].always
  <1>1. ReasonAt(p) /\ p \in Processes
    BY DEF ReasonInv, ReasonAt, Processes
  <1>2. CASE vars' = vars
    <2>1. seen' = seen /\ job' = job /\ blacklisted' = blacklisted /\ Facts(p)' = Facts(p)
      BY <1>2 DEF vars, contextVars, sessionVars, Facts
    <2> QED
      BY <1>1, <2>1 DEF ReasonAt
  <1>3. CASE ~(vars' = vars)
    <2>1. Observe
      BY <1>3 DEF Next
    <2>2. always \subseteq Facts(p)' /\ Facts(p)' \subseteq ever
          /\ (job[p].at # "idle" => seen[p].ever \subseteq ever /\ always \subseteq seen[p].always)
      BY <2>1, ObservedFacts
    <2> SUFFICES Reasons(job'[p], ever, always, blacklisted')
      BY <2>2
    <2>3. blacklisted \subseteq blacklisted'
      BY RevokedStays
    <2>4. ASSUME job[p].at # "idle"
          PROVE  /\ Reasons(job[p], ever, always, blacklisted)
                 /\ Explained(p, ever, always)
      <3>1. /\ Reasons(job[p], seen[p].ever, seen[p].always, blacklisted)
            /\ seen[p].always \subseteq Facts(p) /\ Facts(p) \subseteq seen[p].ever
        BY <1>1, <2>4 DEF ReasonAt
      <3>2. job[p].lost => "database" \in ever
        BY <2>2, <2>4, <3>1 DEF Reasons
      <3>3. Facts(p) \subseteq ever /\ always \subseteq Facts(p)
        BY <2>2, <2>4, <3>1
      <3> HIDE DEF ever, always
      <3>4. Reasons(job[p], ever, always, blacklisted)
        BY <2>2, <2>4, <3>1, <3>2, ReasonsStay
      <3>5. Explained(p, ever, always)
        BY <3>2, <3>3, FactsExplain
      <3> QED
        BY <3>4, <3>5
    <2> HIDE DEF ever, always
    <2>5. CASE Begin(p)
      BY <1>1, <2>5, BeginReasons
    <2>6. CASE Finish(p)
      <3>1. job'[p] = NoJob
        BY <1>1, <2>6, Moved DEF Finish
      <3> QED
        BY <3>1, NoJobFields
    <2>7. CASE job'[p] = job[p]
      <3>1. Reasons(job[p], ever, always, blacklisted)
        BY <2>4, <2>7
      <3>2. job[p].lost => "database" \in ever
        BY <3>1 DEF Reasons
      <3> QED
        BY <2>3, <2>7, <3>1, <3>2, ReasonsStay
    <2>8. CASE \E d : GoesDown(d)
      <3>1. PICK d : GoesDown(d)
        BY <2>8
      <3>2. /\ job'[p].at = job[p].at /\ job'[p].op = job[p].op /\ job'[p].with = job[p].with
            /\ job'[p].given = job[p].given /\ job'[p].failing = job[p].failing
            /\ job'[p].answer = job[p].answer
            /\ job'[p].lost => job[p].lost \/ d = "database"
        BY <1>1, <3>1, OutageFields DEF Fields
      <3>3. Reasons(job[p], ever, always, blacklisted)
        BY <2>4, <3>2
      <3>4. d \in Facts(p)'
        BY <3>1 DEF GoesDown, Facts
      <3>5. job'[p].lost => "database" \in ever
        BY <2>2, <3>2, <3>3, <3>4 DEF Reasons
      <3> QED
        BY <2>3, <3>2, <3>3, <3>5, ReasonsStay
    <2>9. CASE ReadinessStep(p) /\ UNCHANGED sessionVars
      <3>1. Reasons(job'[p], ever, always, blacklisted)
        BY <1>1, <2>4, <2>9, ReadinessReasons, RequestIsRunning
      <3> QED
        BY <2>9, <3>1 DEF sessionVars
    <2>10. CASE SessionStep(p)
      <3>1. Reasons(job[p], ever, always, blacklisted) /\ Explained(p, ever, always)
        BY <2>4, <2>10, RequestIsRunning
      <3>2. CASE FindUser(p) \/ Authenticate(p) \/ IssueTokens(p)
        BY <1>1, <3>1, <3>2, LoginReasons
      <3>3. CASE DecodeToken(p) \/ Blacklist(p) \/ LogLogout(p) \/ Refresh(p)
        BY <1>1, <3>1, <3>3, TokenReasons
      <3>4. CASE \/ AuthenticateJWT(p) \/ ValidateProfile(p) \/ GetProfile(p) \/ SaveProfile(p)
                 \/ LogProfile(p)
        BY <1>1, <3>1, <3>4, ProfileReasons
      <3> QED
        BY <2>10, <3>2, <3>3, <3>4 DEF SessionStep
    <2> QED
      BY <2>5, <2>6, <2>7, <2>8, <2>9, <2>10, StepOfThread
  <1> QED
    BY <1>2, <1>3

\* Every answer of a probe, of a session or of a profile request is true of some
\* moment between the request and its answer, and a status the documentation does
\* not list has one of the three reasons: an outage (or a malformed time zone), a
\* missing field, or the one 401 of logout.
THEOREM AnswersAreExplained == Spec => []AnswersHaveReasons
  <1> DEFINE Inv == IdInv /\ down \subseteq Dependencies /\ ReasonInv
  <1>1. Init => Inv
    BY InitIds, InitReasons
  <1>2. Inv /\ [Next]_vars => Inv'
    <2>1. IdInv => RecordInv
      BY DEF IdInv
    <2> QED
      BY <2>1, StepKeepsIds, StepKeepsDown, StepKeepsReasons
  <1>3. Inv => AnswersHaveReasons
    <2> SUFFICES ASSUME ReasonInv, NEW p \in Threads, job[p].at = "answered"
                 PROVE  LET j == job[p]
                            status == j.answer.status
                            ever == seen[p].ever
                            always == seen[p].always
                        IN  /\ ProbeHasReason(j.op, status, ever, always)
                            /\ SessionHasReason(j.op, j.with, status, ever, always)
                            /\ status = 500 => "database" \in ever \/ "malformed" \in DOMAIN j.given
                            /\ status \notin Documented[j.op] =>
                                   \/ status = 500
                                   \/ status = 400 /\ j.with = "missing"
                                   \/ status = 401 /\ j.op = "auth_logout"
      BY DEF AnswersHaveReasons
    <2>1. AnswerReason(job[p].op, job[p].with, job[p].given, job[p].answer.status,
                       seen[p].ever, seen[p].always, blacklisted)
      BY DEF ReasonInv, Reasons
    <2> QED
      BY <2>1 DEF AnswerReason, ProbeHasReason, SessionHasReason
  <1> HIDE DEF Inv
  <1>4. Init /\ [][Next]_vars => []Inv
    BY <1>1, <1>2, PTL
  <1> QED
    BY <1>3, <1>4, PTL DEF Spec
=============================================================================
