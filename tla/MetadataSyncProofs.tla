------------------------- MODULE MetadataSyncProofs -------------------------
(* What holds of MetadataSync for any number of requests, any max_retries,  *)
(* any number of edits of the connection and any set of faults.             *)
EXTENDS MetadataSync, TLAPS

\* A task exists only once its handler has published it, has run at most as
\* often as its state allows, and is given up only after its last retry.
TasksCounted ==
    \A t \in Requests :
        /\ pc[t] \in {"idle", "admitted", "checked", "marked"} => task[t] = "none"
        /\ task[t] \in {"none", "queued"} => attempts[t] = 0
        /\ task[t] = "retrying" => attempts[t] <= MaxRetries
        /\ task[t] = "failed" => attempts[t] = MaxRetries + 1

TypeInv == TypeOK /\ TasksCounted

LEMMA InitTypeInv == Init => TypeInv
  <1> SUFFICES ASSUME Init PROVE TypeInv
    OBVIOUS
  <1>1. TypeOK
    <2>1. connection \in [exists : BOOLEAN, active : BOOLEAN, version : 1 .. MaxVersion]
      <3>1. 1 \in 1 .. MaxVersion
        BY VersionAssumption
      <3> QED
        BY <3>1 DEF Init
    <2>2. metadata \in [exists : BOOLEAN, status : JiraSyncStatus,
                        error : BOOLEAN, data : Versions]
      BY VersionAssumption DEF Init, MetadataRow, JiraSyncStatus, Versions
    <2>3. /\ attempts \in [Requests -> 0 .. MaxRetries + 1]
          /\ snapshot \in [Requests -> Versions]
      BY RetriesAssumption, VersionAssumption DEF Init, Versions
    <2>4. /\ pc \in [Requests -> {"idle"} \cup InFlight \cup Answers]
          /\ task \in [Requests -> {"none"} \cup Waiting \cup Running \cup Ended]
          /\ failure \in [Requests -> Failures]
      BY DEF Init, Failures
    <2> QED
      BY <2>1, <2>2, <2>3, <2>4 DEF TypeOK
  <1>2. TasksCounted
    BY DEF Init, TasksCounted
  <1> QED
    BY <1>1, <1>2 DEF TypeInv

LEMMA NextTypeInv == TypeInv /\ [Next]_vars => TypeInv'
  <1> SUFFICES ASSUME TypeInv, [Next]_vars PROVE TypeInv'
    OBVIOUS
  <1> USE RetriesAssumption, VersionAssumption
      DEF TypeInv, TypeOK, TasksCounted, JiraSyncStatus, Versions, Failures,
          InFlight, Answers, Waiting, Running, Working, Ended, Goto, Step, Fails,
          taskVars, MetadataRow
  <1>1. ASSUME NEW r \in Requests, RequestStep(r) PROVE TypeInv'
    <2>1. CASE ReqLoad(r)
      BY <2>1 DEF ReqLoad
    <2>2. CASE ReqCheck(r)
      BY <2>2 DEF ReqCheck, GetOrCreateMetadata
    <2>3. CASE ReqCheckGone(r)
      BY <2>3 DEF ReqCheckGone
    <2>4. CASE ReqMark(r)
      BY <2>4 DEF ReqMark, SaveSyncing
    <2>5. CASE ReqMarkGone(r)
      BY <2>5 DEF ReqMarkGone
    <2>6. CASE ReqEnqueue(r)
      BY <2>6 DEF ReqEnqueue
    <2>7. CASE ReqAnswer(r)
      BY <2>7 DEF ReqAnswer
    <2> QED
      BY <1>1, <2>1, <2>2, <2>3, <2>4, <2>5, <2>6, <2>7 DEF RequestStep
  <1>2. ASSUME NEW t \in Requests, TaskStep(t) PROVE TypeInv'
    <2>1. CASE TaskLoad(t)
      BY <2>1 DEF TaskLoad
    <2>2. CASE TaskLoadGone(t)
      BY <2>2 DEF TaskLoadGone
    <2>3. CASE TaskOpen(t)
      BY <2>3 DEF TaskOpen, GetOrCreateMetadata
    <2>4. CASE TaskOpenGone(t)
      BY <2>4 DEF TaskOpenGone
    <2>5. CASE TaskFetch(t)
      BY <2>5 DEF TaskFetch
    <2>6. CASE TaskCommit(t)
      BY <2>6 DEF TaskCommit, SaveFresh
    <2>7. CASE TaskCommitFails(t)
      BY <2>7 DEF TaskCommitFails
    <2>8. CASE TaskSucceed(t)
      BY <2>8 DEF TaskSucceed
    <2>9. CASE TaskFail(t)
      BY <2>9 DEF TaskFail, SaveFailed
    <2>10. CASE TaskRetry(t)
      BY <2>10 DEF TaskRetry
    <2>11. CASE TaskGiveUp(t)
      BY <2>11 DEF TaskGiveUp
    <2> QED
      BY <1>2, <2>1, <2>2, <2>3, <2>4, <2>5, <2>6, <2>7, <2>8, <2>9, <2>10, <2>11
         DEF TaskStep
  <1>3. ASSUME NEW r \in Requests, Fault(r) PROVE TypeInv'
    BY <1>3 DEF Fault, ReqCrash, TaskLost
  <1>4. CASE Environment
    <2>1. CASE UpdateConnection
      BY <2>1 DEF UpdateConnection
    <2>2. CASE SwitchActive
      <3>1. PICK flag \in BOOLEAN : connection' = [connection EXCEPT !.active = flag]
        BY <2>2, connection.active \in BOOLEAN, (~connection.active) \in BOOLEAN
           DEF SwitchActive
      <3>2. connection' \in [exists : BOOLEAN, active : BOOLEAN, version : 1 .. MaxVersion]
        BY <3>1
      <3> QED
        BY <2>2, <3>2 DEF SwitchActive
    <2>3. CASE DeleteWorkspace
      <3>1. connection' \in [exists : BOOLEAN, active : BOOLEAN, version : 1 .. MaxVersion]
        BY <2>3 DEF DeleteWorkspace
      <3>2. metadata' \in [exists : BOOLEAN, status : JiraSyncStatus,
                           error : BOOLEAN, data : Versions]
        BY <2>3 DEF DeleteWorkspace
      <3> QED
        BY <2>3, <3>1, <3>2 DEF DeleteWorkspace
    <2>4. CASE GetMetadata
      BY <2>4 DEF GetMetadata, GetOrCreateMetadata
    <2> QED
      BY <1>4, <2>1, <2>2, <2>3, <2>4 DEF Environment
  <1>5. CASE UNCHANGED vars
    BY <1>5 DEF vars
  <1> QED
    BY <1>1, <1>2, <1>3, <1>4, <1>5 DEF Next

\* TypeOK is not inductive by itself: attempts stays in range because only a
\* task with a retry left is published again.
THEOREM TypeCorrect == Spec => []TypeOK
  <1>1. TypeInv => TypeOK
    BY DEF TypeInv
  <1> QED
    BY <1>1, InitTypeInv, NextTypeInv, PTL DEF Spec

\* Every task is executed 1 + max_retries times before it is given up.
THEOREM RetriesBounded == Spec => []RetriesExactlyBounded
  <1>1. TypeInv => RetriesExactlyBounded
    BY RetriesAssumption DEF TypeInv, TypeOK, TasksCounted, RetriesExactlyBounded
  <1> QED
    BY <1>1, InitTypeInv, NextTypeInv, PTL DEF Spec

-----------------------------------------------------------------------------
(* The metadata row.                                                        *)

AbsentRowIsBlank == ~metadata.exists => metadata = MetadataRow(FALSE)

\* Data fetched by a task carries the version of the settings it has read.
RunsHaveSnapshot ==
    \A t \in Requests : task[t] \in {"loaded", "fetching", "fetched"} => snapshot[t] # 0

RowInv == RowConsistent /\ RowNeedsConnection /\ AbsentRowIsBlank /\ RunsHaveSnapshot

LEMMA InitRowInv == Init => RowInv
  BY DEF Init, RowInv, RowConsistent, RowNeedsConnection, AbsentRowIsBlank,
         RunsHaveSnapshot, MetadataRow

LEMMA NextRowInv == TypeInv /\ RowInv /\ [Next]_vars => RowInv'
  <1> SUFFICES ASSUME TypeInv, RowInv, [Next]_vars PROVE RowInv'
    OBVIOUS
  <1> USE VersionAssumption
      DEF TypeInv, TypeOK, JiraSyncStatus, Versions, RowInv, RowConsistent,
          RowNeedsConnection, AbsentRowIsBlank, RunsHaveSnapshot, MetadataRow,
          InFlight, Answers, Waiting, Running, Working, Ended, Goto, Step, Fails,
          taskVars
  <1>1. ASSUME NEW r \in Requests, RequestStep(r) PROVE RowInv'
    <2>1. CASE ReqLoad(r)
      BY <2>1 DEF ReqLoad
    <2>2. CASE ReqCheck(r)
      BY <2>2 DEF ReqCheck, GetOrCreateMetadata
    <2>3. CASE ReqCheckGone(r)
      BY <2>3 DEF ReqCheckGone
    <2>4. CASE ReqMark(r)
      BY <2>4 DEF ReqMark, SaveSyncing
    <2>5. CASE ReqMarkGone(r)
      BY <2>5 DEF ReqMarkGone
    <2>6. CASE ReqEnqueue(r)
      BY <2>6 DEF ReqEnqueue
    <2>7. CASE ReqAnswer(r)
      BY <2>7 DEF ReqAnswer
    <2> QED
      BY <1>1, <2>1, <2>2, <2>3, <2>4, <2>5, <2>6, <2>7 DEF RequestStep
  <1>2. ASSUME NEW t \in Requests, TaskStep(t) PROVE RowInv'
    <2>1. CASE TaskLoad(t)
      BY <2>1 DEF TaskLoad
    <2>2. CASE TaskLoadGone(t)
      BY <2>2 DEF TaskLoadGone
    <2>3. CASE TaskOpen(t)
      BY <2>3 DEF TaskOpen, GetOrCreateMetadata
    <2>4. CASE TaskOpenGone(t)
      BY <2>4 DEF TaskOpenGone
    <2>5. CASE TaskFetch(t)
      BY <2>5 DEF TaskFetch
    <2>6. CASE TaskCommit(t)
      BY <2>6 DEF TaskCommit, SaveFresh
    <2>7. CASE TaskCommitFails(t)
      BY <2>7 DEF TaskCommitFails
    <2>8. CASE TaskSucceed(t)
      BY <2>8 DEF TaskSucceed
    <2>9. CASE TaskFail(t)
      BY <2>9 DEF TaskFail, SaveFailed
    <2>10. CASE TaskRetry(t)
      BY <2>10 DEF TaskRetry
    <2>11. CASE TaskGiveUp(t)
      BY <2>11 DEF TaskGiveUp
    <2> QED
      BY <1>2, <2>1, <2>2, <2>3, <2>4, <2>5, <2>6, <2>7, <2>8, <2>9, <2>10, <2>11 DEF TaskStep
  <1>3. ASSUME NEW r \in Requests, Fault(r) PROVE RowInv'
    <2>1. CASE ReqCrash(r)
      BY <2>1 DEF ReqCrash
    <2>2. CASE TaskLost(r)
      BY <2>2 DEF TaskLost
    <2> QED
      BY <1>3, <2>1, <2>2 DEF Fault
  <1>4. CASE Environment
    <2>1. CASE UpdateConnection
      BY <2>1 DEF UpdateConnection
    <2>2. CASE SwitchActive
      BY <2>2 DEF SwitchActive
    <2>3. CASE DeleteWorkspace
      BY <2>3 DEF DeleteWorkspace
    <2>4. CASE GetMetadata
      BY <2>4 DEF GetMetadata, GetOrCreateMetadata
    <2> QED
      BY <1>4, <2>1, <2>2, <2>3, <2>4 DEF Environment
  <1>5. CASE UNCHANGED vars
    BY <1>5 DEF vars
  <1> QED
    BY <1>1, <1>2, <1>3, <1>4, <1>5 DEF Next

\* Error text, data and status of the row agree, whoever writes it last.
THEOREM RowStaysConsistent == Spec => []RowConsistent
  <1>1. RowInv => RowConsistent
    BY DEF RowInv
  <1> QED
    BY <1>1, InitTypeInv, NextTypeInv, InitRowInv, NextRowInv, PTL DEF Spec

\* A deleted connection never gets a metadata row back.
THEOREM DeletedStaysDeleted == Spec => []RowNeedsConnection
  <1>1. RowInv => RowNeedsConnection
    BY DEF RowInv
  <1> QED
    BY <1>1, InitTypeInv, NextTypeInv, InitRowInv, NextRowInv, PTL DEF Spec

-----------------------------------------------------------------------------
(* Who is behind the status.                                                *)

LEMMA InitSyncingHasCause == Init => SyncingHasCause
  BY DEF Init, SyncingHasCause, MetadataRow

LEMMA NextSyncingHasCause ==
    TypeInv /\ RowInv /\ SyncingHasCause /\ [Next]_vars => SyncingHasCause'
  <1> SUFFICES ASSUME TypeInv, RowInv, SyncingHasCause, [Next]_vars
               PROVE SyncingHasCause'
    OBVIOUS
  <1> USE DEF TypeInv, TypeOK, TasksCounted, RowInv, RowNeedsConnection, AbsentRowIsBlank,
              SyncingHasCause, OwesOutcome, Orphaned, MetadataRow,
              InFlight, Answers, Waiting, Running, Working, Ended, Goto, Step, Fails,
              taskVars
  <1>1. ASSUME NEW r \in Requests, RequestStep(r) PROVE SyncingHasCause'
    <2>1. CASE ReqLoad(r)
      BY <2>1 DEF ReqLoad
    <2>2. CASE ReqCheck(r)
      BY <2>2 DEF ReqCheck, GetOrCreateMetadata
    <2>3. CASE ReqCheckGone(r)
      BY <2>3 DEF ReqCheckGone
    <2>4. CASE ReqMark(r)
      BY <2>4 DEF ReqMark, SaveSyncing
    <2>5. CASE ReqMarkGone(r)
      BY <2>5 DEF ReqMarkGone
    <2>6. CASE ReqEnqueue(r)
      BY <2>6 DEF ReqEnqueue
    <2>7. CASE ReqAnswer(r)
      BY <2>7 DEF ReqAnswer
    <2> QED
      BY <1>1, <2>1, <2>2, <2>3, <2>4, <2>5, <2>6, <2>7 DEF RequestStep
  <1>2. ASSUME NEW t \in Requests, TaskStep(t) PROVE SyncingHasCause'
    <2>1. CASE TaskLoad(t)
      BY <2>1 DEF TaskLoad
    <2>2. CASE TaskLoadGone(t)
      BY <2>2 DEF TaskLoadGone
    <2>3. CASE TaskOpen(t)
      BY <2>3 DEF TaskOpen, GetOrCreateMetadata
    <2>4. CASE TaskOpenGone(t)
      BY <2>4 DEF TaskOpenGone
    <2>5. CASE TaskFetch(t)
      BY <2>5 DEF TaskFetch
    <2>6. CASE TaskCommit(t)
      BY <2>6 DEF TaskCommit, SaveFresh
    <2>7. CASE TaskCommitFails(t)
      BY <2>7 DEF TaskCommitFails
    <2>8. CASE TaskSucceed(t)
      BY <2>8 DEF TaskSucceed
    <2>9. CASE TaskFail(t)
      <3>1. CASE SaveFailed
        BY <2>9, <3>1 DEF TaskFail, SaveFailed
      <3>2. CASE "db" \in Faults
        <4>1. task'[t] = "raised"
          BY <2>9 DEF TaskFail
        <4> QED
          BY <3>2, <4>1
      <3> QED
        BY <2>9, <3>1, <3>2 DEF TaskFail
    <2>10. CASE TaskRetry(t)
      BY <2>10 DEF TaskRetry
    <2>11. CASE TaskGiveUp(t)
      BY <2>11 DEF TaskGiveUp
    <2> QED
      BY <1>2, <2>1, <2>2, <2>3, <2>4, <2>5, <2>6, <2>7, <2>8, <2>9, <2>10, <2>11 DEF TaskStep
  <1>3. ASSUME NEW r \in Requests, Fault(r) PROVE SyncingHasCause'
    <2>1. CASE ReqCrash(r)
      BY <2>1 DEF ReqCrash
    <2>2. CASE TaskLost(r)
      BY <2>2 DEF TaskLost
    <2> QED
      BY <1>3, <2>1, <2>2 DEF Fault
  <1>4. CASE Environment
    <2>1. CASE UpdateConnection
      BY <2>1 DEF UpdateConnection
    <2>2. CASE SwitchActive
      BY <2>2 DEF SwitchActive
    <2>3. CASE DeleteWorkspace
      BY <2>3 DEF DeleteWorkspace
    <2>4. CASE GetMetadata
      BY <2>4 DEF GetMetadata, GetOrCreateMetadata
    <2> QED
      BY <1>4, <2>1, <2>2, <2>3, <2>4 DEF Environment
  <1>5. CASE UNCHANGED vars
    BY <1>5 DEF vars
  <1> QED
    BY <1>1, <1>2, <1>3, <1>4, <1>5 DEF Next

\* SYNCING is owed an outcome by somebody, or a named failure took it away.
THEOREM SyncingIsExplained == Spec => []SyncingHasCause
  BY InitTypeInv, NextTypeInv, InitRowInv, NextRowInv,
     InitSyncingHasCause, NextSyncingHasCause, PTL DEF Spec

\* Without faults, the outcome the row shows has an author who still stands by it.
OutcomeHasAuthor ==
    Faults = {} =>
        /\ \A r \in Requests : task[r] # "lost"
        /\ \A r \in Requests : pc[r] = "checked" /\ connection.exists => metadata.exists
        /\ \A r \in Requests : pc[r] = "crashed" => ~connection.exists
        /\ metadata.exists /\ metadata.status = "fresh" =>
              \E t \in Requests : task[t] \in {"committed", "succeeded"}
        /\ metadata.exists /\ metadata.status = "failed" =>
              \E t \in Requests : task[t] \in Working \cup {"raised", "retrying", "failed"}

LEMMA InitOutcomeHasAuthor == Init => OutcomeHasAuthor
  BY DEF Init, OutcomeHasAuthor, MetadataRow

LEMMA NextOutcomeHasAuthor ==
    TypeInv /\ RowInv /\ OutcomeHasAuthor /\ [Next]_vars => OutcomeHasAuthor'
  <1> SUFFICES ASSUME TypeInv, RowInv, OutcomeHasAuthor, [Next]_vars
               PROVE OutcomeHasAuthor'
    OBVIOUS
  <1> USE DEF TypeInv, TypeOK, TasksCounted, RowInv, RowNeedsConnection, AbsentRowIsBlank,
              OutcomeHasAuthor, MetadataRow,
              InFlight, Answers, Waiting, Running, Working, Ended, Goto, Step, Fails,
              taskVars
  <1>1. ASSUME NEW r \in Requests, RequestStep(r) PROVE OutcomeHasAuthor'
    <2>1. CASE ReqLoad(r)
      BY <2>1 DEF ReqLoad
    <2>2. CASE ReqCheck(r)
      BY <2>2 DEF ReqCheck, GetOrCreateMetadata
    <2>3. CASE ReqCheckGone(r)
      BY <2>3 DEF ReqCheckGone
    <2>4. CASE ReqMark(r)
      BY <2>4 DEF ReqMark, SaveSyncing
    <2>5. CASE ReqMarkGone(r)
      BY <2>5 DEF ReqMarkGone
    <2>6. CASE ReqEnqueue(r)
      BY <2>6 DEF ReqEnqueue
    <2>7. CASE ReqAnswer(r)
      BY <2>7 DEF ReqAnswer
    <2> QED
      BY <1>1, <2>1, <2>2, <2>3, <2>4, <2>5, <2>6, <2>7 DEF RequestStep
  <1>2. ASSUME NEW t \in Requests, TaskStep(t) PROVE OutcomeHasAuthor'
    <2>1. CASE TaskLoad(t)
      BY <2>1 DEF TaskLoad
    <2>2. CASE TaskLoadGone(t)
      BY <2>2 DEF TaskLoadGone
    <2>3. CASE TaskOpen(t)
      BY <2>3 DEF TaskOpen, GetOrCreateMetadata
    <2>4. CASE TaskOpenGone(t)
      BY <2>4 DEF TaskOpenGone
    <2>5. CASE TaskFetch(t)
      BY <2>5 DEF TaskFetch
    <2>6. CASE TaskCommit(t)
      BY <2>6 DEF TaskCommit, SaveFresh
    <2>7. CASE TaskCommitFails(t)
      BY <2>7 DEF TaskCommitFails
    <2>8. CASE TaskSucceed(t)
      BY <2>8 DEF TaskSucceed
    <2>9. CASE TaskFail(t)
      <3>1. CASE SaveFailed
        <4>1. task'[t] = "raised"
          BY <2>9 DEF TaskFail
        <4> QED
          BY <2>9, <3>1, <4>1 DEF TaskFail, SaveFailed
      <3>2. CASE "db" \in Faults
        BY <3>2
      <3> QED
        BY <2>9, <3>1, <3>2 DEF TaskFail
    <2>10. CASE TaskRetry(t)
      BY <2>10 DEF TaskRetry
    <2>11. CASE TaskGiveUp(t)
      BY <2>11 DEF TaskGiveUp
    <2> QED
      BY <1>2, <2>1, <2>2, <2>3, <2>4, <2>5, <2>6, <2>7, <2>8, <2>9, <2>10, <2>11 DEF TaskStep
  <1>3. ASSUME NEW r \in Requests, Fault(r) PROVE OutcomeHasAuthor'
    <2>1. CASE ReqCrash(r)
      BY <2>1 DEF ReqCrash
    <2>2. CASE TaskLost(r)
      BY <2>2 DEF TaskLost
    <2> QED
      BY <1>3, <2>1, <2>2 DEF Fault
  <1>4. CASE Environment
    <2>1. CASE UpdateConnection
      BY <2>1 DEF UpdateConnection
    <2>2. CASE SwitchActive
      BY <2>2 DEF SwitchActive
    <2>3. CASE DeleteWorkspace
      BY <2>3 DEF DeleteWorkspace
    <2>4. CASE GetMetadata
      BY <2>4 DEF GetMetadata, GetOrCreateMetadata
    <2> QED
      BY <1>4, <2>1, <2>2, <2>3, <2>4 DEF Environment
  <1>5. CASE UNCHANGED vars
    BY <1>5 DEF vars
  <1> QED
    BY <1>1, <1>2, <1>3, <1>4, <1>5 DEF Next

\* Without faults, a row nobody is working on reports how one of the tasks ended.
THEOREM SettledIsOutcome == Spec => []SettledStatusIsAnOutcome
  <1>1. TypeInv /\ RowInv /\ SyncingHasCause /\ OutcomeHasAuthor
           => SettledStatusIsAnOutcome
    BY DEF TypeInv, TypeOK, TasksCounted, RowInv, RowNeedsConnection, SyncingHasCause,
           OwesOutcome, Orphaned, OutcomeHasAuthor, SettledStatusIsAnOutcome, Settled,
           Answers, Ended, Working
  <1> QED
    BY <1>1, InitTypeInv, NextTypeInv, InitRowInv, NextRowInv,
       InitSyncingHasCause, NextSyncingHasCause,
       InitOutcomeHasAuthor, NextOutcomeHasAuthor, PTL DEF Spec

-----------------------------------------------------------------------------
(* The cached data.                                                         *)

DataStep ==
    metadata'.exists /\ metadata'.data # metadata.data =>
        /\ metadata'.status = "fresh"
        /\ \E t \in Requests : task[t] = "fetched" /\ metadata'.data = snapshot[t]

LEMMA NextDataStep == TypeInv /\ RowInv /\ [Next]_vars => [DataStep]_vars
  <1> SUFFICES ASSUME TypeInv, RowInv, Next PROVE DataStep
    OBVIOUS
  <1> USE DEF TypeInv, TypeOK, RowInv, AbsentRowIsBlank, DataStep, MetadataRow, taskVars
  <1>1. ASSUME NEW t \in Requests, TaskCommit(t) PROVE DataStep
    BY <1>1 DEF TaskCommit, SaveFresh
  <1>2. ASSUME NEW t \in Requests, TaskStep(t), ~TaskCommit(t) PROVE DataStep
    <2>1. CASE TaskOpen(t)
      BY <2>1 DEF TaskOpen, GetOrCreateMetadata
    <2>2. CASE TaskFail(t)
      BY <2>2 DEF TaskFail, SaveFailed
    <2>3. CASE UNCHANGED metadata
      BY <2>3
    <2> QED
      BY <1>2, <2>1, <2>2, <2>3
         DEF TaskStep, TaskLoad, TaskLoadGone, TaskOpenGone, TaskFetch,
             TaskCommitFails, TaskSucceed, TaskRetry, TaskGiveUp
  <1>3. ASSUME NEW r \in Requests, RequestStep(r) PROVE DataStep
    <2>1. CASE ReqCheck(r)
      BY <2>1 DEF ReqCheck, GetOrCreateMetadata
    <2>2. CASE ReqMark(r)
      BY <2>2 DEF ReqMark, SaveSyncing
    <2>3. CASE UNCHANGED metadata
      BY <2>3
    <2> QED
      BY <1>3, <2>1, <2>2, <2>3
         DEF RequestStep, ReqLoad, ReqCheckGone, ReqMarkGone, ReqEnqueue, ReqAnswer
  <1>4. ASSUME NEW r \in Requests, Fault(r) PROVE DataStep
    BY <1>4 DEF Fault, ReqCrash, TaskLost
  <1>5. CASE Environment
    BY <1>5 DEF Environment, UpdateConnection, SwitchActive, DeleteWorkspace, GetMetadata,
                GetOrCreateMetadata
  <1> QED
    BY <1>1, <1>2, <1>3, <1>4, <1>5 DEF Next

\* Only a task's commit replaces the cached data, and it marks the row FRESH.
THEOREM DataIsReplacedBySuccess == Spec => DataReplacedOnlyBySuccess
  <1>1. TypeInv /\ RowInv /\ [Next]_vars
           => [metadata'.exists /\ metadata'.data # metadata.data =>
                 /\ metadata'.status = "fresh"
                 /\ \E t \in Requests :
                       task[t] = "fetched" /\ metadata'.data = snapshot[t]]_vars
    BY NextDataStep DEF DataStep
  <1> QED
    BY <1>1, InitTypeInv, NextTypeInv, InitRowInv, NextRowInv, PTL
       DEF Spec, DataReplacedOnlyBySuccess
=============================================================================
