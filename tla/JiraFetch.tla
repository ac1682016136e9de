----------------------------- MODULE JiraFetch ------------------------------
(***************************************************************************)
(* The Jira HTTP client: one call of fetch_project_metadata, which asks    *)
(* for a dozen things in a fixed order, or of verify_credentials, against  *)
(* a Jira that answers, fails for a while or fails for good, and whose     *)
(* labels change between two pages of them.                                *)
(*                                                                         *)
(* A definition named Bug... is the one after it with a plausible mistake; *)
(* no specification uses it.  It shows which property notices the mistake. *)
(***************************************************************************)
EXTENDS Naturals, Sequences, SequencesExt, FiniteSets

CONSTANTS
    Labels,           \* the labels Jira may have
    Boards,           \* the scrum and kanban boards it may have
    NoBoard,          \* an empty board_id
    MaxTries,         \* JIRA_METADATA_MAX_RETRIES and JIRA_TEST_MAX_RETRIES
    MaxPage,          \* BOUND: how many labels Jira puts on a page
    MaxChanges        \* BOUND: how often the labels change during the fetch

ASSUME TriesAssumption == MaxTries \in Nat \ {0}
ASSUME BoundsAssumption == MaxPage \in Nat \ {0} /\ MaxChanges \in Nat
ASSUME LabelsAssumption == IsFiniteSet(Labels)
ASSUME BoardAssumption == NoBoard \notin Boards

VARIABLES
    server,   \* Jira: its labels in order and its boards
    changes,  \* what happened to the labels since the fetch began
    entry,    \* the first request, which tells the two functions apart
    board_id, \* the board configured by hand, listed by the project or not
    stage,    \* the request the client is at
    tries,    \* failed HTTP calls of the present _request
    rounds,   \* failed _requests of the present _request_myself
    spent,    \* failed HTTP calls since the client came to this stage
    labels,   \* the labels collected
    boards,   \* the boards collected
    sprints   \* the boards whose sprints have been collected

vars == <<server, changes, entry, board_id, stage, tries, rounds, spent, labels, boards, sprints>>
jira == <<server, changes, entry, board_id>>
collected == <<labels, boards, sprints>>

-----------------------------------------------------------------------------
\* The requests of fetch_project_metadata up to the labels.
Plain == <<"project", "issue_types", "fields", "required_field_keys", "priorities",
           "statuses", "components">>

Requests == ToSet(Plain) \cup {"labels", "boards", "sprints", "myself"}
Outcomes == {"returned", "refused", "exhausted"}

Distinct(seq) == \A i, j \in DOMAIN seq : seq[i] = seq[j] => i = j

\* Sequences of different labels.
LabelLists == UNION {{seq \in [1 .. n -> Labels] : Distinct(seq)} :
                        n \in 0 .. Cardinality(Labels)}

TypeOK ==
    /\ server \in [labels : LabelLists, boards : SUBSET Boards]
    /\ changes \in [start : LabelLists, added : 0 .. MaxChanges, removed : 0 .. MaxChanges]
    /\ stage \in Requests \cup Outcomes
    /\ entry \in {"project", "myself"}
    /\ board_id \in Boards \cup {NoBoard}
    /\ tries \in 0 .. MaxTries
    /\ rounds \in 0 .. MaxTries
    /\ spent \in Nat
    /\ ToSet(labels) \subseteq Labels
    /\ boards \subseteq Boards
    /\ sprints \subseteq Boards

Init ==
    /\ server \in [labels : LabelLists, boards : SUBSET Boards]
    /\ changes = [start |-> server.labels, added |-> 0, removed |-> 0]
    /\ entry \in {"project", "myself"}
    /\ board_id \in Boards \cup {NoBoard}
    /\ stage = entry
    /\ tries = 0
    /\ rounds = 0
    /\ spent = 0
    /\ labels = <<>>
    /\ boards = {}
    /\ sprints = {}

-----------------------------------------------------------------------------
(* _request and _request_myself: who tries again, and how often.            *)

\* An answer _handle_response lets through begins the next request afresh.
Goto(next) == stage' = next /\ tries' = 0 /\ rounds' = 0 /\ spent' = 0

\* 401, 403, any other 4xx, or a body that is not what it should be: what
\* _should_retry refuses to retry.
FatalError ==
    /\ stage \in Requests
    /\ stage' = "refused"
    /\ UNCHANGED <<jira, tries, rounds, spent, collected>>

\* stop_after_attempt taken for a number of retries.
BugTryAgainOnceMore ==
    /\ stage \in Requests
    /\ tries < MaxTries
    /\ tries' = tries + 1
    /\ spent' = spent + 1
    /\ UNCHANGED <<jira, stage, rounds, collected>>

\* No answer, 429 or 5xx, and a try left.
TryAgain ==
    /\ stage \in Requests
    /\ tries + 1 < MaxTries
    /\ tries' = tries + 1
    /\ spent' = spent + 1
    /\ UNCHANGED <<jira, stage, rounds, collected>>

\* The last try of the inner decorator; the outer one begins again.
TryRequestAgain ==
    /\ stage = "myself"
    /\ tries + 1 = MaxTries
    /\ rounds + 1 < MaxTries
    /\ tries' = 0
    /\ rounds' = rounds + 1
    /\ spent' = spent + 1
    /\ UNCHANGED <<jira, stage, collected>>

OutOfTries ==
    /\ stage \in Requests
    /\ tries + 1 = MaxTries
    /\ stage = "myself" => rounds + 1 = MaxTries
    /\ stage' = "exhausted"
    /\ spent' = spent + 1
    /\ UNCHANGED <<jira, tries, rounds, collected>>

-----------------------------------------------------------------------------
(* The answers, in the order of fetch_project_metadata.                     *)

Myself ==
    /\ stage = "myself"
    /\ Goto("returned")
    /\ UNCHANGED <<jira, collected>>

\* The issue types are asked for only when the project does not list its own.
Answered ==
    /\ \E i \in DOMAIN Plain :
          /\ stage = Plain[i]
          /\ \/ Goto(IF i = Len(Plain) THEN "labels" ELSE Plain[i + 1])
             \/ stage = "project" /\ Goto("fields")
    /\ UNCHANGED <<jira, collected>>

\* startAt is advanced by maxResults, whatever was received.
BugLabelPageByRequest(size) ==
    IF labels = <<>>
    THEN SubSeq(server.labels, 1, Min({size, Len(server.labels)}))
    ELSE SubSeq(server.labels, MaxPage + 1, Min({MaxPage + size, Len(server.labels)}))

\* startAt counts from one.
BugLabelPageOverlaps(size) ==
    SubSeq(server.labels, Max({Len(labels), 1}), Min({Len(labels) + size, Len(server.labels)}))

\* startAt is the number of labels received; Jira chooses how many it returns.
LabelPage(size) ==
    SubSeq(server.labels, Len(labels) + 1, Min({Len(labels) + size, Len(server.labels)}))

\* What Jira says in isLast, or leaves out, which the client takes for TRUE: that
\* a page is the last it does not say while labels follow, but it need not say so
\* of a page that happens to end the list.
MayBeLast(received) == {is_last \in BOOLEAN : is_last => received >= Len(server.labels)}

\* isLast alone ends the loop.
BugAnsweredLabelsTrusts ==
    /\ stage = "labels"
    /\ \E size \in 1 .. MaxPage :
          /\ labels' = labels \o LabelPage(size)
          /\ \E is_last \in MayBeLast(Len(labels')) :
                Goto(IF is_last THEN "boards" ELSE "labels")
    /\ UNCHANGED <<jira, boards, sprints>>

AnsweredLabels ==
    /\ stage = "labels"
    /\ \E size \in 1 .. MaxPage :
          /\ labels' = labels \o LabelPage(size)
          /\ \E is_last \in MayBeLast(Len(labels')) :
                Goto(IF is_last \/ LabelPage(size) = <<>> THEN "boards" ELSE "labels")
    /\ UNCHANGED <<jira, boards, sprints>>

\* Only the first page of the boards is asked for.
BoardPage(found) ==
    /\ found \subseteq server.boards
    /\ Cardinality(found) = Min({MaxPage, Cardinality(server.boards)})

\* board_id is used without the test that it is set.
BugSprintBoardsUnset(found) == {board_id}

\* The boards whose sprints are to be asked for.
SprintBoards(found) == IF board_id # NoBoard THEN {board_id} ELSE found

AnsweredBoards ==
    /\ stage = "boards"
    /\ boards' \in {found \in SUBSET Boards : BoardPage(found)}
    /\ Goto(IF SprintBoards(boards') = {} THEN "returned" ELSE "sprints")
    /\ UNCHANGED <<jira, labels, sprints>>

AnsweredSprints ==
    /\ stage = "sprints"
    /\ \E board \in SprintBoards(boards) \ sprints :
          /\ sprints' = sprints \cup {board}
          /\ Goto(IF sprints' = SprintBoards(boards) THEN "returned" ELSE "sprints")
    /\ UNCHANGED <<jira, labels, boards>>

-----------------------------------------------------------------------------
(* Meanwhile, somebody edits issues in Jira.                                *)

AddLabel ==
    /\ stage \in Requests
    /\ changes.added < MaxChanges
    /\ \E label \in Labels \ ToSet(server.labels), i \in 1 .. Len(server.labels) + 1 :
          server' = [server EXCEPT !.labels = InsertAt(@, i, label)]
    /\ changes' = [changes EXCEPT !.added = @ + 1]
    /\ UNCHANGED <<entry, board_id, stage, tries, rounds, spent, collected>>

RemoveLabel ==
    /\ stage \in Requests
    /\ changes.removed < MaxChanges
    /\ \E i \in DOMAIN server.labels : server' = [server EXCEPT !.labels = RemoveAt(@, i)]
    /\ changes' = [changes EXCEPT !.removed = @ + 1]
    /\ UNCHANGED <<entry, board_id, stage, tries, rounds, spent, collected>>

-----------------------------------------------------------------------------
Client ==
    \/ FatalError \/ TryAgain \/ TryRequestAgain \/ OutOfTries
    \/ Myself \/ Answered \/ AnsweredLabels \/ AnsweredBoards \/ AnsweredSprints

Next == Client \/ AddLabel \/ RemoveLabel

\* The client runs on: an HTTP call returns or times out, and a retry waits some
\* seconds, or after a 429 as long as the answer's Retry-After says.  That header
\* is Jira's choice, and the code does not cap it; it is taken to be finite.
Spec == Init /\ [][Next]_vars /\ WF_vars(Client)

-----------------------------------------------------------------------------
(* Properties.                                                              *)

PastLabels == stage \in {"boards", "sprints"}

\* Pages are cut by what was received and not by what was asked for, so labels
\* nobody touches during the fetch are collected completely, once each and in
\* order, whatever the sizes of Jira's pages (fetch_labels).
QuietLabelsExact ==
    PastLabels /\ changes.added = 0 /\ changes.removed = 0 => labels = changes.start

\* Labels added between two pages can make others appear twice but hide none
\* of those that were there; labels removed can hide others but double none.
LabelShifts ==
    PastLabels =>
        /\ changes.removed = 0 => ToSet(changes.start) \subseteq ToSet(labels)
        /\ changes.added = 0 => Distinct(labels)

\* Every fetch returns or raises: retries come to an end, and so do the pages, by
\* an empty one when Jira has not said of the one before that it was the last
\* (fetch_labels).
FetchEnds == <>(stage \in Outcomes)

Budget == IF entry = "myself" THEN MaxTries * MaxTries ELSE MaxTries

\* An error that can pass is given up after exactly MaxTries HTTP calls, or, as
\* _request_myself retries the _request that retries, MaxTries * MaxTries.
RetryBudget ==
    /\ spent <= Budget
    /\ spent = Budget <=> stage = "exhausted"
=============================================================================
