--------------------------- MODULE MetadataStore ----------------------------
(***************************************************************************)
(* How _persist_metadata and the save that follows it replace the cached   *)
(* rows, statement by statement, when several syncs of one connection are  *)
(* in their transactions at the same time and a reader collects the rows   *)
(* with one SELECT per table.                                              *)
(*                                                                         *)
(* The database is PostgreSQL at READ COMMITTED, the default the settings  *)
(* leave in force: a statement sees the rows committed when it starts, a   *)
(* DELETE waits for a row another transaction is deleting and skips it if  *)
(* that transaction commits, an INSERT waits for an unfinished transaction *)
(* that touches its unique key and fails if the key is then taken.         *)
(* Transactions that wait for each other are found out and one is aborted. *)
(*                                                                         *)
(* A definition named Bug... is the one after it with a plausible mistake; *)
(* no specification uses it.  It shows which property notices the mistake. *)
(***************************************************************************)
EXTENDS Naturals, Sequences, FiniteSets

CONSTANTS
    Writers,  \* the tasks that have fetched metadata and persist it
    Readers,  \* the GET requests
    Nobody,   \* describes the row before the first sync
    Fetched   \* Fetched[w][table]: the keys sync w has fetched for a table

ASSUME NobodyAssumption == Nobody \notin Writers
ASSUME WritersAssumption == IsFiniteSet(Writers)

VARIABLES
    committed,  \* the rows any new statement sees
    owner,      \* the sync whose project fields are in the metadata row
    at,         \* the statement each writer is at
    state,      \* open, committed or aborted, for each writer
    scanned,    \* the rows a writer's DELETE saw when it started
    deleted,    \* the rows a writer has deleted, and holds locked
    inserted,   \* the rows a writer has inserted
    selects,    \* how many SELECTs each reader has done
    answer,     \* what each reader has collected: owner and rows
    commits     \* commits a reader has overlapped with

writerVars == <<at, state, scanned, deleted, inserted>>
readerVars == <<selects, answer, commits>>
vars == <<committed, owner, writerVars, readerVars>>

-----------------------------------------------------------------------------
(* Rows and keys.                                                           *)

Tables == {"issue_types", "fields", "boards", "sprints", "items"}

\* The sprints of a board the project does not list are skipped: the configured
\* board_id need not be one of its boards.  A sprint's key starts with its board.
Stored(w, table) ==
    IF table = "sprints"
    THEN {key \in Fetched[w].sprints : key[1] \in Fetched[w].boards}
    ELSE Fetched[w][table]

Rows(w, table) ==
    {[table |-> table, key |-> key, by |-> w] : key \in Stored(w, table)}

Result == [w \in Writers |-> UNION {Rows(w, table) : table \in Tables}]

AllRows == UNION {Result[w] : w \in Writers}

\* The unique constraints.  A sprint is unique within its board's row, which no
\* two syncs share.
SameKey(a, b) == a.table = b.table /\ a.key = b.key /\ a.table # "sprints"

Clashes(these, those) == \E a \in these, b \in those : SameKey(a, b)

-----------------------------------------------------------------------------
(* The statements of the transaction.                                       *)

Scan(tables)  == [op |-> "scan", tables |-> tables]
Erase(tables) == [op |-> "delete", tables |-> tables]
Add(table)    == [op |-> "insert", tables |-> {table}]

\* A DELETE takes its snapshot first and may then wait; boards take their
\* sprints with them.
Program ==
    << Scan({"issue_types"}), Erase({"issue_types"}),
       Scan({"fields"}), Erase({"fields"}),
       Scan({"boards", "sprints"}), Erase({"boards", "sprints"}),
       Scan({"items"}), Erase({"items"}),
       Add("issue_types"), Add("fields"), Add("boards"), Add("sprints"), Add("items") >>

\* The SELECTs of get_metadata, after the one of the metadata row.
SelectOrder == <<"issue_types", "fields", "boards", "sprints", "items">>

TypeOK ==
    /\ committed \subseteq AllRows
    /\ owner \in Writers \cup {Nobody}
    /\ at \in [Writers -> 1 .. Len(Program) + 1]
    /\ state \in [Writers -> {"open", "committed", "aborted"}]
    /\ scanned \in [Writers -> SUBSET AllRows]
    /\ deleted \in [Writers -> SUBSET AllRows]
    /\ inserted \in [Writers -> SUBSET AllRows]
    /\ selects \in [Readers -> 0 .. Len(SelectOrder) + 1]
    /\ answer \in [Readers -> [owner : Writers \cup {Nobody}, rows : SUBSET AllRows]]
    /\ commits \in [Readers -> 0 .. Cardinality(Writers)]

Init ==
    /\ committed = {}
    /\ owner = Nobody
    /\ at = [w \in Writers |-> 1]
    /\ state = [w \in Writers |-> "open"]
    /\ scanned = [w \in Writers |-> {}]
    /\ deleted = [w \in Writers |-> {}]
    /\ inserted = [w \in Writers |-> {}]
    /\ selects = [r \in Readers |-> 0]
    /\ answer = [r \in Readers |-> [owner |-> Nobody, rows |-> {}]]
    /\ commits = [r \in Readers |-> 0]

At(w, op) ==
    /\ state[w] = "open"
    /\ at[w] <= Len(Program)
    /\ Program[at[w]].op = op

Advance(w) == at' = [at EXCEPT ![w] = @ + 1]

Others(w) == Writers \ {w}

NewRows(w) == UNION {Rows(w, table) : table \in Program[at[w]].tables}

\* The unfinished transactions a statement of w waits for.
Blockers(w) ==
    {v \in Others(w) :
        \/ At(w, "delete") /\ scanned[w] \cap deleted[v] # {}
        \/ At(w, "insert") /\ Clashes(NewRows(w), inserted[v] \cup deleted[v])}

StartDelete(w) ==
    /\ At(w, "scan")
    /\ scanned' = [scanned EXCEPT ![w] =
                      {row \in committed : row.table \in Program[at[w]].tables}]
    /\ Advance(w)
    /\ UNCHANGED <<committed, owner, state, deleted, inserted, readerVars>>

Delete(w) ==
    /\ At(w, "delete")
    /\ Blockers(w) = {}
    /\ deleted' = [deleted EXCEPT ![w] = @ \cup (scanned[w] \cap committed)]
    /\ Advance(w)
    /\ UNCHANGED <<committed, owner, state, scanned, inserted, readerVars>>

\* The unique constraints are missing from the tables.
BugKeysFreeAlways(w) == TRUE

KeysFree(w) == ~Clashes(NewRows(w), committed \ deleted[w])

Insert(w) ==
    /\ At(w, "insert")
    /\ Blockers(w) = {}
    /\ KeysFree(w)
    /\ inserted' = [inserted EXCEPT ![w] = @ \cup NewRows(w)]
    /\ Advance(w)
    /\ UNCHANGED <<committed, owner, state, scanned, deleted, readerVars>>

\* The end of the transaction, either way, gives its locks back.
Release(w, outcome) ==
    /\ state' = [state EXCEPT ![w] = outcome]
    /\ scanned' = [scanned EXCEPT ![w] = {}]
    /\ deleted' = [deleted EXCEPT ![w] = {}]
    /\ inserted' = [inserted EXCEPT ![w] = {}]
    /\ UNCHANGED at

\* The failed INSERT is sent again until it succeeds.
BugInsertConflictRepeats(w) ==
    /\ At(w, "insert")
    /\ Blockers(w) = {}
    /\ ~KeysFree(w)
    /\ UNCHANGED vars

\* IntegrityError: run_metadata_sync goes to its except branch.
InsertConflict(w) ==
    /\ At(w, "insert")
    /\ Blockers(w) = {}
    /\ ~KeysFree(w)
    /\ Release(w, "aborted")
    /\ UNCHANGED <<committed, owner, readerVars>>

\* A transaction that has committed is not told so, and commits what it has again.
BugCommitRepeats(w) ==
    /\ state[w] = "open"
    /\ at[w] = Len(Program) + 1
    /\ committed' = (committed \ deleted[w]) \cup inserted[w]
    /\ owner' = w
    /\ commits' = [r \in Readers |->
                      IF selects[r] \in 1 .. Len(SelectOrder) THEN commits[r] + 1
                                                              ELSE commits[r]]
    /\ UNCHANGED <<writerVars, selects, answer>>

\* metadata.save, the last statement, and the commit.
Commit(w) ==
    /\ state[w] = "open"
    /\ at[w] = Len(Program) + 1
    /\ committed' = (committed \ deleted[w]) \cup inserted[w]
    /\ owner' = w
    /\ Release(w, "committed")
    /\ commits' = [r \in Readers |->
                      IF selects[r] \in 1 .. Len(SelectOrder) THEN commits[r] + 1
                                                              ELSE commits[r]]
    /\ UNCHANGED <<selects, answer>>

\* The database finds a cycle of waiting transactions and breaks it.
BreakDeadlock(w) ==
    /\ \E circle \in SUBSET Writers :
          w \in circle /\ \A u \in circle : Blockers(u) \cap circle # {}
    /\ Release(w, "aborted")
    /\ UNCHANGED <<committed, owner, readerVars>>

\* The worker dies, or the database refuses a value.
Rollback(w) ==
    /\ state[w] = "open"
    /\ Release(w, "aborted")
    /\ UNCHANGED <<committed, owner, readerVars>>

-----------------------------------------------------------------------------
(* get_metadata: one SELECT for the metadata row, one for each table.       *)

SelectMetadata(r) ==
    /\ selects[r] = 0
    /\ answer' = [answer EXCEPT ![r].owner = owner]
    /\ selects' = [selects EXCEPT ![r] = 1]
    /\ UNCHANGED <<committed, owner, writerVars, commits>>

\* The sprints are asked for by the connection, as they are at that time.
BugVisible(r, table) == {row \in committed : row.table = table}

\* The sprints are asked for by the primary keys of the boards just read.
Visible(r, table) ==
    {row \in committed :
        /\ row.table = table
        /\ table = "sprints" =>
              \E board \in answer[r].rows :
                 board.table = "boards" /\ board.by = row.by /\ board.key = row.key[1]}

SelectRows(r) ==
    /\ selects[r] \in 1 .. Len(SelectOrder)
    /\ answer' = [answer EXCEPT ![r].rows = @ \cup Visible(r, SelectOrder[selects[r]])]
    /\ selects' = [selects EXCEPT ![r] = @ + 1]
    /\ UNCHANGED <<committed, owner, writerVars, commits>>

-----------------------------------------------------------------------------
WriterStep(w) ==
    \/ StartDelete(w) \/ Delete(w) \/ Insert(w) \/ InsertConflict(w) \/ Commit(w)
    \/ BreakDeadlock(w)

Next ==
    \/ \E w \in Writers : WriterStep(w) \/ Rollback(w)
    \/ \E r \in Readers : SelectMetadata(r) \/ SelectRows(r)

\* A statement that need not wait is executed, and a deadlock is broken.
Spec == Init /\ [][Next]_vars /\ \A w \in Writers : WF_vars(WriterStep(w))

-----------------------------------------------------------------------------
(* Properties.                                                              *)

Contents(w) == IF w = Nobody THEN {} ELSE Result[w]

\* All the rows come from the sync the metadata row describes.
CacheIsOneSync == committed = Contents(owner)

Cache == INSTANCE MetadataCache WITH rows <- committed

\* Any two syncs of the connection have an issue type in common.
SharedIssueType == \A v, w \in Writers : Fetched[v].issue_types \cap Fetched[w].issue_types # {}

\* Syncs that share an issue type, as those of one project do, replace the
\* cache as if each did it at one instant, however their statements interleave:
\* the issue types, written first, let only one of them through.  It holds of
\* instances where SharedIssueType does.
AtomicReplacement == Cache!Spec

RowsOf(rows, table) == {row \in rows : row.table = table}

\* got, an answer that has overlapped some commits, has all the rows of one of
\* syncs in each of tables.  The sprints are those of its boards; after a commit
\* they may be missing.
MadeOf(got, overlapped, tables, syncs) ==
    /\ got.owner \in syncs
    /\ Cardinality(syncs) <= overlapped + 1
    /\ \A table \in tables \ {"sprints"} : \E w \in syncs :
           RowsOf(got.rows, table) = RowsOf(Contents(w), table)
    /\ "sprints" \in tables => \E w \in syncs :
           /\ RowsOf(got.rows, "boards") = RowsOf(Contents(w), "boards")
           /\ \/ RowsOf(got.rows, "sprints") = RowsOf(Contents(w), "sprints")
              \/ overlapped > 0 /\ RowsOf(got.rows, "sprints") = {}

\* A GET reads table by table in no transaction.  Its answer is made of whole
\* tables, of one sync if no commit came between its SELECTs and of at most one
\* more for each that did, and never shows a board with sprints of another sync;
\* of a transaction that has not committed it shows nothing.
ReadsAreWholeTables ==
    SharedIssueType =>
        \A r \in Readers : selects[r] = Len(SelectOrder) + 1 =>
            \E syncs \in SUBSET (Writers \cup {Nobody}) :
                MadeOf(answer[r], commits[r], Tables, syncs)

\* Every sync that has begun to persist commits or rolls back: two that wait
\* for each other's rows, which their DELETEs and INSERTs can bring about, do so
\* only until the database breaks the deadlock.
WritersFinish == \A w \in Writers : <>(state[w] # "open")
=============================================================================
