------------------------ MODULE MetadataStoreProofs -------------------------
(* What holds of MetadataStore for any number of syncs and readers and      *)
(* whatever they have fetched: types, the locks of the transactions, that   *)
(* syncs sharing an issue type replace the cache atomically, and that an    *)
(* answer is made of whole tables of the syncs it has overlapped with.      *)
EXTENDS MetadataStore, FiniteSetTheorems, TLAPS

-----------------------------------------------------------------------------
(* The program of the transaction.                                          *)

LEMMA ProgramSteps ==
    /\ Len(Program) = 13 /\ DOMAIN Program = 1 .. 13
    /\ \A i \in {1, 3, 5, 7} : Program[i].op = "scan" /\ Program[i + 1].op = "delete"
                               /\ Program[i + 1].tables = Program[i].tables
    /\ Program[2].tables = {"issue_types"} /\ Program[4].tables = {"fields"}
    /\ Program[6].tables = {"boards", "sprints"} /\ Program[8].tables = {"items"}
    /\ \A i \in 9 .. 13 : Program[i].op = "insert"
    /\ Program[9].tables = {"issue_types"} /\ Program[10].tables = {"fields"}
    /\ Program[11].tables = {"boards"} /\ Program[12].tables = {"sprints"}
    /\ Program[13].tables = {"items"}
  <1>1. /\ Program[1] = Scan({"issue_types"}) /\ Program[2] = Erase({"issue_types"})
        /\ Program[3] = Scan({"fields"}) /\ Program[4] = Erase({"fields"})
        /\ Program[5] = Scan({"boards", "sprints"}) /\ Program[6] = Erase({"boards", "sprints"})
        /\ Program[7] = Scan({"items"}) /\ Program[8] = Erase({"items"})
        /\ Program[9] = Add("issue_types") /\ Program[10] = Add("fields")
        /\ Program[11] = Add("boards") /\ Program[12] = Add("sprints")
        /\ Program[13] = Add("items")
    BY DEF Program
  <1>2. Len(Program) = 13 /\ DOMAIN Program = 1 .. 13
    BY DEF Program
  <1>3. \A T : /\ Scan(T).op = "scan" /\ Scan(T).tables = T
               /\ Erase(T).op = "delete" /\ Erase(T).tables = T
    BY DEF Scan, Erase
  <1>4. \A t : Add(t).op = "insert" /\ Add(t).tables = {t}
    BY DEF Add
  <1>5. 9 .. 13 = {9, 10, 11, 12, 13} /\ 1 + 1 = 2 /\ 3 + 1 = 4 /\ 5 + 1 = 6 /\ 7 + 1 = 8
    OBVIOUS
  <1>6. \A i \in {1, 3, 5, 7} : Program[i].op = "scan" /\ Program[i + 1].op = "delete"
                              /\ Program[i + 1].tables = Program[i].tables
    BY <1>1, <1>3, <1>5
  <1>7. \A i \in 9 .. 13 : Program[i].op = "insert"
    BY <1>1, <1>4, <1>5
  <1> QED
    BY <1>1, <1>2, <1>3, <1>4, <1>6, <1>7

\* The tables the statements before the n-th have deleted from, or inserted into.
Done(op, n) ==
    UNION {Program[i].tables : i \in {j \in 1 .. 13 : j < n /\ Program[j].op = op}}

LEMMA DoneStep ==
    ASSUME NEW op, NEW n \in 1 .. 13
    PROVE  Done(op, n + 1) = Done(op, n) \cup (IF Program[n].op = op THEN Program[n].tables ELSE {})
  <1>1. \A j \in 1 .. 13 : j < n + 1 <=> j < n \/ j = n
    OBVIOUS
  <1> QED
    BY <1>1 DEF Done

LEMMA DoneTables ==
    /\ Done("delete", 2) = {}
    /\ \A n \in 9 .. 14 : Done("delete", n) = Tables
    /\ \A n \in 1 .. 9 : Done("insert", n) = {}
    /\ \A n \in 10 .. 14 : "issue_types" \in Done("insert", n)
    /\ Done("insert", 14) = Tables
    /\ \A op, n : Done(op, n) \subseteq Tables
    /\ \A i \in 1 .. 13 : \/ i \in {1, 3, 5, 7} /\ Program[i].op = "scan"
                          \/ i \in {2, 4, 6, 8} /\ Program[i].op = "delete"
                          \/ i \in 9 .. 13 /\ Program[i].op = "insert"
  <1>1. \A i \in 1 .. 13 : \/ i \in {1, 3, 5, 7} /\ Program[i].op = "scan"
                           \/ i \in {2, 4, 6, 8} /\ Program[i].op = "delete"
                           \/ i \in 9 .. 13 /\ Program[i].op = "insert"
    <2>1. \A i \in 1 .. 13 : i \in {1, 3, 5, 7} \/ i - 1 \in {1, 3, 5, 7} \/ i \in 9 .. 13
      OBVIOUS
    <2>2. \A i \in {2, 4, 6, 8} : i - 1 \in {1, 3, 5, 7} /\ (i - 1) + 1 = i
      OBVIOUS
    <2>3. \A i \in {2, 4, 6, 8} : Program[i].op = "delete"
      BY <2>2, ProgramSteps
    <2> QED
      BY <2>1, <2>3, ProgramSteps
  <1>2. \A i \in 1 .. 13 : Program[i].tables \subseteq Tables
    <2>1. \A i \in {2, 4, 6, 8, 9, 10, 11, 12, 13} : Program[i].tables \subseteq Tables
      BY ProgramSteps DEF Tables
    <2>2. \A i \in {1, 3, 5, 7} : Program[i].tables = Program[i + 1].tables
      BY ProgramSteps
    <2>3. \A i \in {1, 3, 5, 7} : i + 1 \in {2, 4, 6, 8, 9, 10, 11, 12, 13}
      OBVIOUS
    <2>4. 1 .. 13 = {1, 3, 5, 7} \cup {2, 4, 6, 8, 9, 10, 11, 12, 13}
      OBVIOUS
    <2> QED
      BY <2>1, <2>2, <2>3, <2>4
  <1>3. Done("delete", 2) = {}
    BY <1>1 DEF Done
  <1>4. \A op, n : Done(op, n) \subseteq Tables
    BY <1>2 DEF Done
  <1>5. ASSUME NEW n \in 9 .. 14 PROVE Tables \subseteq Done("delete", n)
    <2>1. \A i \in {2, 4, 6, 8} : i \in 1 .. 13 /\ i < n /\ Program[i].op = "delete"
      BY <1>1
    <2>2. \A i \in {2, 4, 6, 8} : Program[i].tables \subseteq Done("delete", n)
      BY <2>1 DEF Done
    <2> QED
      BY <2>2, ProgramSteps DEF Tables
  <1>6. \A n \in 1 .. 9 : Done("insert", n) = {}
    BY <1>1 DEF Done
  <1>7. \A n \in 10 .. 14 : "issue_types" \in Done("insert", n)
    <2>1. \A n \in 10 .. 14 : 9 \in 1 .. 13 /\ 9 < n /\ Program[9].op = "insert"
      BY <1>1
    <2> QED
      BY <2>1, ProgramSteps DEF Done
  <1>8. Tables \subseteq Done("insert", 14)
    <2>1. \A i \in 9 .. 13 : i \in 1 .. 13 /\ i < 14 /\ Program[i].op = "insert"
      BY <1>1
    <2>2. \A i \in 9 .. 13 : Program[i].tables \subseteq Done("insert", 14)
      BY <2>1 DEF Done
    <2>3. 9 .. 13 = {9, 10, 11, 12, 13}
      OBVIOUS
    <2> QED
      BY <2>2, <2>3, ProgramSteps DEF Tables
  <1> QED
    BY <1>1, <1>3, <1>4, <1>5, <1>6, <1>7, <1>8

LEMMA SelectSteps ==
    /\ Len(SelectOrder) = 5
    /\ SelectOrder[1] = "issue_types" /\ SelectOrder[2] = "fields" /\ SelectOrder[3] = "boards"
    /\ SelectOrder[4] = "sprints" /\ SelectOrder[5] = "items"
  BY DEF SelectOrder

-----------------------------------------------------------------------------
(* Rows.                                                                    *)

LEMMA ResultRows ==
    ASSUME NEW w \in Writers
    PROVE  /\ \A t \in Tables : Rows(w, t) \subseteq Result[w]
           /\ \A row \in Result[w] : row.by = w /\ row.table \in Tables
                                     /\ row \in Rows(w, row.table)
           /\ Result[w] = UNION {Rows(w, t) : t \in Tables}
           /\ Result[w] \subseteq AllRows
  <1>1. Result[w] = UNION {Rows(w, t) : t \in Tables}
    BY DEF Result
  <1>2. \A t : \A row \in Rows(w, t) : row.by = w /\ row.table = t
    BY DEF Rows
  <1>3. Result[w] \subseteq AllRows
    BY DEF AllRows
  <1> QED
    BY <1>1, <1>2, <1>3

LEMMA NewRowsTyped ==
    ASSUME NEW w \in Writers, at[w] \in 1 .. 13
    PROVE  NewRows(w) \subseteq AllRows
  <1>1. Program[at[w]].tables \subseteq Done(Program[at[w]].op, at[w] + 1)
    BY DoneStep
  <1>2. Program[at[w]].tables \subseteq Tables
    BY <1>1, DoneTables
  <1> QED
    BY <1>2, ResultRows DEF NewRows

-----------------------------------------------------------------------------
(* Types.                                                                   *)

\* The syncs that have committed, each of which a reader can have overlapped
\* with once.
Finished == {w \in Writers : state[w] = "committed"}

TypeInv ==
    /\ TypeOK
    /\ \A r \in Readers : commits[r] <= Cardinality(Finished)

LEMMA FinishedBound ==
    /\ IsFiniteSet(Finished) /\ Cardinality(Finished) \in Nat
    /\ Cardinality(Writers) \in Nat /\ Cardinality(Finished) <= Cardinality(Writers)
  <1>1. Finished \subseteq Writers
    BY DEF Finished
  <1> QED
    BY <1>1, WritersAssumption, FS_Subset, FS_CardinalityType

LEMMA InitType == Init => TypeInv
  <1> SUFFICES ASSUME Init PROVE TypeInv
    OBVIOUS
  <1>1. at \in [Writers -> 1 .. Len(Program) + 1]
    BY ProgramSteps DEF Init
  <1>2. selects \in [Readers -> 0 .. Len(SelectOrder) + 1]
    BY SelectSteps DEF Init
  <1>3. answer \in [Readers -> [owner : Writers \cup {Nobody}, rows : SUBSET AllRows]]
    BY DEF Init
  <1>4. commits \in [Readers -> 0 .. Cardinality(Writers)]
    BY FinishedBound DEF Init
  <1>5. \A r \in Readers : commits[r] <= Cardinality(Finished)
    BY FinishedBound DEF Init
  <1>6. /\ state \in [Writers -> {"open", "committed", "aborted"}]
        /\ scanned \in [Writers -> SUBSET AllRows]
        /\ deleted \in [Writers -> SUBSET AllRows]
        /\ inserted \in [Writers -> SUBSET AllRows]
    BY DEF Init
  <1>7. committed \subseteq AllRows /\ owner \in Writers \cup {Nobody}
    BY DEF Init
  <1> QED
    BY <1>1, <1>2, <1>3, <1>4, <1>5, <1>6, <1>7 DEF TypeInv, TypeOK

\* A statement is executed by an open transaction.
LEMMA AtOpen ==
    ASSUME TypeOK, NEW w \in Writers, NEW op, At(w, op)
    PROVE  state[w] = "open" /\ at[w] \in 1 .. 13 /\ Program[at[w]].op = op
  BY ProgramSteps DEF At, TypeOK

\* Only an open transaction waits, so only an open one is aborted.
LEMMA AbortOpen ==
    ASSUME NEW w \in Writers, BreakDeadlock(w) \/ InsertConflict(w) \/ Rollback(w)
    PROVE  /\ state[w] = "open"
           /\ Release(w, "aborted")
           /\ UNCHANGED <<committed, owner, at, selects, answer, commits>>
  <1>1. Release(w, "aborted") /\ UNCHANGED <<committed, owner, at, selects, answer, commits>>
    BY DEF BreakDeadlock, InsertConflict, Rollback, Release, readerVars
  <1>2. BreakDeadlock(w) => state[w] = "open"
    <2> SUFFICES ASSUME BreakDeadlock(w) PROVE state[w] = "open"
      OBVIOUS
    <2>1. Blockers(w) # {}
      BY DEF BreakDeadlock
    <2> QED
      BY <2>1 DEF Blockers, At
  <1>3. InsertConflict(w) \/ Rollback(w) => state[w] = "open"
    BY DEF InsertConflict, Rollback, At
  <1> QED
    BY <1>1, <1>2, <1>3

LEMMA NextType == TypeInv /\ [Next]_vars => TypeInv'
  <1> SUFFICES ASSUME TypeInv, [Next]_vars PROVE TypeInv'
    OBVIOUS
  <1>0. TypeOK
    BY DEF TypeInv
  <1> USE DEF writerVars, readerVars
  <1> DEFINE Kept == UNCHANGED <<state, commits>> /\ TypeOK'
  <1>1. Kept => TypeInv'
    BY DEF TypeInv, Finished
  <1>2. ASSUME NEW w \in Writers, StartDelete(w)
        PROVE  Kept
    <2>1. at[w] \in 1 .. 13
      BY <1>0, <1>2, AtOpen DEF StartDelete
    <2>2. at' \in [Writers -> 1 .. Len(Program) + 1]
      BY <1>0, <1>2, <2>1, ProgramSteps DEF StartDelete, Advance, TypeOK
    <2>3. scanned' \in [Writers -> SUBSET AllRows]
      BY <1>0, <1>2 DEF StartDelete, TypeOK
    <2> QED
      BY <1>0, <1>2, <2>2, <2>3 DEF StartDelete, TypeOK
  <1>3. ASSUME NEW w \in Writers, Delete(w)
        PROVE  Kept
    <2>1. at[w] \in 1 .. 13
      BY <1>0, <1>3, AtOpen DEF Delete
    <2>2. at' \in [Writers -> 1 .. Len(Program) + 1]
      BY <1>0, <1>3, <2>1, ProgramSteps DEF Delete, Advance, TypeOK
    <2>3. deleted' \in [Writers -> SUBSET AllRows]
      BY <1>0, <1>3 DEF Delete, TypeOK
    <2> QED
      BY <1>0, <1>3, <2>2, <2>3 DEF Delete, TypeOK
  <1>4. ASSUME NEW w \in Writers, Insert(w)
        PROVE  Kept
    <2>1. at[w] \in 1 .. 13
      BY <1>0, <1>4, AtOpen DEF Insert
    <2>2. at' \in [Writers -> 1 .. Len(Program) + 1]
      BY <1>0, <1>4, <2>1, ProgramSteps DEF Insert, Advance, TypeOK
    <2>3. inserted' \in [Writers -> SUBSET AllRows]
      BY <1>0, <1>4, <2>1, NewRowsTyped DEF Insert, TypeOK
    <2> QED
      BY <1>0, <1>4, <2>2, <2>3 DEF Insert, TypeOK
  <1>5. ASSUME NEW w \in Writers, NEW outcome \in {"committed", "aborted"}, Release(w, outcome)
        PROVE  /\ state' \in [Writers -> {"open", "committed", "aborted"}]
               /\ scanned' \in [Writers -> SUBSET AllRows]
               /\ deleted' \in [Writers -> SUBSET AllRows]
               /\ inserted' \in [Writers -> SUBSET AllRows]
               /\ at' \in [Writers -> 1 .. Len(Program) + 1]
    BY <1>0, <1>5 DEF Release, TypeOK
  <1>6. ASSUME NEW w \in Writers, BreakDeadlock(w) \/ InsertConflict(w) \/ Rollback(w)
        PROVE  TypeInv'
    <2>1. state[w] = "open" /\ Release(w, "aborted")
          /\ UNCHANGED <<committed, owner, selects, answer, commits>>
      BY <1>6, AbortOpen
    <2>2. Finished' = Finished
      BY <1>0, <2>1 DEF Finished, Release, TypeOK
    <2>3. TypeOK'
      BY <1>0, <1>5, <2>1 DEF TypeOK
    <2> QED
      BY <2>1, <2>2, <2>3 DEF TypeInv
  <1>7. ASSUME NEW w \in Writers, Commit(w)
        PROVE  TypeInv'
    <2>1. /\ state[w] = "open" /\ Release(w, "committed")
          /\ committed' = (committed \ deleted[w]) \cup inserted[w] /\ owner' = w
          /\ UNCHANGED <<selects, answer>>
      BY <1>7 DEF Commit
    <2>2. Finished' = Finished \cup {w} /\ w \notin Finished
      BY <1>0, <2>1 DEF Finished, Release, TypeOK
    <2>3. Cardinality(Finished') = Cardinality(Finished) + 1
      BY <2>2, FinishedBound, FS_AddElement
    <2>4. Cardinality(Finished') <= Cardinality(Writers)
      <3>1. Finished' \subseteq Writers
        BY <2>2 DEF Finished
      <3> QED
        BY <3>1, WritersAssumption, FS_Subset
    <2>5. \A r \in Readers : commits'[r] \in {commits[r], commits[r] + 1}
      BY <1>7 DEF Commit
    <2>6. \A r \in Readers : commits[r] \in Nat /\ commits[r] <= Cardinality(Finished)
      BY <1>0, FinishedBound DEF TypeInv, TypeOK
    <2>7. \A r \in Readers : commits'[r] \in 0 .. Cardinality(Writers)
                             /\ commits'[r] <= Cardinality(Finished')
      BY <2>3, <2>4, <2>5, <2>6, FinishedBound
    <2>8. commits' \in [Readers -> 0 .. Cardinality(Writers)]
      BY <1>7, <2>7 DEF Commit
    <2>9. committed' \subseteq AllRows
      BY <1>0, <2>1 DEF TypeOK
    <2>10. TypeOK'
      BY <1>0, <1>5, <2>1, <2>8, <2>9 DEF TypeOK
    <2> QED
      BY <2>7, <2>10 DEF TypeInv
  <1>8. ASSUME NEW r \in Readers, SelectMetadata(r)
        PROVE  Kept
    <2>1. answer' \in [Readers -> [owner : Writers \cup {Nobody}, rows : SUBSET AllRows]]
      BY <1>0, <1>8 DEF SelectMetadata, TypeOK
    <2>2. selects' \in [Readers -> 0 .. Len(SelectOrder) + 1]
      BY <1>0, <1>8, SelectSteps DEF SelectMetadata, TypeOK
    <2> QED
      BY <1>0, <1>8, <2>1, <2>2 DEF SelectMetadata, TypeOK
  <1>9. ASSUME NEW r \in Readers, SelectRows(r)
        PROVE  Kept
    <2>1. \A table : Visible(r, table) \subseteq AllRows
      BY <1>0 DEF Visible, TypeOK
    <2>2. answer' \in [Readers -> [owner : Writers \cup {Nobody}, rows : SUBSET AllRows]]
      BY <1>0, <1>9, <2>1 DEF SelectRows, TypeOK
    <2>3. selects' \in [Readers -> 0 .. Len(SelectOrder) + 1]
      BY <1>0, <1>9, SelectSteps DEF SelectRows, TypeOK
    <2> QED
      BY <1>0, <1>9, <2>2, <2>3 DEF SelectRows, TypeOK
  <1>10. CASE UNCHANGED vars
    BY <1>0, <1>1, <1>10 DEF vars, TypeOK
  <1> QED
    BY <1>1, <1>2, <1>3, <1>4, <1>6, <1>7, <1>8, <1>9, <1>10 DEF Next, WriterStep

LEMMA TypeInvariance == Spec => []TypeInv
  BY InitType, NextType, PTL DEF Spec

\* For any syncs and readers, every variable keeps its type: no transaction
\* runs past its last statement, no reader past its last SELECT, and no reader
\* overlaps more commits than there are syncs.
THEOREM TypeCorrect == Spec => []TypeOK
  <1>1. TypeInv => TypeOK
    BY DEF TypeInv
  <1> QED
    BY <1>1, TypeInvariance, PTL

-----------------------------------------------------------------------------
(* Locks: what the transactions hold, whatever the syncs have fetched.      *)

Open(w) == state[w] = "open"

\* A finished transaction holds nothing.
Released == \A w \in Writers : ~Open(w) => scanned[w] = {} /\ deleted[w] = {} /\ inserted[w] = {}

\* What a transaction has inserted follows from the statement it is at.
InsertedInOrder ==
    \A w \in Writers : Open(w) => inserted[w] = UNION {Rows(w, t) : t \in Done("insert", at[w])}

\* A deleted row is a committed one, and locked by one transaction.
DeletedIsLocked ==
    /\ \A w \in Writers : deleted[w] \subseteq committed
    /\ \A v, w \in Writers : v # w => deleted[v] \cap deleted[w] = {}

\* What statements see was committed by transactions that have finished.
SeenIsFinished ==
    /\ owner # Nobody => state[owner] = "committed"
    /\ \A row \in committed : state[row.by] = "committed"
    /\ \A w \in Writers : \A row \in scanned[w] : state[row.by] = "committed"

LockInv == Released /\ InsertedInOrder /\ DeletedIsLocked /\ SeenIsFinished

LEMMA InitLocks == Init => LockInv
  <1> SUFFICES ASSUME Init PROVE LockInv
    OBVIOUS
  <1>1. Released
    BY DEF Init, Released
  <1>2. InsertedInOrder
    BY DoneTables DEF Init, InsertedInOrder
  <1>3. DeletedIsLocked
    BY DEF Init, DeletedIsLocked
  <1>4. SeenIsFinished
    BY DEF Init, SeenIsFinished
  <1> QED
    BY <1>1, <1>2, <1>3, <1>4 DEF LockInv

\* The rows of a writer's statements name it.
LEMMA InsertedByWriter ==
    ASSUME InsertedInOrder, NEW w \in Writers, Open(w)
    PROVE  /\ \A row \in inserted[w] : row.by = w
           /\ inserted[w] \subseteq Result[w]
           /\ at[w] = 14 => inserted[w] = Result[w]
  <1>1. inserted[w] = UNION {Rows(w, t) : t \in Done("insert", at[w])}
    BY DEF InsertedInOrder
  <1>2. inserted[w] \subseteq Result[w]
    BY <1>1, DoneTables, ResultRows
  <1> QED
    BY <1>1, <1>2, DoneTables, ResultRows

\* What a step of a writer leaves alone, and what it does to its own entries.
StepOf(w) ==
    /\ Open(w)
    /\ \A v \in Others(w) :
           /\ at'[v] = at[v] /\ state'[v] = state[v] /\ scanned'[v] = scanned[v]
           /\ deleted'[v] = deleted[v] /\ inserted'[v] = inserted[v]

Scans(w) ==
    /\ StepOf(w)
    /\ at[w] \in {1, 3, 5, 7} /\ at'[w] = at[w] + 1
    /\ scanned'[w] = {row \in committed : row.table \in Program[at[w] + 1].tables}
    /\ deleted'[w] = deleted[w] /\ inserted'[w] = inserted[w]
    /\ UNCHANGED <<committed, owner, state>>

Deletes(w) ==
    /\ StepOf(w)
    /\ at[w] \in {2, 4, 6, 8} /\ at'[w] = at[w] + 1
    /\ \A v \in Others(w) : scanned[w] \cap deleted[v] = {}
    /\ deleted'[w] = deleted[w] \cup (scanned[w] \cap committed)
    /\ scanned'[w] = scanned[w] /\ inserted'[w] = inserted[w]
    /\ UNCHANGED <<committed, owner, state>>

Inserts(w) ==
    /\ StepOf(w)
    /\ at[w] \in 9 .. 13 /\ at'[w] = at[w] + 1
    /\ \A v \in Others(w) : ~Clashes(NewRows(w), inserted[v] \cup deleted[v])
    /\ KeysFree(w)
    /\ inserted'[w] = inserted[w] \cup NewRows(w)
    /\ scanned'[w] = scanned[w] /\ deleted'[w] = deleted[w]
    /\ UNCHANGED <<committed, owner, state>>

Ends(w) ==
    /\ StepOf(w)
    /\ at'[w] = at[w]
    /\ scanned'[w] = {} /\ deleted'[w] = {} /\ inserted'[w] = {}

Aborts(w) ==
    /\ Ends(w) /\ state'[w] = "aborted"
    /\ UNCHANGED <<committed, owner>>

Commits(w) ==
    /\ Ends(w) /\ state'[w] = "committed"
    /\ at[w] = 14
    /\ committed' = (committed \ deleted[w]) \cup inserted[w]
    /\ owner' = w

Idles == UNCHANGED <<committed, owner, writerVars>>

\* Every step is one of these, which say of each writer what becomes of it.
LEMMA StepCases ==
    ASSUME TypeOK, [Next]_vars
    PROVE  \/ \E w \in Writers : Scans(w) \/ Deletes(w) \/ Inserts(w) \/ Aborts(w) \/ Commits(w)
           \/ Idles
  <1> USE DEF TypeOK
  <1>0. \A i \in 1 .. 13 : /\ Program[i].op = "scan" <=> i \in {1, 3, 5, 7}
                           /\ Program[i].op = "delete" <=> i \in {2, 4, 6, 8}
                           /\ Program[i].op = "insert" <=> i \in 9 .. 13
    <2>1. "scan" # "delete" /\ "scan" # "insert" /\ "delete" # "insert"
      OBVIOUS
    <2> QED
      BY <2>1, DoneTables
  <1>1. ASSUME NEW w \in Writers, StartDelete(w) PROVE Scans(w)
    <2>1. Open(w) /\ at[w] \in {1, 3, 5, 7}
      <3>1. At(w, "scan")
        BY <1>1 DEF StartDelete
      <3>2. state[w] = "open" /\ at[w] \in 1 .. 13 /\ Program[at[w]].op = "scan"
        BY <3>1, AtOpen
      <3> QED
        BY <3>2, <1>0 DEF Open
    <2>2. Program[at[w] + 1].tables = Program[at[w]].tables
      BY <2>1, ProgramSteps
    <2>3. at'[w] = at[w] + 1 /\ \A v \in Others(w) : at'[v] = at[v]
      BY <1>1 DEF StartDelete, Advance, Others
    <2>4. /\ scanned'[w] = {row \in committed : row.table \in Program[at[w] + 1].tables}
          /\ \A v \in Others(w) : scanned'[v] = scanned[v]
      BY <1>1, <2>2 DEF StartDelete, Others
    <2>5. UNCHANGED <<committed, owner, state, deleted, inserted>>
      BY <1>1 DEF StartDelete
    <2> QED
      BY <2>1, <2>3, <2>4, <2>5 DEF Scans, StepOf
  <1>2. ASSUME NEW w \in Writers, Delete(w) PROVE Deletes(w)
    <2>1. Open(w) /\ at[w] \in {2, 4, 6, 8}
      <3>1. At(w, "delete")
        BY <1>2 DEF Delete
      <3>2. state[w] = "open" /\ at[w] \in 1 .. 13 /\ Program[at[w]].op = "delete"
        BY <3>1, AtOpen
      <3> QED
        BY <3>2, <1>0 DEF Open
    <2>2. \A v \in Others(w) : scanned[w] \cap deleted[v] = {}
      BY <1>2 DEF Delete, Blockers
    <2>3. at'[w] = at[w] + 1 /\ \A v \in Others(w) : at'[v] = at[v]
      BY <1>2 DEF Delete, Advance, Others
    <2>4. /\ deleted'[w] = deleted[w] \cup (scanned[w] \cap committed)
          /\ \A v \in Others(w) : deleted'[v] = deleted[v]
      BY <1>2 DEF Delete, Others
    <2>5. UNCHANGED <<committed, owner, state, scanned, inserted>>
      BY <1>2 DEF Delete
    <2> QED
      BY <2>1, <2>2, <2>3, <2>4, <2>5 DEF Deletes, StepOf
  <1>3. ASSUME NEW w \in Writers, Insert(w) PROVE Inserts(w)
    <2>1. Open(w) /\ at[w] \in 9 .. 13
      <3>1. At(w, "insert")
        BY <1>3 DEF Insert
      <3>2. state[w] = "open" /\ at[w] \in 1 .. 13 /\ Program[at[w]].op = "insert"
        BY <3>1, AtOpen
      <3> QED
        BY <3>2, <1>0 DEF Open
    <2>2. /\ KeysFree(w)
          /\ \A v \in Others(w) : ~Clashes(NewRows(w), inserted[v] \cup deleted[v])
      BY <1>3 DEF Insert, Blockers
    <2>3. at'[w] = at[w] + 1 /\ \A v \in Others(w) : at'[v] = at[v]
      BY <1>3 DEF Insert, Advance, Others
    <2>4. /\ inserted'[w] = inserted[w] \cup NewRows(w)
          /\ \A v \in Others(w) : inserted'[v] = inserted[v]
      BY <1>3 DEF Insert, Others
    <2>5. UNCHANGED <<committed, owner, state, scanned, deleted>>
      BY <1>3 DEF Insert
    <2> QED
      BY <2>1, <2>2, <2>3, <2>4, <2>5 DEF Inserts, StepOf
  <1>4. ASSUME NEW w \in Writers, NEW outcome, Open(w), Release(w, outcome)
        PROVE  Ends(w) /\ state'[w] = outcome
    BY <1>4 DEF Release, Ends, StepOf, Others
  <1>5. ASSUME NEW w \in Writers, BreakDeadlock(w) \/ InsertConflict(w) \/ Rollback(w)
        PROVE  Aborts(w)
    BY <1>4, <1>5, AbortOpen DEF Aborts, Open
  <1>6. ASSUME NEW w \in Writers, Commit(w) PROVE Commits(w)
    <2>1. Open(w) /\ Release(w, "committed") /\ at[w] = 14
          /\ committed' = (committed \ deleted[w]) \cup inserted[w] /\ owner' = w
      BY <1>6, ProgramSteps DEF Commit, Open
    <2> QED
      BY <1>4, <2>1 DEF Commits
  <1>7. ASSUME NEW r \in Readers, SelectMetadata(r) \/ SelectRows(r) PROVE Idles
    BY <1>7 DEF SelectMetadata, SelectRows, Idles
  <1>8. UNCHANGED vars => Idles
    BY DEF vars, Idles
  <1> QED
    BY <1>1, <1>2, <1>3, <1>5, <1>6, <1>7, <1>8 DEF Next, WriterStep

LEMMA NextLocks == TypeOK /\ LockInv /\ [Next]_vars => LockInv'
  <1> SUFFICES ASSUME TypeOK, LockInv, [Next]_vars PROVE LockInv'
    OBVIOUS
  <1> USE DEF Others
  <1>1. ASSUME NEW w \in Writers, Scans(w) PROVE LockInv'
    <2> USE <1>1
    <2>1. Released'
      BY DEF LockInv, Released, Scans, StepOf, Open
    <2>2. Done("insert", at'[w]) = Done("insert", at[w])
      <3>1. at[w] \in 1 .. 9 /\ at'[w] \in 1 .. 9
        BY DEF Scans
      <3> QED
        BY <3>1, DoneTables
    <2>3. InsertedInOrder'
      BY <2>2 DEF LockInv, InsertedInOrder, Scans, StepOf, Open
    <2>4. DeletedIsLocked'
      BY DEF LockInv, DeletedIsLocked, Scans, StepOf
    <2>5. SeenIsFinished'
      BY DEF LockInv, SeenIsFinished, Scans, StepOf
    <2> QED
      BY <2>1, <2>3, <2>4, <2>5 DEF LockInv
  <1>2. ASSUME NEW w \in Writers, Deletes(w) PROVE LockInv'
    <2> USE <1>2
    <2>1. Released'
      BY DEF LockInv, Released, Deletes, StepOf, Open
    <2>2. Done("insert", at'[w]) = Done("insert", at[w])
      <3>1. at[w] \in 1 .. 9 /\ at'[w] \in 1 .. 9
        BY DEF Deletes
      <3> QED
        BY <3>1, DoneTables
    <2>3. InsertedInOrder'
      BY <2>2 DEF LockInv, InsertedInOrder, Deletes, StepOf, Open
    <2>4. DeletedIsLocked'
      BY DEF LockInv, DeletedIsLocked, Deletes, StepOf
    <2>5. SeenIsFinished'
      BY DEF LockInv, SeenIsFinished, Deletes, StepOf
    <2> QED
      BY <2>1, <2>3, <2>4, <2>5 DEF LockInv
  <1>3. ASSUME NEW w \in Writers, Inserts(w) PROVE LockInv'
    <2> USE <1>3
    <2>1. Released'
      BY DEF LockInv, Released, Inserts, StepOf, Open
    <2>2. Done("insert", at'[w]) = Done("insert", at[w]) \cup Program[at[w]].tables
      BY DoneStep, ProgramSteps DEF Inserts
    <2>3. inserted'[w] = UNION {Rows(w, t) : t \in Done("insert", at'[w])}
      BY <2>2 DEF LockInv, InsertedInOrder, Inserts, StepOf, NewRows
    <2>4. InsertedInOrder'
      BY <2>3 DEF LockInv, InsertedInOrder, Inserts, StepOf, Open
    <2>5. DeletedIsLocked'
      BY DEF LockInv, DeletedIsLocked, Inserts, StepOf
    <2>6. SeenIsFinished'
      BY DEF LockInv, SeenIsFinished, Inserts, StepOf
    <2> QED
      BY <2>1, <2>4, <2>5, <2>6 DEF LockInv
  <1>4. ASSUME NEW w \in Writers, Aborts(w) \/ Commits(w)
        PROVE  Released' /\ InsertedInOrder'
    BY <1>4 DEF LockInv, Released, InsertedInOrder, Aborts, Commits, Ends, StepOf, Open
  <1>5. ASSUME NEW w \in Writers, Aborts(w) PROVE LockInv'
    <2> USE <1>5
    <2>1. DeletedIsLocked'
      BY DEF LockInv, DeletedIsLocked, Aborts, Ends, StepOf
    <2>2. \A v : v # Nobody => (state[v] = "committed" => v # w)
      BY DEF Aborts, Ends, StepOf, Open
    <2>3. SeenIsFinished'
      <3>1. (owner # Nobody => state[owner] = "committed")'
        BY <2>2 DEF LockInv, SeenIsFinished, Aborts, Ends, StepOf, TypeOK
      <3>2. \A row \in AllRows : row.by \in Writers
        BY ResultRows DEF AllRows
      <3>3. \A row \in AllRows : state[row.by] = "committed" => state'[row.by] = "committed"
        BY <3>2 DEF Aborts, Ends, StepOf, Open
      <3>4. committed' = committed /\ \A v \in Writers : scanned'[v] \subseteq scanned[v]
        BY DEF Aborts, Ends, StepOf
      <3> QED
        BY <3>1, <3>3, <3>4 DEF LockInv, SeenIsFinished, TypeOK
    <2> QED
      BY <1>4, <2>1, <2>3 DEF LockInv
  <1>6. ASSUME NEW w \in Writers, Commits(w) PROVE LockInv'
    <2> USE <1>6
    <2>1. \A v \in Writers : deleted'[v] = IF v = w THEN {} ELSE deleted[v]
      BY DEF Commits, Ends, StepOf
    <2>2. committed' = (committed \ deleted[w]) \cup inserted[w]
      BY DEF Commits
    <2>3. DeletedIsLocked'
      BY <2>1, <2>2 DEF LockInv, DeletedIsLocked
    <2>4. \A row \in AllRows : row.by \in Writers
      BY ResultRows DEF AllRows
    <2>5. \A row \in AllRows : state[row.by] = "committed" => state'[row.by] = "committed"
      BY <2>4 DEF Commits, Ends, StepOf
    <2>6. \A row \in inserted[w] : state'[row.by] = "committed"
      BY InsertedByWriter DEF LockInv, Commits, Ends, StepOf
    <2>7. \A v \in Writers : scanned'[v] \subseteq scanned[v]
      BY DEF Commits, Ends, StepOf
    <2>8. (owner # Nobody => state[owner] = "committed")'
      BY DEF Commits
    <2>9. \A row \in committed' : state'[row.by] = "committed"
      BY <2>2, <2>5, <2>6 DEF LockInv, SeenIsFinished, TypeOK
    <2>10. \A v \in Writers : \A row \in scanned'[v] : state'[row.by] = "committed"
      BY <2>5, <2>7 DEF LockInv, SeenIsFinished, TypeOK
    <2>11. SeenIsFinished'
      BY <2>8, <2>9, <2>10 DEF SeenIsFinished
    <2> QED
      BY <1>4, <2>3, <2>11 DEF LockInv
  <1>7. CASE Idles
    BY <1>7 DEF Idles, writerVars, LockInv, Released, InsertedInOrder, DeletedIsLocked,
                SeenIsFinished, Open
  <1> QED
    BY <1>1, <1>2, <1>3, <1>5, <1>6, <1>7, StepCases

LEMMA LockInvariance == Spec => []LockInv
  <1>1. TypeInv => TypeOK
    BY DEF TypeInv
  <1> QED
    BY <1>1, InitLocks, NextLocks, TypeInvariance, PTL DEF Spec

-----------------------------------------------------------------------------
(* Syncs that share issue types.  A transaction that gets past the INSERT   *)
(* of its issue types has deleted the ones of the owner, with which its own *)
(* clash, and so all the owner's rows; and it is alone there, as its issue  *)
(* types clash with those of any other.                                     *)

Part(tables) == {row \in committed : row.table \in tables}

HoldsTypes(w) == \E row \in deleted[w] : row.table = "issue_types"

Inserting(w) == Open(w) /\ at[w] \in 10 .. 14

InsertsAlone == \A v, w \in Writers : Inserting(v) /\ Inserting(w) => v = w

InsertsReplace == \A w \in Writers : Inserting(w) => committed \subseteq deleted[w]

\* A DELETE that waited has seen all the rows there are, or none of them.
ScanIsWhole ==
    \A w \in Writers : Open(w) /\ at[w] \in {2, 4, 6, 8} =>
        /\ \A row \in scanned[w] : row.table \in Program[at[w]].tables
        /\ \/ Part(Program[at[w]].tables) \subseteq scanned[w]
           \/ scanned[w] \cap committed = {} /\ ~HoldsTypes(w)

\* Who has deleted an issue type of the owner keeps every other sync from
\* committing, and has deleted all rows of the tables it has come to.
DeletesAreWhole ==
    \A w \in Writers : Open(w) /\ HoldsTypes(w) => Part(Done("delete", at[w])) \subseteq deleted[w]

CacheInv ==
    CacheIsOneSync /\ InsertsAlone /\ InsertsReplace /\ ScanIsWhole /\ DeletesAreWhole

LEMMA InitCache == Init => CacheInv
  <1> SUFFICES ASSUME Init PROVE CacheInv
    OBVIOUS
  <1>1. CacheIsOneSync
    BY DEF Init, CacheIsOneSync, Contents
  <1>2. \A w \in Writers : at[w] = 1 /\ deleted[w] = {}
    BY DEF Init
  <1>3. InsertsAlone /\ InsertsReplace
    BY <1>2 DEF InsertsAlone, InsertsReplace, Inserting
  <1>4. ScanIsWhole /\ DeletesAreWhole
    BY <1>2 DEF ScanIsWhole, DeletesAreWhole, HoldsTypes
  <1> QED
    BY <1>1, <1>3, <1>4 DEF CacheInv

\* A step after which nobody is newly inserting and nothing is committed keeps
\* the inserting transaction alone.
LEMMA StillAlone ==
    ASSUME CacheInv, committed' = committed,
           \A v \in Writers : Inserting(v)' => Inserting(v) /\ deleted[v] \subseteq deleted'[v]
    PROVE  InsertsAlone' /\ InsertsReplace'
  BY DEF CacheInv, InsertsAlone, InsertsReplace

LEMMA ScansCache ==
    ASSUME CacheInv, NEW w \in Writers, Scans(w)
    PROVE  CacheInv'
  <1> USE DEF Others
  <1>1. committed' = committed /\ owner' = owner /\ \A v \in Writers : deleted'[v] = deleted[v]
    BY DEF Scans, StepOf
  <1>2. CacheIsOneSync'
    BY <1>1 DEF CacheInv, CacheIsOneSync, Contents
  <1>3. at[w] \in {1, 3, 5, 7} /\ at'[w] = at[w] + 1 /\ Open(w)
    BY DEF Scans, StepOf
  <1>4. \A v \in Writers : v # w => at'[v] = at[v] /\ Open(v)' = Open(v)
                                    /\ scanned'[v] = scanned[v]
    BY DEF Scans, StepOf, Open
  <1>5. \A v \in Writers : Inserting(v)' => Inserting(v)
    BY <1>3, <1>4 DEF Inserting
  <1>6. InsertsAlone' /\ InsertsReplace'
    BY <1>1, <1>5, StillAlone
  <1>7. \A T : Part(T)' = Part(T)
    BY <1>1 DEF Part
  <1>8. \A v \in Writers : HoldsTypes(v)' = HoldsTypes(v)
    BY <1>1 DEF HoldsTypes
  <1>9. ScanIsWhole'
    <2> SUFFICES ASSUME NEW v \in Writers, Open(v)', at'[v] \in {2, 4, 6, 8}
                 PROVE  /\ \A row \in scanned'[v] : row.table \in Program[at'[v]].tables
                        /\ \/ Part(Program[at'[v]].tables) \subseteq scanned'[v]
                           \/ scanned'[v] \cap committed = {} /\ ~HoldsTypes(v)
      BY <1>1, <1>7, <1>8 DEF ScanIsWhole
    <2>1. CASE v = w
      <3>1. scanned'[w] = Part(Program[at'[w]].tables)
        BY DEF Scans, Part
      <3> QED
        BY <2>1, <3>1 DEF Part
    <2>2. CASE v # w
      BY <2>2, <1>4 DEF CacheInv, ScanIsWhole
    <2> QED
      BY <2>1, <2>2
  <1>10. Done("delete", at'[w]) = Done("delete", at[w])
    <2>1. at[w] \in 1 .. 13 /\ Program[at[w]].op # "delete"
      BY <1>3, ProgramSteps
    <2>2. Done("delete", at[w] + 1) = Done("delete", at[w])
      <3>1. PICK n \in 1 .. 13 : n = at[w] /\ Program[n].op # "delete"
        BY <2>1
      <3>2. Done("delete", n + 1) =
                Done("delete", n) \cup (IF Program[n].op = "delete" THEN Program[n].tables ELSE {})
        BY DoneStep
      <3> QED
        BY <3>1, <3>2
    <2> QED
      BY <1>3, <2>2
  <1>11. DeletesAreWhole'
    <2> SUFFICES ASSUME NEW v \in Writers, Open(v)', HoldsTypes(v)
                 PROVE  Part(Done("delete", at'[v])) \subseteq deleted[v]
      BY <1>1, <1>7, <1>8 DEF DeletesAreWhole
    <2>1. Done("delete", at'[v]) = Done("delete", at[v]) /\ Open(v)
      BY <1>3, <1>4, <1>10
    <2> QED
      BY <2>1 DEF CacheInv, DeletesAreWhole
  <1> QED
    BY <1>2, <1>6, <1>9, <1>11 DEF CacheInv

LEMMA DeletesCache ==
    ASSUME CacheInv, NEW w \in Writers, Deletes(w)
    PROVE  CacheInv'
  <1> USE DEF Others
  <1>1. committed' = committed /\ owner' = owner
        /\ \A v \in Writers : v # w => deleted'[v] = deleted[v]
    BY DEF Deletes, StepOf
  <1>0. deleted'[w] = deleted[w] \cup (scanned[w] \cap committed)
    BY DEF Deletes
  <1>2. CacheIsOneSync'
    BY <1>1 DEF CacheInv, CacheIsOneSync, Contents
  <1>3. at[w] \in {2, 4, 6, 8} /\ at'[w] = at[w] + 1 /\ Open(w)
    BY DEF Deletes, StepOf
  <1>4. \A v \in Writers : v # w => at'[v] = at[v] /\ Open(v)' = Open(v)
                                    /\ scanned'[v] = scanned[v]
    BY DEF Deletes, StepOf, Open
  <1>5. \A v \in Writers : Inserting(v)' => Inserting(v)
    BY <1>3, <1>4 DEF Inserting
  <1>6. InsertsAlone' /\ InsertsReplace'
    <2>1. \A v \in Writers : deleted[v] \subseteq deleted'[v]
      BY <1>0, <1>1
    <2> QED
      BY <1>1, <1>5, <2>1, StillAlone
  <1>7. \A T : Part(T)' = Part(T)
    BY <1>1 DEF Part
  <1>8. \A v \in Writers : v # w => HoldsTypes(v)' = HoldsTypes(v)
    BY <1>1 DEF HoldsTypes
  <1>9. ScanIsWhole'
    <2> SUFFICES ASSUME NEW v \in Writers, Open(v)', at'[v] \in {2, 4, 6, 8}
                 PROVE  /\ \A row \in scanned'[v] : row.table \in Program[at'[v]].tables
                        /\ \/ Part(Program[at'[v]].tables) \subseteq scanned'[v]
                           \/ scanned'[v] \cap committed = {} /\ ~HoldsTypes(v)'
      BY <1>1, <1>7 DEF ScanIsWhole
    <2>1. v # w
      BY <1>3
    <2> QED
      BY <2>1, <1>4, <1>8 DEF CacheInv, ScanIsWhole
  <1> DEFINE T == Program[at[w]].tables
  <1>10. Done("delete", at'[w]) = Done("delete", at[w]) \cup T
    <2>1. at[w] \in 1 .. 13 /\ Program[at[w]].op = "delete"
      BY <1>3, DoneTables
    <2> QED
      BY <1>3, <2>1, DoneStep
  <1>11. HoldsTypes(w)' => Part(Done("delete", at[w]) \cup T) \subseteq deleted'[w]
    <2> SUFFICES ASSUME HoldsTypes(w)'
                 PROVE  Part(Done("delete", at[w]) \cup T) \subseteq deleted'[w]
      OBVIOUS
    <2>1. /\ \A row \in scanned[w] : row.table \in T
          /\ \/ Part(T) \subseteq scanned[w]
             \/ scanned[w] \cap committed = {} /\ ~HoldsTypes(w)
      BY <1>3 DEF CacheInv, ScanIsWhole
    <2> HIDE DEF T
    <2>0. PICK held \in deleted'[w] : held.table = "issue_types"
      BY DEF HoldsTypes
    <2>2. Part(T) \subseteq scanned[w]
      <3>1. held \in deleted[w] \/ held \in scanned[w] \cap committed
        BY <1>0, <2>0
      <3> QED
        BY <2>0, <2>1, <3>1 DEF HoldsTypes
    <2>3. Part(T) \subseteq deleted'[w]
      <3>1. Part(T) \subseteq committed
        BY DEF Part
      <3> QED
        BY <1>0, <2>2, <3>1
    <2>4. Part(Done("delete", at[w])) \subseteq deleted'[w]
      <3>1. CASE HoldsTypes(w)
        <4>1. Part(Done("delete", at[w])) \subseteq deleted[w]
          BY <1>3, <3>1 DEF CacheInv, DeletesAreWhole
        <4> QED
          BY <4>1, <1>0
      <3>2. CASE ~HoldsTypes(w)
        <4>1. "issue_types" \in T
          <5>1. held \in scanned[w]
            BY <1>0, <2>0, <3>2 DEF HoldsTypes
          <5> QED
            BY <2>0, <2>1, <5>1
        <4>2. at[w] = 2
          BY <1>3, <4>1, ProgramSteps DEF T
        <4> QED
          BY <4>2, DoneTables DEF Part
      <3> QED
        BY <3>1, <3>2
    <2> QED
      BY <2>3, <2>4 DEF Part
  <1>12. DeletesAreWhole'
    <2> SUFFICES ASSUME NEW v \in Writers, Open(v)', HoldsTypes(v)'
                 PROVE  Part(Done("delete", at'[v])) \subseteq deleted'[v]
      BY <1>7 DEF DeletesAreWhole
    <2>1. CASE v = w
      BY <2>1, <1>10, <1>11
    <2>2. CASE v # w
      BY <2>2, <1>1, <1>4, <1>8 DEF CacheInv, DeletesAreWhole
    <2> QED
      BY <2>1, <2>2
  <1> QED
    BY <1>2, <1>6, <1>9, <1>12 DEF CacheInv

\* Two syncs that share issue types cannot both insert them.
LEMMA TypesClash ==
    ASSUME SharedIssueType, NEW v \in Writers, NEW w \in Writers
    PROVE  \E a \in Rows(w, "issue_types"), b \in Rows(v, "issue_types") : SameKey(a, b)
  <1>1. PICK key : key \in Fetched[w].issue_types /\ key \in Fetched[v].issue_types
    BY DEF SharedIssueType
  <1>2. key \in Stored(w, "issue_types") /\ key \in Stored(v, "issue_types")
    BY <1>1 DEF Stored
  <1> DEFINE a == [table |-> "issue_types", key |-> key, by |-> w]
             b == [table |-> "issue_types", key |-> key, by |-> v]
  <1>3. a \in Rows(w, "issue_types") /\ b \in Rows(v, "issue_types")
    BY <1>2 DEF Rows
  <1>4. SameKey(a, b)
    BY DEF SameKey
  <1> QED
    BY <1>3, <1>4

LEMMA InsertsCache ==
    ASSUME SharedIssueType, TypeOK, LockInv, CacheInv, NEW w \in Writers, Inserts(w)
    PROVE  CacheInv'
  <1> USE DEF Others
  <1>1. committed' = committed /\ owner' = owner /\ \A v \in Writers : deleted'[v] = deleted[v]
    BY DEF Inserts, StepOf
  <1>2. CacheIsOneSync'
    BY <1>1 DEF CacheInv, CacheIsOneSync, Contents
  <1>3. at[w] \in 9 .. 13 /\ at'[w] = at[w] + 1 /\ Open(w)
    BY DEF Inserts, StepOf
  <1>4. \A v \in Writers : v # w => at'[v] = at[v] /\ Open(v)' = Open(v)
                                    /\ scanned'[v] = scanned[v]
    BY DEF Inserts, StepOf, Open
  <1>5. \A T : Part(T)' = Part(T)
    BY <1>1 DEF Part
  <1>6. \A v \in Writers : HoldsTypes(v)' = HoldsTypes(v)
    BY <1>1 DEF HoldsTypes
  <1>7. ScanIsWhole'
    <2> SUFFICES ASSUME NEW v \in Writers, Open(v)', at'[v] \in {2, 4, 6, 8}
                 PROVE  /\ \A row \in scanned'[v] : row.table \in Program[at'[v]].tables
                        /\ \/ Part(Program[at'[v]].tables) \subseteq scanned'[v]
                           \/ scanned'[v] \cap committed = {} /\ ~HoldsTypes(v)
      BY <1>1, <1>5, <1>6 DEF ScanIsWhole
    <2>1. v # w
      BY <1>3
    <2> QED
      BY <2>1, <1>4 DEF CacheInv, ScanIsWhole
  <1>8. Done("delete", at'[w]) = Done("delete", at[w])
    BY <1>3, DoneTables
  <1>9. DeletesAreWhole'
    <2> SUFFICES ASSUME NEW v \in Writers, Open(v)', HoldsTypes(v)
                 PROVE  Part(Done("delete", at'[v])) \subseteq deleted[v]
      BY <1>1, <1>5, <1>6 DEF DeletesAreWhole
    <2>1. Done("delete", at'[v]) = Done("delete", at[v]) /\ Open(v)
      BY <1>3, <1>4, <1>8
    <2> QED
      BY <2>1 DEF CacheInv, DeletesAreWhole
  <1>10. CASE at[w] # 9
    <2>1. Inserting(w)
      BY <1>3, <1>10 DEF Inserting
    <2>2. \A v \in Writers : Inserting(v)' => Inserting(v)
      BY <1>4, <2>1 DEF Inserting
    <2>3. InsertsAlone' /\ InsertsReplace'
      BY <1>1, <2>2, StillAlone
    <2> QED
      BY <1>2, <1>7, <1>9, <2>3 DEF CacheInv
  <1>11. CASE at[w] = 9
    <2>1. NewRows(w) = Rows(w, "issue_types")
      BY <1>11, ProgramSteps DEF NewRows
    <2>2. ASSUME NEW v \in Writers, v # w PROVE ~Inserting(v)
      <3> SUFFICES ASSUME Inserting(v) PROVE FALSE
        OBVIOUS
      <3>1. "issue_types" \in Done("insert", at[v])
        BY DoneTables DEF Inserting
      <3>2. Rows(v, "issue_types") \subseteq inserted[v]
        BY <3>1 DEF LockInv, InsertedInOrder, Inserting
      <3>3. ~Clashes(NewRows(w), inserted[v] \cup deleted[v])
        BY <2>2 DEF Inserts
      <3> QED
        BY <2>1, <3>2, <3>3, TypesClash DEF Clashes
    <2>3. \A v \in Writers : Inserting(v)' => v = w
      BY <2>2, <1>4 DEF Inserting
    <2>4. InsertsAlone'
      BY <2>3 DEF InsertsAlone
    <2>5. committed \subseteq deleted[w]
      <3>1. CASE owner = Nobody
        BY <3>1 DEF CacheInv, CacheIsOneSync, Contents
      <3>2. CASE owner # Nobody
        <4>1. owner \in Writers /\ committed = Result[owner]
          BY <3>2 DEF CacheInv, CacheIsOneSync, Contents, TypeOK
        <4>2. PICK a \in Rows(w, "issue_types"), b \in Rows(owner, "issue_types") : SameKey(a, b)
          BY <4>1, TypesClash
        <4>3. "issue_types" \in Tables
          BY DEF Tables
        <4>4. b \in committed
          BY <4>1, <4>2, <4>3, ResultRows
        <4>5. b \in deleted[w]
          BY <2>1, <4>2, <4>4 DEF Inserts, KeysFree, Clashes
        <4>6. HoldsTypes(w)
          BY <4>2, <4>5 DEF HoldsTypes, Rows
        <4>7. Part(Tables) \subseteq deleted[w]
          BY <1>3, <1>11, <4>6, DoneTables DEF CacheInv, DeletesAreWhole
        <4>8. Part(Tables) = committed
          BY <4>1, ResultRows DEF Part
        <4> QED
          BY <4>7, <4>8
      <3> QED
        BY <3>1, <3>2
    <2>6. InsertsReplace'
      BY <1>1, <2>3, <2>5 DEF InsertsReplace
    <2> QED
      BY <1>2, <1>7, <1>9, <2>4, <2>6 DEF CacheInv
  <1> QED
    BY <1>10, <1>11

LEMMA AbortsCache ==
    ASSUME CacheInv, NEW w \in Writers, Aborts(w)
    PROVE  CacheInv'
  <1> USE DEF Others
  <1>1. committed' = committed /\ owner' = owner /\ ~Open(w)'
    BY DEF Aborts, Open
  <1>2. \A v \in Writers : v # w => at'[v] = at[v] /\ Open(v)' = Open(v)
                                    /\ scanned'[v] = scanned[v] /\ deleted'[v] = deleted[v]
    BY DEF Aborts, Ends, StepOf, Open
  <1>3. CacheIsOneSync'
    BY <1>1 DEF CacheInv, CacheIsOneSync, Contents
  <1>4. InsertsAlone' /\ InsertsReplace'
    <2>1. \A v \in Writers : Inserting(v)' => Inserting(v) /\ deleted[v] \subseteq deleted'[v]
      BY <1>1, <1>2 DEF Inserting
    <2> QED
      BY <1>1, <2>1, StillAlone
  <1>5. \A T : Part(T)' = Part(T)
    BY <1>1 DEF Part
  <1>6. \A v \in Writers : v # w => HoldsTypes(v)' = HoldsTypes(v)
    BY <1>2 DEF HoldsTypes
  <1>7. ScanIsWhole'
    BY <1>1, <1>2, <1>5, <1>6 DEF CacheInv, ScanIsWhole
  <1>8. DeletesAreWhole'
    BY <1>1, <1>2, <1>5, <1>6 DEF CacheInv, DeletesAreWhole
  <1> QED
    BY <1>3, <1>4, <1>7, <1>8 DEF CacheInv

\* The commit replaces all the rows, and no other sync has deleted any of them.
LEMMA CommitsCache ==
    ASSUME TypeOK, LockInv, CacheInv, NEW w \in Writers, Commits(w)
    PROVE  CacheInv' /\ committed' = Result[w]
  <1> USE DEF Others
  <1>1. Open(w) /\ at[w] = 14 /\ Inserting(w)
    BY DEF Commits, Ends, StepOf, Inserting
  <1>2. committed \subseteq deleted[w]
    BY <1>1 DEF CacheInv, InsertsReplace
  <1>3. inserted[w] = Result[w]
    BY <1>1, InsertedByWriter DEF LockInv
  <1>4. committed' = Result[w] /\ owner' = w
    BY <1>2, <1>3 DEF Commits
  <1>5. CacheIsOneSync'
    BY <1>4, NobodyAssumption DEF CacheIsOneSync, Contents
  <1>6. ~Open(w)' /\ \A v \in Writers : v # w => at'[v] = at[v] /\ Open(v)' = Open(v)
                                    /\ scanned'[v] = scanned[v] /\ deleted'[v] = deleted[v]
    BY DEF Commits, Ends, StepOf, Open
  <1>7. \A v \in Writers : ~Inserting(v)'
    BY <1>1, <1>6 DEF Inserting, CacheInv, InsertsAlone
  <1>8. \A v \in Writers : v # w => deleted[v] = {}
    BY <1>2 DEF LockInv, DeletedIsLocked
  <1>9. \A v \in Writers : v # w => ~HoldsTypes(v)'
    BY <1>6, <1>8 DEF HoldsTypes
  <1>10. \A v \in Writers : v # w => scanned'[v] \cap committed' = {}
    <2> SUFFICES ASSUME NEW v \in Writers, v # w, NEW row \in scanned[v], row \in Result[w]
                 PROVE  FALSE
      BY <1>4, <1>6
    <2>1. row.by = w
      BY ResultRows
    <2>2. state[row.by] = "committed"
      BY DEF LockInv, SeenIsFinished
    <2> QED
      BY <2>1, <2>2, <1>1 DEF Open
  <1>11. InsertsAlone' /\ InsertsReplace'
    BY <1>7 DEF InsertsAlone, InsertsReplace
  <1>12. ScanIsWhole'
    BY <1>6, <1>9, <1>10 DEF CacheInv, ScanIsWhole
  <1>13. DeletesAreWhole'
    BY <1>6, <1>9 DEF DeletesAreWhole
  <1> QED
    BY <1>4, <1>5, <1>11, <1>12, <1>13 DEF CacheInv

LEMMA NextCache ==
    ASSUME SharedIssueType
    PROVE  TypeOK /\ LockInv /\ CacheInv /\ [Next]_vars => CacheInv'
  <1> SUFFICES ASSUME TypeOK, LockInv, CacheInv, [Next]_vars PROVE CacheInv'
    OBVIOUS
  <1>1. CASE Idles
    <2>1. UNCHANGED <<committed, owner, at, state, scanned, deleted, inserted>>
      BY <1>1 DEF Idles, writerVars
    <2>2. \A T : Part(T)' = Part(T)
      BY <2>1 DEF Part
    <2>3. \A v : Open(v)' = Open(v) /\ Inserting(v)' = Inserting(v) /\ HoldsTypes(v)' = HoldsTypes(v)
      BY <2>1 DEF Open, Inserting, HoldsTypes
    <2>4. CacheIsOneSync' /\ InsertsAlone' /\ InsertsReplace'
      BY <2>1, <2>3 DEF CacheInv, CacheIsOneSync, Contents, InsertsAlone, InsertsReplace
    <2>5. ScanIsWhole' /\ DeletesAreWhole'
      BY <2>1, <2>2, <2>3 DEF CacheInv, ScanIsWhole, DeletesAreWhole
    <2> QED
      BY <2>4, <2>5 DEF CacheInv
  <1>2. ASSUME NEW w \in Writers,
               Scans(w) \/ Deletes(w) \/ Inserts(w) \/ Aborts(w) \/ Commits(w)
        PROVE  CacheInv'
    BY <1>2, ScansCache, DeletesCache, InsertsCache, AbortsCache, CommitsCache
  <1> QED
    BY <1>1, <1>2, StepCases

LEMMA CacheInvariance ==
    ASSUME SharedIssueType
    PROVE  Spec => []CacheInv
  <1>1. TypeInv => TypeOK
    BY DEF TypeInv
  <1>2. TypeOK /\ LockInv /\ CacheInv /\ [Next]_vars => CacheInv'
    BY NextCache
  <1> QED
    BY <1>1, <1>2, InitCache, TypeInvariance, LockInvariance, PTL DEF Spec

\* For any number of syncs of which any two share an issue type, and whatever
\* else they have fetched, the transactions implement the abstract cache: every
\* step replaces all its rows by the result of one sync or changes nothing.
THEOREM ReplacesAtomically == SharedIssueType => (Spec => AtomicReplacement)
  <1> SUFFICES ASSUME SharedIssueType PROVE Spec => AtomicReplacement
    OBVIOUS
  <1>1. Init => Cache!Init
    BY DEF Init, Cache!Init
  <1>2. TypeOK /\ LockInv /\ CacheInv /\ [Next]_vars => [Cache!Next]_<<owner, committed>>
    <2> SUFFICES ASSUME TypeOK, LockInv, CacheInv, [Next]_vars
                 PROVE  Cache!Next \/ UNCHANGED <<owner, committed>>
      OBVIOUS
    <2>1. ASSUME NEW w \in Writers, Commits(w) PROVE Cache!Next
      <3>1. committed' = Result[w] /\ owner' = w
        BY <2>1, CommitsCache DEF Commits
      <3> QED
        BY <3>1 DEF Cache!Next, Cache!Replace
    <2>2. ASSUME NEW w \in Writers, Scans(w) \/ Deletes(w) \/ Inserts(w) \/ Aborts(w)
          PROVE  UNCHANGED <<owner, committed>>
      BY <2>2 DEF Scans, Deletes, Inserts, Aborts
    <2> QED
      BY <2>1, <2>2, StepCases DEF Idles
  <1>3. TypeInv => TypeOK
    BY DEF TypeInv
  <1> QED
    BY <1>1, <1>2, <1>3, TypeInvariance, LockInvariance, CacheInvariance, PTL
    DEF Spec, AtomicReplacement, Cache!Spec

-----------------------------------------------------------------------------
(* Readers.  What a reader has collected so far is made of whole tables, and *)
(* the sync whose rows the next SELECT will find is already counted.         *)

Read(n) == {SelectOrder[i] : i \in {j \in 1 .. 5 : j < n}}

LEMMA ReadEnds == Read(1) = {} /\ Read(6) = Tables
  <1>1. 1 .. 5 = {1, 2, 3, 4, 5}
    OBVIOUS
  <1> QED
    BY <1>1, SelectSteps DEF Read, Tables

LEMMA ReadStep ==
    ASSUME NEW n \in 1 .. 5
    PROVE  /\ Read(n + 1) = Read(n) \cup {SelectOrder[n]}
           /\ SelectOrder[n] \in Tables \ Read(n)
           /\ SelectOrder[n] = "sprints" => "boards" \in Read(n)
           /\ SelectOrder[n] = "boards" => "sprints" \notin Read(n)
  <1>1. 1 .. 5 = {1, 2, 3, 4, 5}
    OBVIOUS
  <1>2. SelectOrder[n] \in Tables
    BY <1>1, SelectSteps DEF Tables
  <1>3. \A j \in 1 .. 5 : j < n + 1 <=> j < n \/ j = n
    OBVIOUS
  <1>4. Read(n + 1) = Read(n) \cup {SelectOrder[n]}
    BY <1>3 DEF Read
  <1>5. \A i, j \in 1 .. 5 : SelectOrder[i] = SelectOrder[j] => i = j
    BY <1>1, SelectSteps
  <1>6. SelectOrder[n] \notin Read(n)
    BY <1>5 DEF Read
  <1>7. /\ SelectOrder[n] = "sprints" => n = 4
        /\ SelectOrder[n] = "boards" => n = 3
    BY <1>1, SelectSteps
  <1>8. "boards" \in Read(4) /\ "sprints" \notin Read(3)
    BY <1>1, SelectSteps DEF Read
  <1> QED
    BY <1>2, <1>4, <1>6, <1>7, <1>8

Sources == Writers \cup {Nobody}

\* What got has from the tables read so far, and nothing of the others.
Collected(got, overlapped, tables, syncs) ==
    /\ syncs \in SUBSET Sources
    /\ MadeOf(got, overlapped, tables, syncs)
    /\ \A row \in got.rows : row.table \in tables

ReadInv ==
    \A r \in Readers :
        /\ selects[r] = 0 => answer[r].rows = {}
        /\ selects[r] \in 1 .. 5 =>
               \E syncs : /\ Collected(answer[r], commits[r], Read(selects[r]), syncs)
                         /\ owner \in syncs
        /\ selects[r] = 6 => \E syncs : Collected(answer[r], commits[r], Tables, syncs)

LEMMA InitRead == Init => ReadInv
  BY DEF Init, ReadInv

LEMMA SourcesFinite ==
    ASSUME NEW syncs \in SUBSET Sources
    PROVE  IsFiniteSet(syncs) /\ Cardinality(syncs) \in Nat
  <1>1. IsFiniteSet(Sources)
    BY WritersAssumption, FS_AddElement DEF Sources
  <1> QED
    BY <1>1, FS_Subset, FS_CardinalityType

\* A commit adds one sync to those an answer may show.
LEMMA CommitAddsSource ==
    ASSUME NEW got, NEW overlapped \in Nat, NEW tables, NEW syncs,
           Collected(got, overlapped, tables, syncs), NEW w \in Writers
    PROVE  Collected(got, overlapped + 1, tables, syncs \cup {w})
  <1> DEFINE more == syncs \cup {w}
  <1>1. syncs \in SUBSET Sources /\ more \in SUBSET Sources
    BY DEF Collected, Sources
  <1>2. Cardinality(more) <= (overlapped + 1) + 1
    <2>1. Cardinality(syncs) <= overlapped + 1
      BY DEF Collected, MadeOf
    <2>2. Cardinality(more) \in {Cardinality(syncs), Cardinality(syncs) + 1}
      BY <1>1, SourcesFinite, FS_AddElement
    <2>3. Cardinality(syncs) \in Nat
      BY <1>1, SourcesFinite
    <2> QED
      BY <2>1, <2>2, <2>3
  <1>3. syncs \subseteq more
    OBVIOUS
  <1>4. overlapped + 1 > 0
    OBVIOUS
  <1> HIDE DEF more
  <1>5. MadeOf(got, overlapped + 1, tables, more)
    <2>1. got.owner \in more
      BY <1>3 DEF Collected, MadeOf
    <2>2. \A t \in tables \ {"sprints"} : \E v \in more :
              RowsOf(got.rows, t) = RowsOf(Contents(v), t)
      BY <1>3 DEF Collected, MadeOf
    <2>3. "sprints" \in tables => \E v \in more :
              /\ RowsOf(got.rows, "boards") = RowsOf(Contents(v), "boards")
              /\ \/ RowsOf(got.rows, "sprints") = RowsOf(Contents(v), "sprints")
                 \/ RowsOf(got.rows, "sprints") = {}
      BY <1>3 DEF Collected, MadeOf
    <2> QED
      BY <1>2, <1>4, <2>1, <2>2, <2>3 DEF MadeOf
  <1>6. Collected(got, overlapped + 1, tables, more)
    BY <1>1, <1>5 DEF Collected
  <1> QED
    BY <1>6 DEF more

\* A SELECT finds all the rows of its table: those of the sync in the cache.
LEMMA VisibleIsTable ==
    ASSUME CacheIsOneSync, NEW r \in Readers, NEW t, t # "sprints"
    PROVE  Visible(r, t) = RowsOf(Contents(owner), t)
  BY DEF Visible, RowsOf, CacheIsOneSync

\* The sprints of the boards a reader has are all there, or gone with the boards.
LEMMA VisibleSprints ==
    ASSUME TypeOK, CacheIsOneSync, NEW r \in Readers, NEW w \in Sources,
           RowsOf(answer[r].rows, "boards") = RowsOf(Contents(w), "boards")
    PROVE  /\ w = owner => Visible(r, "sprints") = RowsOf(Contents(w), "sprints")
           /\ w # owner => Visible(r, "sprints") = {}
  <1>1. owner \in Sources /\ committed = Contents(owner)
    BY DEF TypeOK, Sources, CacheIsOneSync
  <1>2. \A v \in Sources : \A row \in Contents(v) : v \in Writers /\ row.by = v /\ row \in Result[v]
    BY ResultRows DEF Contents, Sources
  <1>3. ASSUME w = owner PROVE Visible(r, "sprints") = RowsOf(Contents(w), "sprints")
    <2> SUFFICES ASSUME NEW row \in committed, row.table = "sprints"
                 PROVE  \E board \in answer[r].rows :
                            /\ board.table = "boards" /\ board.by = row.by
                            /\ board.key = row.key[1]
      BY <1>1, <1>3 DEF Visible, RowsOf
    <2>1. owner \in Writers /\ row \in Rows(owner, "sprints")
      BY <1>1, <1>2, ResultRows
    <2>2. PICK key \in Stored(owner, "sprints") :
              row = [table |-> "sprints", key |-> key, by |-> owner]
      BY <2>1 DEF Rows
    <2>3. key[1] \in Stored(owner, "boards")
      BY <2>2 DEF Stored
    <2> DEFINE board == [table |-> "boards", key |-> key[1], by |-> owner]
    <2>4. board \in Rows(owner, "boards")
      BY <2>3 DEF Rows
    <2>5. board \in Contents(owner)
      BY <2>1, <2>4, ResultRows, NobodyAssumption DEF Contents, Tables
    <2>6. board \in answer[r].rows
      BY <1>3, <2>5 DEF RowsOf
    <2> QED
      BY <2>2, <2>6
  <1>4. ASSUME w # owner PROVE Visible(r, "sprints") = {}
    <2> SUFFICES ASSUME NEW row \in committed, NEW board \in answer[r].rows,
                        board.table = "boards", board.by = row.by
                 PROVE  FALSE
      BY DEF Visible
    <2>1. row.by = owner
      BY <1>1, <1>2
    <2>2. board \in Contents(w)
      BY DEF RowsOf
    <2>3. board.by = w
      BY <1>2, <2>2
    <2> QED
      BY <1>4, <2>1, <2>3
  <1> QED
    BY <1>3, <1>4

\* Two syncs in one answer take a commit between its SELECTs.
LEMMA TwoSources ==
    ASSUME NEW syncs \in SUBSET Sources, NEW v \in syncs, NEW w \in syncs, v # w,
           NEW overlapped \in Nat, Cardinality(syncs) <= overlapped + 1
    PROVE  overlapped > 0
  <1>1. IsFiniteSet({v}) /\ Cardinality({v}) = 1
    BY FS_Singleton
  <1>2. Cardinality({v} \cup {w}) = 2
    BY <1>1, FS_AddElement
  <1>3. {v} \cup {w} \subseteq syncs
    OBVIOUS
  <1>4. 2 <= Cardinality(syncs) /\ Cardinality(syncs) \in Nat
    BY <1>2, <1>3, SourcesFinite, FS_Subset
  <1> QED
    BY <1>4

LEMMA SelectCollects ==
    ASSUME TypeOK, CacheIsOneSync, NEW r \in Readers, NEW n \in 1 .. 5, NEW syncs,
           Collected(answer[r], commits[r], Read(n), syncs), owner \in syncs,
           NEW got, got.owner = answer[r].owner,
           got.rows = answer[r].rows \cup Visible(r, SelectOrder[n])
    PROVE  Collected(got, commits[r], Read(n + 1), syncs)
  <1> DEFINE t == SelectOrder[n]
  <1>1. /\ Read(n + 1) = Read(n) \cup {t}
        /\ t \in Tables \ Read(n)
        /\ (t = "sprints") => ("boards" \in Read(n))
        /\ (t = "boards") => ("sprints" \notin Read(n))
    BY ReadStep
  <1>2. \A row \in Visible(r, t) : row.table = t
    BY DEF Visible
  <1> HIDE DEF t
  <1>3. \A u \in Read(n) : RowsOf(got.rows, u) = RowsOf(answer[r].rows, u)
    BY <1>1, <1>2 DEF RowsOf, t
  <1>4. RowsOf(got.rows, t) = Visible(r, t)
    BY <1>1, <1>2 DEF RowsOf, Collected, t
  <1>5. \A row \in got.rows : row.table \in Read(n + 1)
    BY <1>1, <1>2 DEF Collected, t
  <1>6. syncs \in SUBSET Sources /\ MadeOf(answer[r], commits[r], Read(n), syncs)
    BY DEF Collected
  <1>7. \A u \in Read(n) \ {"sprints"} : \E w \in syncs :
            RowsOf(got.rows, u) = RowsOf(Contents(w), u)
    BY <1>3, <1>6 DEF MadeOf
  <1>8. CASE t # "sprints"
    <2>1. RowsOf(got.rows, t) = RowsOf(Contents(owner), t)
      BY <1>4, <1>8, VisibleIsTable
    <2>2. \A u \in Read(n + 1) \ {"sprints"} : \E w \in syncs :
              RowsOf(got.rows, u) = RowsOf(Contents(w), u)
      BY <1>1, <1>7, <2>1
    <2>3. "sprints" \in Read(n + 1) => "sprints" \in Read(n)
      BY <1>1, <1>8
    <2>4. RowsOf(got.rows, "boards") = RowsOf(answer[r].rows, "boards") \/ "sprints" \notin Read(n)
      BY <1>1, <1>2 DEF RowsOf, t
    <2>5. "sprints" \in Read(n + 1) => \E w \in syncs :
              /\ RowsOf(got.rows, "boards") = RowsOf(Contents(w), "boards")
              /\ \/ RowsOf(got.rows, "sprints") = RowsOf(Contents(w), "sprints")
                 \/ commits[r] > 0 /\ RowsOf(got.rows, "sprints") = {}
      BY <1>3, <1>6, <2>3, <2>4 DEF MadeOf
    <2> QED
      BY <1>5, <1>6, <2>2, <2>5 DEF Collected, MadeOf
  <1>9. CASE t = "sprints"
    <2>1. PICK w \in syncs : RowsOf(answer[r].rows, "boards") = RowsOf(Contents(w), "boards")
      BY <1>1, <1>6, <1>9 DEF MadeOf
    <2>2. RowsOf(got.rows, "boards") = RowsOf(Contents(w), "boards")
      BY <1>1, <1>3, <1>9, <2>1
    <2>3. w \in Sources
      BY <1>6
    <2>4. /\ w = owner => RowsOf(got.rows, "sprints") = RowsOf(Contents(w), "sprints")
          /\ w # owner => RowsOf(got.rows, "sprints") = {}
      BY <1>4, <1>9, <2>1, <2>3, VisibleSprints
    <2>5. w # owner => commits[r] > 0
      <3>1. commits[r] \in Nat
        BY FinishedBound DEF TypeOK
      <3> QED
        BY <1>6, <3>1, TwoSources DEF MadeOf
    <2>6. \A u \in Read(n + 1) \ {"sprints"} : \E v \in syncs :
              RowsOf(got.rows, u) = RowsOf(Contents(v), u)
      BY <1>1, <1>7, <1>9
    <2> QED
      BY <1>5, <1>6, <2>2, <2>4, <2>5, <2>6 DEF Collected, MadeOf
  <1> QED
    BY <1>8, <1>9

LEMMA NextRead == TypeOK /\ LockInv /\ CacheInv /\ ReadInv /\ [Next]_vars => ReadInv'
  <1> SUFFICES ASSUME TypeOK, LockInv, CacheInv, ReadInv, [Next]_vars PROVE ReadInv'
    OBVIOUS
  <1> DEFINE Still == UNCHANGED <<owner, selects, answer, commits>>
  <1>1. CASE Still
    BY <1>1 DEF ReadInv
  <1>2. ASSUME NEW w \in Writers, StartDelete(w) \/ Delete(w) \/ Insert(w)
        PROVE  Still
    BY <1>2 DEF StartDelete, Delete, Insert, readerVars
  <1>3. ASSUME NEW w \in Writers, BreakDeadlock(w) \/ InsertConflict(w) \/ Rollback(w)
        PROVE  Still
    BY <1>3, AbortOpen
  <1>4. ASSUME NEW w \in Writers, Commit(w)
        PROVE  ReadInv'
    <2>1. owner' = w /\ UNCHANGED <<selects, answer>>
      BY <1>4 DEF Commit
    <2>2. ASSUME NEW r \in Readers
          PROVE  /\ commits[r] \in Nat
                 /\ commits'[r] = IF selects[r] \in 1 .. 5 THEN commits[r] + 1 ELSE commits[r]
      BY <1>4, SelectSteps, FinishedBound DEF Commit, TypeOK
    <2>3. ASSUME NEW r \in Readers, selects[r] \in 1 .. 5
          PROVE  \E syncs : /\ Collected(answer[r], commits'[r], Read(selects[r]), syncs)
                           /\ w \in syncs
      <3>1. PICK syncs : Collected(answer[r], commits[r], Read(selects[r]), syncs)
        BY <2>3 DEF ReadInv
      <3>2. Collected(answer[r], commits[r] + 1, Read(selects[r]), syncs \cup {w})
        BY <2>2, <3>1, CommitAddsSource
      <3> QED
        BY <2>2, <2>3, <3>2
    <2>4. ASSUME NEW r \in Readers, selects[r] \in {0, 6}
          PROVE  commits'[r] = commits[r]
      BY <2>2, <2>4
    <2> QED
      BY <2>1, <2>3, <2>4 DEF ReadInv
  <1>5. ASSUME NEW q \in Readers, SelectMetadata(q)
        PROVE  ReadInv'
    <2>1. /\ selects[q] = 0 /\ selects'[q] = 1
          /\ answer'[q].owner = owner /\ answer'[q].rows = answer[q].rows
          /\ \A r \in Readers : r # q => selects'[r] = selects[r] /\ answer'[r] = answer[r]
          /\ UNCHANGED <<owner, commits>>
      BY <1>5 DEF SelectMetadata, TypeOK
    <2>2. answer'[q].rows = {}
      BY <2>1 DEF ReadInv
    <2>3. Collected(answer'[q], commits[q], Read(1), {owner})
      <3>1. commits[q] \in Nat /\ {owner} \in SUBSET Sources
        BY FinishedBound DEF TypeOK, Sources
      <3>2. Cardinality({owner}) = 1
        BY FS_Singleton
      <3>3. Cardinality({owner}) <= commits[q] + 1
        BY <3>1, <3>2
      <3> QED
        BY <2>1, <2>2, <3>1, <3>3, ReadEnds DEF Collected, MadeOf
    <2> SUFFICES ASSUME NEW r \in Readers
                 PROVE  /\ selects'[r] = 0 => answer'[r].rows = {}
                        /\ selects'[r] \in 1 .. 5 =>
                             \E syncs : /\ Collected(answer'[r], commits[r], Read(selects'[r]), syncs)
                                       /\ owner \in syncs
                        /\ selects'[r] = 6 => \E syncs : Collected(answer'[r], commits[r], Tables, syncs)
      BY <2>1 DEF ReadInv
    <2>4. CASE r = q
      BY <2>1, <2>3, <2>4
    <2>5. CASE r # q
      BY <2>1, <2>5 DEF ReadInv
    <2> QED
      BY <2>4, <2>5
  <1>6. ASSUME NEW q \in Readers, SelectRows(q)
        PROVE  ReadInv'
    <2> DEFINE n == selects[q]
    <2>1. /\ n \in 1 .. 5 /\ selects'[q] = n + 1
          /\ answer'[q].owner = answer[q].owner
          /\ answer'[q].rows = answer[q].rows \cup Visible(q, SelectOrder[n])
          /\ \A r \in Readers : r # q => selects'[r] = selects[r] /\ answer'[r] = answer[r]
          /\ UNCHANGED <<owner, commits>>
      BY <1>6, SelectSteps DEF SelectRows, TypeOK
    <2>2. PICK syncs : Collected(answer[q], commits[q], Read(n), syncs) /\ owner \in syncs
      BY <2>1 DEF ReadInv
    <2> HIDE DEF n
    <2>3. Collected(answer'[q], commits[q], Read(n + 1), syncs)
      BY <2>1, <2>2, SelectCollects DEF CacheInv
    <2>4. n + 1 # 0 /\ (n + 1 = 6 => Read(n + 1) = Tables)
      BY <2>1, ReadEnds
    <2> SUFFICES ASSUME NEW r \in Readers
                 PROVE  /\ selects'[r] = 0 => answer'[r].rows = {}
                        /\ selects'[r] \in 1 .. 5 =>
                             \E some : /\ Collected(answer'[r], commits[r], Read(selects'[r]), some)
                                      /\ owner \in some
                        /\ selects'[r] = 6 => \E some : Collected(answer'[r], commits[r], Tables, some)
      BY <2>1 DEF ReadInv
    <2>5. CASE r = q
      BY <2>1, <2>2, <2>3, <2>4, <2>5
    <2>6. CASE r # q
      BY <2>1, <2>6 DEF ReadInv
    <2> QED
      BY <2>5, <2>6
  <1>7. UNCHANGED vars => Still
    BY DEF vars, readerVars
  <1> QED
    BY <1>1, <1>2, <1>3, <1>4, <1>5, <1>6, <1>7 DEF Next, WriterStep

\* For any number of readers, and syncs that share issue types, a GET answers with
\* whole tables, of one sync if no commit came between its SELECTs and of at most
\* one more for each that did; a board comes with its own sprints or, after a
\* commit, with none.
THEOREM ReadsMixWholeTables == Spec => []ReadsAreWholeTables
  <1>1. CASE SharedIssueType
    <2>1. TypeInv => TypeOK
      BY DEF TypeInv
    <2>2. ReadInv => ReadsAreWholeTables
      BY SelectSteps DEF ReadInv, Collected, Sources, ReadsAreWholeTables
    <2>3. Spec => []CacheInv
      BY <1>1, CacheInvariance
    <2> QED
      BY <2>1, <2>2, <2>3, InitRead, NextRead, TypeInvariance, LockInvariance, PTL DEF Spec
  <1>2. CASE ~SharedIssueType
    <2>1. ReadsAreWholeTables
      BY <1>2 DEF ReadsAreWholeTables
    <2> QED
      BY <2>1, PTL
  <1> QED
    BY <1>1, <1>2
=============================================================================
