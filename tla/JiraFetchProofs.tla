-------------------------- MODULE JiraFetchProofs --------------------------
(* What holds of JiraFetch for any number of tries, any set of labels and   *)
(* boards, pages of any size and any number of changes.                     *)
EXTENDS JiraFetch, FiniteSetTheorems, SequenceTheorems, TLAPS

-----------------------------------------------------------------------------
(* Sequences of different labels.                                           *)

LEMMA MinOfTwo ==
    ASSUME NEW a \in Int, NEW b \in Int
    PROVE  Min({a, b}) = IF a <= b THEN a ELSE b
  <1> DEFINE m == IF a <= b THEN a ELSE b
  <1>1. m \in {a, b} /\ \A y \in {a, b} : m <= y
    OBVIOUS
  <1>2. \A x \in {a, b} : (\A y \in {a, b} : x <= y) => x = m
    OBVIOUS
  <1> QED
    BY <1>1, <1>2 DEF Min

\* A sequence of different labels is no longer than there are labels.
LEMMA DistinctIsLabelList ==
    ASSUME NEW seq \in Seq(Labels), Distinct(seq)
    PROVE  seq \in LabelLists
  <1> DEFINE n == Len(seq)
  <1>1. n \in Nat /\ seq \in [1 .. n -> Labels] /\ DOMAIN seq = 1 .. n
    BY LenProperties
  <1>2. seq \in Injection(1 .. n, Labels)
    BY <1>1 DEF Distinct, Injection, IsInjective
  <1>3. Cardinality(1 .. n) <= Cardinality(Labels)
    BY <1>2, LabelsAssumption, FS_Injection
  <1>4. Cardinality(1 .. n) = n
    BY <1>1, FS_Interval
  <1>5. Cardinality(Labels) \in Nat
    BY LabelsAssumption, FS_CardinalityType
  <1> QED
    BY <1>1, <1>3, <1>4, <1>5 DEF LabelLists

LEMMA LabelListIsDistinct ==
    ASSUME NEW seq \in LabelLists
    PROVE  /\ seq \in Seq(Labels)
           /\ Distinct(seq)
           /\ Len(seq) \in Nat
           /\ DOMAIN seq = 1 .. Len(seq)
  <1>1. PICK n \in 0 .. Cardinality(Labels) : seq \in [1 .. n -> Labels] /\ Distinct(seq)
    BY DEF LabelLists
  <1>2. n \in Nat
    BY LabelsAssumption, FS_CardinalityType
  <1> QED
    BY <1>1, <1>2, LenProperties

\* A part of a sequence, position by position.
LEMMA SliceProperties ==
    ASSUME NEW S, NEW seq \in Seq(S),
           NEW a \in 1 .. Len(seq) + 1, NEW b \in a - 1 .. Len(seq)
    PROVE  /\ SubSeq(seq, a, b) \in Seq(S)
           /\ Len(SubSeq(seq, a, b)) = b - a + 1
           /\ \A j \in 1 .. b - a + 1 : SubSeq(seq, a, b)[j] = seq[a + j - 1]
  <1>1. Len(seq) \in Nat /\ a \in Int /\ b \in Int
    BY LenProperties
  <1>2. \A i \in a .. b : seq[i] \in S
    BY <1>1, ElementOfSeq
  <1>3. /\ SubSeq(seq, a, b) \in Seq(S)
        /\ Len(SubSeq(seq, a, b)) = IF a <= b THEN b - a + 1 ELSE 0
        /\ \A j \in 1 .. b - a + 1 : SubSeq(seq, a, b)[j] = seq[a + j - 1]
    BY <1>1, <1>2, SubSeqProperties
  <1>4. a <= b \/ b = a - 1
    BY <1>1
  <1> QED
    BY <1>1, <1>3, <1>4

\* What InsertAt returns, position by position.
LEMMA InsertAtProperties ==
    ASSUME NEW S, NEW seq \in Seq(S), NEW i \in 1 .. Len(seq) + 1, NEW e \in S
    PROVE  /\ InsertAt(seq, i, e) \in Seq(S)
           /\ Len(InsertAt(seq, i, e)) = Len(seq) + 1
           /\ \A j \in 1 .. Len(seq) + 1 :
                  InsertAt(seq, i, e)[j] = IF j < i THEN seq[j]
                                           ELSE IF j = i THEN e ELSE seq[j - 1]
  <1> DEFINE s1 == SubSeq(seq, 1, i - 1)
             s2 == SubSeq(seq, i, Len(seq))
             s3 == <<e>>
             s4 == s1 \o s3
             s5 == s4 \o s2
  <1>1. Len(seq) \in Nat
    BY LenProperties
  <1>2. i - 1 \in 1 - 1 .. Len(seq) /\ 1 \in 1 .. Len(seq) + 1 /\ Len(seq) \in i - 1 .. Len(seq)
    BY <1>1
  <1>3. /\ s1 \in Seq(S) /\ Len(s1) = i - 1 - 1 + 1
        /\ \A j \in 1 .. i - 1 - 1 + 1 : s1[j] = seq[1 + j - 1]
    BY <1>2, SliceProperties
  <1>4. /\ s2 \in Seq(S) /\ Len(s2) = Len(seq) - i + 1
        /\ \A j \in 1 .. Len(seq) - i + 1 : s2[j] = seq[i + j - 1]
    BY <1>2, SliceProperties
  <1>5. s3 \in Seq(S) /\ Len(s3) = 1 /\ s3[1] = e
    OBVIOUS
  <1> HIDE DEF s1, s2, s3
  <1>6. /\ s4 \in Seq(S) /\ Len(s4) = Len(s1) + Len(s3)
        /\ \A j \in 1 .. Len(s1) + Len(s3) :
               s4[j] = IF j <= Len(s1) THEN s1[j] ELSE s3[j - Len(s1)]
    BY <1>3, <1>5, ConcatProperties
  <1> HIDE DEF s4
  <1>7. /\ s5 \in Seq(S) /\ Len(s5) = Len(s4) + Len(s2)
        /\ \A j \in 1 .. Len(s4) + Len(s2) :
               s5[j] = IF j <= Len(s4) THEN s4[j] ELSE s2[j - Len(s4)]
    <2>1. s4 \in Seq(S) /\ s2 \in Seq(S)
      BY <1>4, <1>6
    <2> QED
      BY <2>1, ConcatProperties
  <1> HIDE DEF s5
  <1>8. Len(s4) = i /\ \A j \in 1 .. i : s4[j] = IF j < i THEN seq[j] ELSE e
    <2>1. Len(s1) = i - 1 /\ Len(s4) = i
      BY <1>1, <1>3, <1>5, <1>6
    <2>2. \A j \in 1 .. i - 1 : s4[j] = s1[j] /\ s1[j] = seq[j]
      BY <2>1, <1>1, <1>3, <1>5, <1>6
    <2>3. s4[i] = s3[1]
      BY <2>1, <1>1, <1>5, <1>6
    <2> QED
      BY <2>1, <2>2, <2>3, <1>1, <1>5
  <1>9. Len(s5) = Len(seq) + 1
    BY <1>1, <1>4, <1>7, <1>8
  <1>10. \A j \in 1 .. Len(seq) + 1 :
             s5[j] = IF j < i THEN seq[j] ELSE IF j = i THEN e ELSE seq[j - 1]
    <2> SUFFICES ASSUME NEW j \in 1 .. Len(seq) + 1
                 PROVE  s5[j] = IF j < i THEN seq[j] ELSE IF j = i THEN e ELSE seq[j - 1]
      OBVIOUS
    <2>1. CASE j <= i
      BY <2>1, <1>1, <1>4, <1>7, <1>8
    <2>2. CASE j > i
      <3>1. s5[j] = s2[j - i]
        BY <2>2, <1>1, <1>4, <1>7, <1>8
      <3>2. j - i \in 1 .. Len(seq) - i + 1
        BY <2>2, <1>1
      <3>3. s2[j - i] = seq[i + (j - i) - 1]
        BY <3>2, <1>4
      <3> QED
        BY <2>2, <3>1, <3>3, <1>1
    <2> QED
      BY <2>1, <2>2, <1>1
  <1> QED
    BY <1>7, <1>9, <1>10 DEF InsertAt, s1, s2, s3, s4, s5

\* What RemoveAt returns, position by position.
LEMMA RemoveAtProperties ==
    ASSUME NEW S, NEW seq \in Seq(S), NEW i \in 1 .. Len(seq)
    PROVE  /\ RemoveAt(seq, i) \in Seq(S)
           /\ Len(RemoveAt(seq, i)) = Len(seq) - 1
           /\ \A j \in 1 .. Len(seq) - 1 :
                  RemoveAt(seq, i)[j] = IF j < i THEN seq[j] ELSE seq[j + 1]
  <1> DEFINE s1 == SubSeq(seq, 1, i - 1)
             s2 == SubSeq(seq, i + 1, Len(seq))
             s3 == s1 \o s2
  <1>1. Len(seq) \in Nat
    BY LenProperties
  <1>2. /\ 1 \in 1 .. Len(seq) + 1 /\ i - 1 \in 1 - 1 .. Len(seq)
        /\ i + 1 \in 1 .. Len(seq) + 1 /\ Len(seq) \in i + 1 - 1 .. Len(seq)
    BY <1>1
  <1>3. /\ s1 \in Seq(S) /\ Len(s1) = i - 1 - 1 + 1
        /\ \A j \in 1 .. i - 1 - 1 + 1 : s1[j] = seq[1 + j - 1]
    BY <1>2, SliceProperties
  <1>4. /\ s2 \in Seq(S) /\ Len(s2) = Len(seq) - (i + 1) + 1
        /\ \A j \in 1 .. Len(seq) - (i + 1) + 1 : s2[j] = seq[i + 1 + j - 1]
    BY <1>2, SliceProperties
  <1> HIDE DEF s1, s2
  <1>5. /\ s3 \in Seq(S) /\ Len(s3) = Len(s1) + Len(s2)
        /\ \A j \in 1 .. Len(s1) + Len(s2) :
               s3[j] = IF j <= Len(s1) THEN s1[j] ELSE s2[j - Len(s1)]
    BY <1>3, <1>4, ConcatProperties
  <1> HIDE DEF s3
  <1>6. Len(s1) = i - 1 /\ Len(s3) = Len(seq) - 1
    BY <1>1, <1>3, <1>4, <1>5
  <1>7. \A j \in 1 .. Len(seq) - 1 : s3[j] = IF j < i THEN seq[j] ELSE seq[j + 1]
    <2> SUFFICES ASSUME NEW j \in 1 .. Len(seq) - 1
                 PROVE  s3[j] = IF j < i THEN seq[j] ELSE seq[j + 1]
      OBVIOUS
    <2>1. CASE j < i
      BY <2>1, <1>1, <1>3, <1>5, <1>6
    <2>2. CASE ~(j < i)
      <3>1. s3[j] = s2[j - (i - 1)]
        BY <2>2, <1>1, <1>5, <1>6
      <3>2. j - (i - 1) \in 1 .. Len(seq) - (i + 1) + 1
        BY <2>2, <1>1
      <3>3. s2[j - (i - 1)] = seq[i + 1 + (j - (i - 1)) - 1]
        BY <3>2, <1>4
      <3> QED
        BY <2>2, <3>1, <3>3, <1>1
    <2> QED
      BY <2>1, <2>2
  <1> QED
    BY <1>5, <1>6, <1>7 DEF RemoveAt, s1, s2, s3

\* Inserting a new label or removing one leaves a list of different labels.
LEMMA InsertAtLabelList ==
    ASSUME NEW seq \in LabelLists, NEW i \in 1 .. Len(seq) + 1,
           NEW label \in Labels \ ToSet(seq)
    PROVE  InsertAt(seq, i, label) \in LabelLists
  <1> DEFINE new == InsertAt(seq, i, label)
             n == Len(seq)
  <1>1. seq \in Seq(Labels) /\ n \in Nat /\ DOMAIN seq = 1 .. n /\ Distinct(seq)
    BY LabelListIsDistinct
  <1>2. /\ new \in Seq(Labels) /\ Len(new) = n + 1
        /\ \A j \in 1 .. n + 1 :
               new[j] = IF j < i THEN seq[j] ELSE IF j = i THEN label ELSE seq[j - 1]
    BY <1>1, InsertAtProperties
  <1>3. DOMAIN new = 1 .. n + 1
    BY <1>2, LenProperties
  <1>4. \A k \in 1 .. n : seq[k] # label
    BY <1>1 DEF ToSet
  <1> HIDE DEF new, n
  <1>5. ASSUME NEW j \in 1 .. n + 1, NEW k \in 1 .. n + 1, new[j] = new[k]
        PROVE  j = k
    <2> DEFINE old(x) == IF x < i THEN x ELSE x - 1
    <2>1. i \in 1 .. n + 1
      BY DEF n
    <2>2. \A x \in 1 .. n + 1 : x # i => old(x) \in 1 .. n /\ new[x] = seq[old(x)]
      BY <1>1, <1>2, <2>1
    <2>3. new[i] = label
      BY <1>2, <2>1
    <2>4. j = i <=> k = i
      BY <1>4, <1>5, <2>2, <2>3
    <2>5. CASE j # i
      <3>1. old(j) = old(k)
        BY <1>1, <1>5, <2>2, <2>4, <2>5 DEF Distinct
      <3> QED
        BY <3>1, <2>1, <2>4, <2>5, <1>1
    <2> QED
      BY <2>4, <2>5
  <1>6. Distinct(new)
    BY <1>3, <1>5 DEF Distinct
  <1> QED
    BY <1>2, <1>6, DistinctIsLabelList DEF new

LEMMA RemoveAtLabelList ==
    ASSUME NEW seq \in LabelLists, NEW i \in 1 .. Len(seq)
    PROVE  RemoveAt(seq, i) \in LabelLists
  <1> DEFINE new == RemoveAt(seq, i)
             n == Len(seq)
  <1>1. seq \in Seq(Labels) /\ n \in Nat /\ DOMAIN seq = 1 .. n /\ Distinct(seq)
    BY LabelListIsDistinct
  <1>2. /\ new \in Seq(Labels) /\ Len(new) = n - 1
        /\ \A j \in 1 .. n - 1 : new[j] = IF j < i THEN seq[j] ELSE seq[j + 1]
    BY <1>1, RemoveAtProperties
  <1>3. DOMAIN new = 1 .. n - 1
    BY <1>2, LenProperties
  <1> HIDE DEF new, n
  <1>4. i \in 1 .. n
    BY DEF n
  <1>5. ASSUME NEW j \in 1 .. n - 1, NEW k \in 1 .. n - 1, new[j] = new[k]
        PROVE  j = k
    <2> DEFINE old(x) == IF x < i THEN x ELSE x + 1
    <2>1. \A x \in 1 .. n - 1 : old(x) \in 1 .. n /\ new[x] = seq[old(x)]
      BY <1>1, <1>2, <1>4
    <2>2. old(j) = old(k)
      BY <1>1, <1>5, <2>1 DEF Distinct
    <2> QED
      BY <2>2, <1>1, <1>4
  <1>6. Distinct(new)
    BY <1>3, <1>5 DEF Distinct
  <1> QED
    BY <1>2, <1>6, DistinctIsLabelList DEF new

-----------------------------------------------------------------------------
(* The requests and the pages of labels.                                    *)

LEMMA PlainStages ==
    /\ DOMAIN Plain = 1 .. 7 /\ Len(Plain) = 7
    /\ \A i \in 1 .. 7 :
           Plain[i] \in {"project", "issue_types", "fields", "required_field_keys",
                         "priorities", "statuses", "components"}
    /\ ToSet(Plain) = {"project", "issue_types", "fields", "required_field_keys",
                       "priorities", "statuses", "components"}
  <1>1. DOMAIN Plain = 1 .. 7 /\ Len(Plain) = 7
    BY DEF Plain
  <1>2. /\ Plain[1] = "project" /\ Plain[2] = "issue_types" /\ Plain[3] = "fields"
        /\ Plain[4] = "required_field_keys" /\ Plain[5] = "priorities"
        /\ Plain[6] = "statuses" /\ Plain[7] = "components"
    BY DEF Plain
  <1>3. 1 .. 7 = {1, 2, 3, 4, 5, 6, 7}
    OBVIOUS
  <1> HIDE DEF Plain
  <1> QED
    BY <1>1, <1>2, <1>3 DEF ToSet

\* A page holds the labels Jira lists after the ones received, and none when
\* Jira lists no more than were received.
LEMMA PageProperties ==
    ASSUME labels \in Seq(Labels), server.labels \in Seq(Labels),
           NEW size \in 1 .. MaxPage
    PROVE  /\ LabelPage(size) \in Seq(Labels)
           /\ Len(labels) >= Len(server.labels) => LabelPage(size) = <<>>
           /\ Len(labels) < Len(server.labels) =>
                  /\ Len(LabelPage(size)) >= 1
                  /\ Len(labels) + Len(LabelPage(size)) <= Len(server.labels)
           /\ \A j \in 1 .. Len(LabelPage(size)) :
                  LabelPage(size)[j] = server.labels[Len(labels) + j]
  <1> DEFINE n == Len(labels)
             all == server.labels
             m == Min({n + size, Len(all)})
  <1>1. n \in Nat /\ Len(all) \in Nat /\ size \in Nat \ {0}
    BY BoundsAssumption, LenProperties
  <1>2. m = IF n + size <= Len(all) THEN n + size ELSE Len(all)
    BY <1>1, MinOfTwo
  <1>3. LabelPage(size) = SubSeq(all, n + 1, m)
    BY DEF LabelPage
  <1>4. all \in Seq(Labels)
    OBVIOUS
  <1> HIDE DEF n, all, m
  <1>5. CASE n < Len(all)
    <2> DEFINE page == SubSeq(all, n + 1, m)
    <2>1. n + 1 \in 1 .. Len(all) + 1 /\ m \in n + 1 - 1 .. Len(all) /\ m - n >= 1
      BY <1>1, <1>2, <1>5
    <2>2. /\ page \in Seq(Labels)
          /\ Len(page) = m - (n + 1) + 1
          /\ \A j \in 1 .. m - (n + 1) + 1 : page[j] = all[n + 1 + j - 1]
      <3>1. PICK a \in 1 .. Len(all) + 1 : \E b \in a - 1 .. Len(all) : a = n + 1 /\ b = m
        BY <1>1, <1>2, <2>1
      <3>2. PICK b \in a - 1 .. Len(all) : a = n + 1 /\ b = m
        BY <3>1
      <3>3. /\ SubSeq(all, a, b) \in Seq(Labels)
            /\ Len(SubSeq(all, a, b)) = b - a + 1
            /\ \A j \in 1 .. b - a + 1 : SubSeq(all, a, b)[j] = all[a + j - 1]
        BY <1>4, SliceProperties
      <3> QED
        BY <3>2, <3>3
    <2> HIDE DEF page
    <2>3. Len(page) = m - n /\ \A j \in 1 .. m - n : page[j] = all[n + j]
      BY <1>1, <2>1, <2>2
    <2>4. LabelPage(size) = page
      BY <1>3 DEF page
    <2>5. Len(page) >= 1 /\ n + Len(page) <= Len(all)
      BY <1>1, <1>2, <1>5, <2>1, <2>3
    <2>6. \A j \in 1 .. Len(page) : page[j] = all[n + j]
      BY <2>3
    <2> QED
      BY <1>1, <1>5, <2>2, <2>4, <2>5, <2>6 DEF n, all
  <1>6. CASE n >= Len(all)
    <2>1. n + 1 \in Int /\ m \in Int /\ m < n + 1
      BY <1>1, <1>2, <1>6
    <2>2. LabelPage(size) = <<>>
      BY <1>3, <2>1, SubSeqEmpty
    <2> QED
      BY <1>1, <1>6, <2>2, EmptySeq DEF n, all
  <1> QED
    BY <1>1, <1>5, <1>6

-----------------------------------------------------------------------------
(* Types.                                                                   *)

TypeInv ==
    /\ TypeOK
    /\ labels \in Seq(Labels)

LEMMA RequestNames ==
    /\ Requests = {"project", "issue_types", "fields", "required_field_keys", "priorities",
                   "statuses", "components", "labels", "boards", "sprints", "myself"}
    /\ Requests \cap Outcomes = {}
  BY PlainStages DEF Requests, Outcomes

LEMMA InitType == Init => TypeInv
  <1> SUFFICES ASSUME Init PROVE TypeInv
    OBVIOUS
  <1>1. server \in [labels : LabelLists, boards : SUBSET Boards]
    BY DEF Init
  <1>2. changes \in [start : LabelLists, added : 0 .. MaxChanges, removed : 0 .. MaxChanges]
    BY <1>1, BoundsAssumption DEF Init
  <1>3. labels \in Seq(Labels) /\ ToSet(labels) \subseteq Labels
    BY EmptySeq DEF Init, ToSet
  <1>4. stage \in Requests \cup Outcomes
    BY RequestNames DEF Init
  <1>5. tries \in 0 .. MaxTries /\ rounds \in 0 .. MaxTries /\ spent \in Nat
    BY TriesAssumption DEF Init
  <1> QED
    BY <1>1, <1>2, <1>3, <1>4, <1>5 DEF Init, TypeInv, TypeOK

\* Where an answer can lead.
LEMMA AnsweredStages ==
    ASSUME Answered
    PROVE  /\ stage \in ToSet(Plain)
           /\ stage' \in ToSet(Plain) \cup {"labels"}
           /\ tries' = 0 /\ rounds' = 0 /\ spent' = 0
           /\ UNCHANGED <<server, changes, entry, board_id, labels, boards, sprints>>
  <1>1. PICK i \in DOMAIN Plain :
            /\ stage = Plain[i]
            /\ \/ Goto(IF i = Len(Plain) THEN "labels" ELSE Plain[i + 1])
               \/ stage = "project" /\ Goto("fields")
    BY DEF Answered
  <1>2. /\ UNCHANGED <<server, changes, entry, board_id, labels, boards, sprints>>
    BY DEF Answered, jira, collected
  <1>3. i \in 1 .. 7 /\ (i # 7 => i + 1 \in 1 .. 7)
    BY PlainStages
  <1>4. Plain[i] \in ToSet(Plain) /\ (i # 7 => Plain[i + 1] \in ToSet(Plain))
    BY <1>3, PlainStages
  <1> QED
    BY <1>1, <1>2, <1>4, PlainStages DEF Goto

LEMMA NextType == TypeInv /\ [Next]_vars => TypeInv'
  <1> SUFFICES ASSUME TypeInv, [Next]_vars PROVE TypeInv'
    OBVIOUS
  <1> USE DEF TypeInv, TypeOK, jira, collected
  <1> DEFINE Rest == /\ server' \in [labels : LabelLists, boards : SUBSET Boards]
                     /\ changes' \in [start : LabelLists, added : 0 .. MaxChanges,
                                      removed : 0 .. MaxChanges]
                     /\ entry' \in {"project", "myself"}
                     /\ board_id' \in Boards \cup {NoBoard}
             Got == /\ labels' \in Seq(Labels) /\ ToSet(labels)' \subseteq Labels
                    /\ boards' \subseteq Boards /\ sprints' \subseteq Boards
             Count == /\ stage' \in Requests \cup Outcomes
                      /\ tries' \in 0 .. MaxTries /\ rounds' \in 0 .. MaxTries
                      /\ spent' \in Nat
  <1>1. UNCHANGED <<server, changes, entry, board_id>> => Rest
    OBVIOUS
  <1>2. UNCHANGED <<labels, boards, sprints>> => Got
    OBVIOUS
  <1>3. stage' \in Requests \cup Outcomes /\ tries' = 0 /\ rounds' = 0 /\ spent' = 0 => Count
    BY TriesAssumption
  <1>4. CASE FatalError
    BY <1>1, <1>2, <1>4 DEF FatalError, Outcomes
  <1>5. CASE TryAgain
    BY <1>1, <1>2, <1>5, TriesAssumption DEF TryAgain
  <1>6. CASE TryRequestAgain
    BY <1>1, <1>2, <1>6, TriesAssumption DEF TryRequestAgain
  <1>7. CASE OutOfTries
    BY <1>1, <1>2, <1>7, TriesAssumption DEF OutOfTries, Outcomes
  <1>8. CASE Myself
    BY <1>1, <1>2, <1>3, <1>8 DEF Myself, Goto, Outcomes
  <1>9. CASE Answered
    <2>1. stage' \in Requests
      BY <1>9, AnsweredStages DEF Requests
    <2> QED
      BY <1>1, <1>2, <1>3, <1>9, <2>1, AnsweredStages
  <1>10. CASE AnsweredLabels
    <2>1. PICK size \in 1 .. MaxPage :
              /\ labels' = labels \o LabelPage(size)
              /\ \E is_last \in MayBeLast(Len(labels')) :
                    Goto(IF is_last \/ LabelPage(size) = <<>> THEN "boards" ELSE "labels")
      BY <1>10 DEF AnsweredLabels
    <2>2. server.labels \in Seq(Labels)
      BY LabelListIsDistinct
    <2>3. labels' \in Seq(Labels)
      BY <2>1, <2>2, PageProperties, ConcatProperties
    <2>4. ToSet(labels)' \subseteq Labels
      BY <2>3, LenProperties DEF ToSet
    <2>5. stage' \in Requests
      BY <2>1, RequestNames DEF Goto
    <2>6. tries' = 0 /\ rounds' = 0 /\ spent' = 0
      BY <2>1 DEF Goto
    <2>7. UNCHANGED <<server, changes, entry, board_id, boards, sprints>>
      BY <1>10 DEF AnsweredLabels
    <2> QED
      BY <1>1, <1>3, <2>3, <2>4, <2>5, <2>6, <2>7
  <1>11. CASE AnsweredBoards
    <2>1. stage' \in Requests \cup Outcomes /\ tries' = 0 /\ rounds' = 0 /\ spent' = 0
      BY <1>11, RequestNames DEF AnsweredBoards, Goto, Outcomes
    <2>2. boards' \subseteq Boards
      BY <1>11 DEF AnsweredBoards
    <2> QED
      BY <1>1, <1>3, <1>11, <2>1, <2>2 DEF AnsweredBoards
  <1>12. CASE AnsweredSprints
    <2>1. PICK board \in SprintBoards(boards) \ sprints :
              /\ sprints' = sprints \cup {board}
              /\ Goto(IF sprints' = SprintBoards(boards) THEN "returned" ELSE "sprints")
      BY <1>12 DEF AnsweredSprints
    <2>2. sprints' \subseteq Boards
      BY <2>1 DEF SprintBoards
    <2>3. stage' \in Requests \cup Outcomes /\ tries' = 0 /\ rounds' = 0 /\ spent' = 0
      BY <2>1, RequestNames DEF Goto, Outcomes
    <2> QED
      BY <1>1, <1>3, <1>12, <2>2, <2>3 DEF AnsweredSprints
  <1>13. CASE AddLabel
    <2>1. PICK label \in Labels \ ToSet(server.labels), i \in 1 .. Len(server.labels) + 1 :
              server' = [server EXCEPT !.labels = InsertAt(@, i, label)]
      BY <1>13 DEF AddLabel
    <2>2. server' \in [labels : LabelLists, boards : SUBSET Boards]
      BY <2>1, InsertAtLabelList
    <2>3. changes' \in [start : LabelLists, added : 0 .. MaxChanges, removed : 0 .. MaxChanges]
      BY <1>13, BoundsAssumption DEF AddLabel
    <2> QED
      BY <1>2, <1>13, <2>2, <2>3 DEF AddLabel
  <1>14. CASE RemoveLabel
    <2>1. PICK i \in DOMAIN server.labels :
              server' = [server EXCEPT !.labels = RemoveAt(@, i)]
      BY <1>14 DEF RemoveLabel
    <2>2. server' \in [labels : LabelLists, boards : SUBSET Boards]
      BY <2>1, LabelListIsDistinct, RemoveAtLabelList
    <2>3. changes' \in [start : LabelLists, added : 0 .. MaxChanges, removed : 0 .. MaxChanges]
      BY <1>14, BoundsAssumption DEF RemoveLabel
    <2> QED
      BY <1>2, <1>14, <2>2, <2>3 DEF RemoveLabel
  <1>15. CASE UNCHANGED vars
    BY <1>15 DEF vars
  <1> QED
    BY <1>4, <1>5, <1>6, <1>7, <1>8, <1>9, <1>10, <1>11, <1>12, <1>13, <1>14, <1>15
    DEF Next, Client

LEMMA TypeInvariance == Spec => []TypeInv
  BY InitType, NextType, PTL DEF Spec

\* For any labels, boards and bounds, every variable keeps its type: the list
\* Jira keeps never lists a label twice, and the retry counters stay in range.
THEOREM TypeCorrect == Spec => []TypeOK
  <1>1. TypeInv => TypeOK
    BY DEF TypeInv
  <1> QED
    BY <1>1, TypeInvariance, PTL

-----------------------------------------------------------------------------
(* Retries.  The two counters are the digits of the number of failed calls. *)

LEMMA LastRound ==
    ASSUME NEW r \in Nat, NEW t \in Nat, NEW m \in Nat, r < m, t < m
    PROVE  /\ r * m + t \in Nat
           /\ r * m + t < m * m
           /\ r + 1 = m => r * m + m = m * m
           /\ (r + 1) * m = r * m + m
  <1>1. r * m \in Nat /\ (r + 1) * m = r * m + m
    OBVIOUS
  <1>2. PICK d \in Nat : m = (r + 1) + d
    <2>1. m - (r + 1) \in Nat
      OBVIOUS
    <2> QED
      BY <2>1
  <1>3. m * m = (r + 1) * m + d * m /\ d * m \in Nat
    BY <1>2
  <1> QED
    BY <1>1, <1>3

RetryInv ==
    /\ entry = "project" => stage # "myself" /\ rounds = 0
    /\ entry = "myself" => stage \in {"myself"} \cup Outcomes
    /\ stage \in Requests =>
           tries < MaxTries /\ rounds < MaxTries /\ spent = rounds * MaxTries + tries
    /\ stage = "exhausted" => spent = Budget
    /\ stage = "refused" => spent < Budget
    /\ stage = "returned" => spent = 0

LEMMA InitRetry == Init => RetryInv
  BY TriesAssumption, RequestNames DEF Init, RetryInv, Outcomes

\* A request that is begun afresh owes nothing to the one before.
LEMMA AfreshRetry ==
    ASSUME stage' \in Requests \cup {"returned"}, stage' # "myself", stage # "myself",
           stage \in Requests, RetryInv, TypeInv, entry' = entry,
           tries' = 0, rounds' = 0, spent' = 0
    PROVE  RetryInv'
  <1>1. entry' = "project"
    BY RequestNames DEF RetryInv, TypeInv, TypeOK
  <1>2. 0 * MaxTries + 0 = 0
    BY TriesAssumption
  <1> QED
    BY <1>1, <1>2, TriesAssumption, RequestNames DEF RetryInv, Outcomes

LEMMA NextRetry == TypeInv /\ RetryInv /\ [Next]_vars => RetryInv'
  <1> SUFFICES ASSUME TypeInv, RetryInv, [Next]_vars PROVE RetryInv'
    OBVIOUS
  <1>1. tries \in Nat /\ rounds \in Nat /\ spent \in Nat /\ MaxTries \in Nat \ {0}
    BY TriesAssumption DEF TypeInv, TypeOK
  <1>2. entry \in {"project", "myself"}
    BY DEF TypeInv, TypeOK
  <1> DEFINE most == MaxTries * MaxTries
             used == rounds * MaxTries
  <1>3. stage \in Requests =>
            /\ used + tries < most /\ used \in Nat
            /\ rounds + 1 = MaxTries => used + MaxTries = most
            /\ (rounds + 1) * MaxTries = used + MaxTries
            /\ spent = used + tries /\ tries < MaxTries /\ rounds < MaxTries
    BY <1>1, LastRound DEF RetryInv
  <1>4. entry = "project" => used = 0
    BY <1>1 DEF RetryInv
  <1>5. most \in Nat /\ Budget = IF entry = "myself" THEN most ELSE MaxTries
    BY <1>1 DEF Budget
  <1> HIDE DEF most, used
  <1>6. entry' = entry => Budget' = Budget
    BY DEF Budget
  <1>7. CASE FatalError
    <2>1. stage \in Requests /\ stage' = "refused"
          /\ UNCHANGED <<entry, tries, rounds, spent>>
      BY <1>7 DEF FatalError, jira
    <2>2. spent < Budget
      BY <2>1, <1>1, <1>2, <1>3, <1>4, <1>5
    <2> QED
      BY <2>1, <2>2, <1>6, RequestNames DEF RetryInv, Outcomes
  <1>8. CASE TryAgain
    <2>1. /\ stage \in Requests /\ tries + 1 < MaxTries
          /\ tries' = tries + 1 /\ spent' = spent + 1
          /\ UNCHANGED <<entry, stage, rounds>>
      BY <1>8 DEF TryAgain, jira
    <2>2. spent' = rounds' * MaxTries + tries'
      BY <2>1, <1>1, <1>3 DEF used
    <2> QED
      BY <2>1, <2>2, RequestNames DEF RetryInv, Outcomes
  <1>9. CASE TryRequestAgain
    <2>1. /\ stage = "myself" /\ tries + 1 = MaxTries /\ rounds + 1 < MaxTries
          /\ tries' = 0 /\ rounds' = rounds + 1 /\ spent' = spent + 1
          /\ UNCHANGED <<entry, stage>>
      BY <1>9 DEF TryRequestAgain, jira
    <2>2. spent' = rounds' * MaxTries + tries'
      BY <2>1, <1>1, <1>3, RequestNames
    <2> QED
      BY <2>1, <2>2, <1>1, RequestNames DEF RetryInv, Outcomes
  <1>10. CASE OutOfTries
    <2>1. /\ stage \in Requests /\ tries + 1 = MaxTries
          /\ stage = "myself" => rounds + 1 = MaxTries
          /\ stage' = "exhausted" /\ spent' = spent + 1
          /\ UNCHANGED <<entry, tries, rounds>>
      BY <1>10 DEF OutOfTries, jira
    <2>2. entry = "myself" <=> stage = "myself"
      BY <2>1, <1>2, RequestNames DEF RetryInv, Outcomes
    <2>3. spent' = Budget
      BY <2>1, <2>2, <1>1, <1>2, <1>3, <1>4, <1>5
    <2> QED
      BY <2>1, <2>3, <1>6, RequestNames DEF RetryInv, Outcomes
  <1>11. CASE Myself
    <2>1. /\ stage = "myself" /\ stage' = "returned" /\ spent' = 0
          /\ rounds' = 0 /\ UNCHANGED entry
      BY <1>11 DEF Myself, Goto, jira
    <2> QED
      BY <2>1, RequestNames DEF RetryInv, Outcomes
  <1>12. CASE Answered
    <2>1. /\ stage \in Requests /\ stage # "myself"
          /\ stage' \in Requests /\ stage' # "myself"
      BY <1>12, AnsweredStages, PlainStages, RequestNames
    <2> QED
      BY <1>12, <2>1, AnsweredStages, AfreshRetry
  <1>13. CASE AnsweredLabels
    <2>1. /\ stage = "labels" /\ stage' \in {"boards", "labels"}
          /\ tries' = 0 /\ rounds' = 0 /\ spent' = 0 /\ UNCHANGED entry
      BY <1>13 DEF AnsweredLabels, Goto, jira
    <2> QED
      BY <2>1, RequestNames, AfreshRetry
  <1>14. CASE AnsweredBoards
    <2>1. /\ stage = "boards" /\ stage' \in {"returned", "sprints"}
          /\ tries' = 0 /\ rounds' = 0 /\ spent' = 0 /\ UNCHANGED entry
      BY <1>14 DEF AnsweredBoards, Goto, jira
    <2> QED
      BY <2>1, RequestNames, AfreshRetry
  <1>15. CASE AnsweredSprints
    <2>1. /\ stage = "sprints" /\ stage' \in {"returned", "sprints"}
          /\ tries' = 0 /\ rounds' = 0 /\ spent' = 0 /\ UNCHANGED entry
      BY <1>15 DEF AnsweredSprints, Goto, jira
    <2> QED
      BY <2>1, RequestNames, AfreshRetry
  <1>16. CASE AddLabel \/ RemoveLabel \/ UNCHANGED vars
    <2>1. UNCHANGED <<entry, stage, tries, rounds, spent>>
      BY <1>16 DEF AddLabel, RemoveLabel, vars
    <2> QED
      BY <2>1, <1>6 DEF RetryInv
  <1> QED
    BY <1>7, <1>8, <1>9, <1>10, <1>11, <1>12, <1>13, <1>14, <1>15, <1>16 DEF Next, Client

\* For any number of tries, a passing error is given up after exactly that many
\* HTTP calls, or its square for _request_myself, and never before or after.
THEOREM RetriesAreBounded == Spec => []RetryBudget
  <1>1. TypeInv /\ RetryInv => RetryBudget
    <2> SUFFICES ASSUME TypeInv, RetryInv PROVE RetryBudget
      OBVIOUS
    <2>1. /\ tries \in Nat /\ rounds \in Nat /\ spent \in Nat /\ MaxTries \in Nat \ {0}
          /\ entry \in {"project", "myself"} /\ stage \in Requests \cup Outcomes
      BY TriesAssumption DEF TypeInv, TypeOK
    <2>2. Budget \in Nat /\ Budget > 0
      <3>1. MaxTries * MaxTries >= MaxTries
        BY <2>1, LastRound, 0 * MaxTries + MaxTries - 1 < MaxTries * MaxTries
      <3> QED
        BY <2>1, <3>1 DEF Budget
    <2>3. stage \in Requests => spent < Budget /\ stage # "exhausted"
      <3>1. SUFFICES ASSUME stage \in Requests PROVE spent < Budget /\ stage # "exhausted"
        OBVIOUS
      <3>2. /\ rounds * MaxTries + tries < MaxTries * MaxTries
            /\ spent = rounds * MaxTries + tries /\ tries < MaxTries
        BY <2>1, <3>1, LastRound DEF RetryInv
      <3>3. entry = "project" => spent = tries
        BY <2>1, <3>1 DEF RetryInv
      <3> QED
        BY <2>1, <3>1, <3>2, <3>3, RequestNames DEF Budget
    <2> QED
      BY <2>1, <2>2, <2>3 DEF RetryBudget, RetryInv, Outcomes
  <1>2. Spec => []RetryInv
    BY InitRetry, NextRetry, TypeInvariance, PTL DEF Spec
  <1> QED
    BY <1>1, <1>2, TypeInvariance, PTL

-----------------------------------------------------------------------------
(* Labels.  What the client has is compared with what Jira would still list *)
(* to it: the positions after the number of labels received.                *)

Ahead == Len(labels) + 1 .. Len(server.labels)

\* Nothing changed: the labels received are the first ones of Jira's list.
QuietInv ==
    changes.added = 0 /\ changes.removed = 0 =>
        /\ server.labels = changes.start
        /\ Len(labels) <= Len(changes.start)
        /\ \A j \in 1 .. Len(labels) : labels[j] = changes.start[j]
        /\ PastLabels => Len(labels) = Len(changes.start)

\* Nothing was added: no label was received twice or will be.
NoneTwice ==
    changes.added = 0 =>
        /\ Distinct(labels)
        /\ \A i \in 1 .. Len(labels), j \in Ahead : labels[i] # server.labels[j]

\* Nothing was removed: every label of the start was received or lies ahead.
NoneMissed ==
    changes.removed = 0 =>
        /\ \A label \in ToSet(changes.start) :
               label \in ToSet(labels) \/ \E j \in Ahead : server.labels[j] = label
        /\ PastLabels => ToSet(changes.start) \subseteq ToSet(labels)

LabelInv == QuietInv /\ NoneTwice /\ NoneMissed

LEMMA InitLabels == Init => LabelInv
  <1> SUFFICES ASSUME Init PROVE LabelInv
    OBVIOUS
  <1>1. /\ labels = <<>> /\ Len(labels) = 0 /\ DOMAIN labels = {}
        /\ changes.start = server.labels /\ ~PastLabels
    BY DEF Init, PastLabels
  <1>2. server.labels \in LabelLists
    BY DEF Init
  <1>3. Len(server.labels) \in Nat /\ DOMAIN server.labels = 1 .. Len(server.labels)
    BY <1>2, LabelListIsDistinct
  <1>4. QuietInv
    BY <1>1, <1>3 DEF QuietInv
  <1>5. NoneTwice
    BY <1>1, <1>3 DEF NoneTwice, Distinct
  <1>6. Ahead = DOMAIN server.labels
    BY <1>1, <1>3 DEF Ahead
  <1>7. NoneMissed
    BY <1>1, <1>6 DEF NoneMissed, ToSet
  <1> QED
    BY <1>4, <1>5, <1>7 DEF LabelInv

\* Steps that touch neither list nor collected labels, and enter no new stage.
LEMMA OtherLabels ==
    ASSUME LabelInv, UNCHANGED <<server, changes, labels>>, PastLabels' => PastLabels
    PROVE  LabelInv'
  <1>1. QuietInv'
    BY DEF LabelInv, QuietInv
  <1>2. Ahead' = Ahead
    BY DEF Ahead
  <1>3. NoneTwice' /\ NoneMissed'
    BY <1>2 DEF LabelInv, NoneTwice, NoneMissed
  <1> QED
    BY <1>1, <1>3 DEF LabelInv

\* A page moves labels from ahead to received.
LEMMA PageLabels ==
    ASSUME TypeInv, LabelInv, AnsweredLabels
    PROVE  LabelInv'
  <1>1. PICK size \in 1 .. MaxPage :
            /\ labels' = labels \o LabelPage(size)
            /\ \E is_last \in MayBeLast(Len(labels')) :
                  Goto(IF is_last \/ LabelPage(size) = <<>> THEN "boards" ELSE "labels")
    BY DEF AnsweredLabels
  <1> DEFINE n == Len(labels)
             all == server.labels
             page == LabelPage(size)
             new == labels \o page
  <1>2. /\ labels \in Seq(Labels) /\ all \in Seq(Labels) /\ Distinct(all)
        /\ n \in Nat /\ Len(all) \in Nat /\ DOMAIN all = 1 .. Len(all) /\ DOMAIN labels = 1 .. n
    BY LabelListIsDistinct, LenProperties DEF TypeInv, TypeOK
  <1>3. UNCHANGED <<server, changes>> /\ labels' = new
    BY <1>1 DEF AnsweredLabels, jira
  <1>4. /\ page \in Seq(Labels) /\ Len(page) \in Nat
        /\ n >= Len(all) => page = <<>>
        /\ n < Len(all) => Len(page) >= 1 /\ n + Len(page) <= Len(all)
        /\ \A j \in 1 .. Len(page) : page[j] = all[n + j]
    BY <1>2, PageProperties, LenProperties
  <1>5. PastLabels' => Len(labels') >= Len(all)
    <2> SUFFICES ASSUME PastLabels'
                 PROVE  Len(labels') >= Len(all)
      OBVIOUS
    <2>1. PICK is_last \in MayBeLast(Len(labels')) :
              stage' = IF is_last \/ page = <<>> THEN "boards" ELSE "labels"
      BY <1>1 DEF Goto
    <2>2. CASE is_last
      BY <2>1, <2>2 DEF MayBeLast
    <2>3. CASE page = <<>>
      <3>1. ~(n < Len(all)) /\ new = labels
        BY <1>2, <1>4, <2>3, EmptySeq, ConcatEmptySeq
      <3> QED
        BY <3>1, <1>2, <1>3
    <2>4. is_last \/ page = <<>>
      BY <2>1 DEF PastLabels
    <2> QED
      BY <2>2, <2>3, <2>4
  <1> HIDE DEF page
  <1>6. /\ new \in Seq(Labels) /\ Len(new) = n + Len(page)
        /\ \A j \in 1 .. n + Len(page) : new[j] = IF j <= n THEN labels[j] ELSE page[j - n]
    BY <1>2, <1>4, ConcatProperties
  <1>7. DOMAIN new = 1 .. Len(new)
    BY <1>6, LenProperties
  <1> HIDE DEF new, n, all
  <1>8. Len(page) = 0 \/ n + Len(page) <= Len(all)
    BY <1>2, <1>4, EmptySeq
  <1>9. \A j \in 1 .. n : new[j] = labels[j]
    BY <1>2, <1>4, <1>6
  <1>10. \A j \in n + 1 .. Len(new) : new[j] = all[j] /\ j \in 1 .. Len(all)
    <2> SUFFICES ASSUME NEW j \in n + 1 .. Len(new)
                 PROVE  new[j] = all[j] /\ j \in 1 .. Len(all)
      OBVIOUS
    <2>1. j - n \in 1 .. Len(page) /\ n + (j - n) = j /\ ~(j <= n) /\ j \in 1 .. n + Len(page)
      BY <1>2, <1>4, <1>6
    <2>2. new[j] = page[j - n]
      BY <2>1, <1>6
    <2>3. page[j - n] = all[n + (j - n)]
      BY <2>1, <1>4
    <2> QED
      BY <2>1, <2>2, <2>3, <1>2, <1>4, <1>8
  <1>11. Len(new) \in Nat /\ n <= Len(new)
    BY <1>2, <1>4, <1>6
  <1>12. Ahead = n + 1 .. Len(all) /\ Ahead' = Len(new) + 1 .. Len(all)
    BY <1>3 DEF Ahead, n, all
  <1>13. QuietInv'
    <2> SUFFICES ASSUME changes.added = 0, changes.removed = 0
                 PROVE  /\ all = changes.start
                        /\ Len(new) <= Len(all)
                        /\ \A j \in 1 .. Len(new) : new[j] = all[j]
                        /\ PastLabels' => Len(new) = Len(all)
      BY <1>3 DEF QuietInv, all
    <2>1. /\ all = changes.start /\ n <= Len(all)
          /\ \A j \in 1 .. n : labels[j] = all[j]
      BY DEF LabelInv, QuietInv, n, all
    <2>2. Len(new) <= Len(all)
      BY <2>1, <1>2, <1>4, <1>6, <1>8
    <2>3. \A j \in 1 .. Len(new) : new[j] = all[j]
      BY <2>1, <1>2, <1>9, <1>10, <1>11
    <2> QED
      BY <2>1, <2>2, <2>3, <1>2, <1>3, <1>5, <1>11
  <1>14. NoneTwice'
    <2> SUFFICES ASSUME changes.added = 0
                 PROVE  /\ Distinct(new)
                        /\ \A i \in 1 .. Len(new), j \in Ahead' : new[i] # all[j]
      BY <1>3 DEF NoneTwice, all
    <2>1. /\ Distinct(labels)
          /\ \A i \in 1 .. n, j \in n + 1 .. Len(all) : labels[i] # all[j]
      BY <1>12 DEF LabelInv, NoneTwice, n, all
    <2>2. ASSUME NEW i \in 1 .. Len(new), NEW j \in Ahead'
          PROVE  new[i] # all[j]
      <3>1. j \in n + 1 .. Len(all) /\ j \in 1 .. Len(all) /\ j > Len(new)
        BY <1>2, <1>11, <1>12
      <3>2. CASE i <= n
        BY <3>1, <3>2, <2>1, <1>2, <1>9, <1>11
      <3>3. CASE i > n
        <4>1. new[i] = all[i] /\ i \in 1 .. Len(all) /\ i # j
          BY <3>1, <3>3, <1>2, <1>10, <1>11
        <4> QED
          BY <4>1, <3>1, <1>2 DEF Distinct
      <3> QED
        BY <3>2, <3>3, <1>2, <1>11
    <2>3. ASSUME NEW i \in 1 .. Len(new), NEW j \in 1 .. Len(new), new[i] = new[j], i < j
          PROVE  FALSE
      <3>1. CASE j <= n
        BY <3>1, <2>1, <2>3, <1>2, <1>9, <1>11 DEF Distinct
      <3>2. CASE j > n
        <4>1. new[j] = all[j] /\ j \in n + 1 .. Len(all) /\ j \in 1 .. Len(all)
          BY <3>2, <1>2, <1>10, <1>11
        <4>2. CASE i <= n
          <5>1. i \in 1 .. n
            BY <4>2, <1>2
          <5>2. new[i] = labels[i] /\ labels[i] # all[j]
            BY <4>1, <5>1, <2>1, <1>9
          <5> QED
            BY <4>1, <5>2, <2>3
        <4>3. CASE i > n
          <5>1. new[i] = all[i] /\ i \in 1 .. Len(all)
            BY <4>3, <1>2, <1>10, <1>11
          <5>2. all[i] = all[j] /\ i \in DOMAIN all /\ j \in DOMAIN all
            BY <4>1, <5>1, <2>3, <1>2
          <5>3. i = j
            BY <5>2, <1>2 DEF Distinct
          <5> QED
            BY <5>3, <2>3, <1>11
        <4> QED
          BY <4>2, <4>3, <1>2
      <3> QED
        BY <3>1, <3>2, <1>2, <1>11
    <2>4. Distinct(new)
      <3> SUFFICES ASSUME NEW i \in 1 .. Len(new), NEW j \in 1 .. Len(new), new[i] = new[j]
                   PROVE  i = j
        BY <1>7 DEF Distinct
      <3> QED
        BY <2>3, <1>11
    <2> QED
      BY <2>2, <2>4
  <1>15. NoneMissed'
    <2> SUFFICES ASSUME changes.removed = 0
                 PROVE  /\ \A label \in ToSet(changes.start) :
                               \/ label \in ToSet(new)
                               \/ \E j \in Ahead' : all[j] = label
                        /\ PastLabels' => ToSet(changes.start) \subseteq ToSet(new)
      BY <1>3 DEF NoneMissed, all
    <2>1. ToSet(labels) \subseteq ToSet(new)
      BY <1>2, <1>7, <1>9, <1>11 DEF ToSet
    <2>2. \A j \in Ahead : all[j] \in ToSet(new) \/ j \in Ahead'
      <3> SUFFICES ASSUME NEW j \in Ahead, j \notin Ahead'
                   PROVE  all[j] \in ToSet(new)
        OBVIOUS
      <3>1. j \in n + 1 .. Len(new) /\ j \in 1 .. Len(new)
        BY <1>2, <1>11, <1>12
      <3>2. all[j] = new[j]
        BY <3>1, <1>10
      <3> QED
        BY <3>1, <3>2, <1>7 DEF ToSet
    <2>3. ASSUME NEW label \in ToSet(changes.start)
          PROVE  label \in ToSet(new) \/ \E j \in Ahead' : all[j] = label
      BY <2>1, <2>2 DEF LabelInv, NoneMissed, all
    <2>4. PastLabels' => Ahead' = {}
      BY <1>2, <1>3, <1>5, <1>11, <1>12
    <2> QED
      BY <2>3, <2>4
  <1> QED
    BY <1>13, <1>14, <1>15 DEF LabelInv

\* Somebody adds a label that Jira does not list.
LEMMA AddedLabels ==
    ASSUME TypeInv, LabelInv, AddLabel
    PROVE  LabelInv'
  <1> DEFINE n == Len(labels)
             all == server.labels
  <1>1. PICK label \in Labels \ ToSet(all), i \in 1 .. Len(all) + 1 :
            server' = [server EXCEPT !.labels = InsertAt(@, i, label)]
    BY DEF AddLabel
  <1> DEFINE new == InsertAt(all, i, label)
  <1>2. /\ changes' = [changes EXCEPT !.added = @ + 1]
        /\ UNCHANGED <<labels, stage>>
    BY DEF AddLabel, collected
  <1>3. /\ changes'.added # 0 /\ changes'.removed = changes.removed
        /\ changes'.start = changes.start
    <2>1. changes.added \in Nat
      BY DEF TypeInv, TypeOK
    <2> QED
      BY <1>2, <2>1 DEF TypeInv, TypeOK
  <1>4. server'.labels = new
    BY <1>1 DEF TypeInv, TypeOK
  <1>5. QuietInv' /\ NoneTwice'
    BY <1>3 DEF QuietInv, NoneTwice
  <1>6. all \in Seq(Labels) /\ Len(all) \in Nat /\ n \in Nat
    BY LabelListIsDistinct, LenProperties DEF TypeInv, TypeOK
  <1>7. /\ Len(new) = Len(all) + 1
        /\ \A j \in 1 .. Len(all) + 1 :
               new[j] = IF j < i THEN all[j] ELSE IF j = i THEN label ELSE all[j - 1]
    <2>1. label \in Labels /\ i \in 1 .. Len(all) + 1
      BY <1>1
    <2>2. PICK s \in Seq(Labels), e \in Labels : s = all /\ e = label
      BY <1>6, <2>1
    <2>3. PICK k \in 1 .. Len(s) + 1 : k = i
      BY <2>1, <2>2
    <2>4. /\ Len(InsertAt(s, k, e)) = Len(s) + 1
          /\ \A j \in 1 .. Len(s) + 1 :
                 InsertAt(s, k, e)[j] = IF j < k THEN s[j] ELSE IF j = k THEN e ELSE s[j - 1]
      BY InsertAtProperties
    <2> QED
      BY <2>2, <2>3, <2>4
  <1> HIDE DEF new, n, all
  <1>8. Ahead = n + 1 .. Len(all) /\ Ahead' = n + 1 .. Len(new)
    BY <1>2, <1>4 DEF Ahead, n, all
  <1>9. \A j \in Ahead : \E k \in Ahead' : new[k] = all[j]
    <2> SUFFICES ASSUME NEW j \in Ahead PROVE \E k \in Ahead' : new[k] = all[j]
      OBVIOUS
    <2>1. CASE j < i
      <3>1. j \in Ahead' /\ j \in 1 .. Len(all) + 1
        BY <1>6, <1>7, <1>8
      <3> QED
        BY <2>1, <3>1, <1>7
    <2>2. CASE ~(j < i)
      <3>1. /\ j + 1 \in Ahead' /\ j + 1 \in 1 .. Len(all) + 1
            /\ ~(j + 1 < i) /\ j + 1 # i /\ (j + 1) - 1 = j
        BY <2>2, <1>6, <1>7, <1>8
      <3>2. new[j + 1] = all[j]
        BY <3>1, <1>7
      <3> QED
        BY <3>1, <3>2
    <2> QED
      BY <2>1, <2>2
  <1>10. NoneMissed'
    <2> SUFFICES ASSUME changes.removed = 0
                 PROVE  /\ \A l \in ToSet(changes.start) :
                               l \in ToSet(labels) \/ \E j \in Ahead' : new[j] = l
                        /\ PastLabels => ToSet(changes.start) \subseteq ToSet(labels)
      BY <1>2, <1>3, <1>4 DEF NoneMissed, PastLabels
    <2> QED
      BY <1>9 DEF LabelInv, NoneMissed, all
  <1> QED
    BY <1>5, <1>10 DEF LabelInv

\* Somebody takes a label off the last issue that had it.
LEMMA RemovedLabels ==
    ASSUME TypeInv, LabelInv, RemoveLabel
    PROVE  LabelInv'
  <1> DEFINE n == Len(labels)
             all == server.labels
  <1>1. PICK i \in DOMAIN all : server' = [server EXCEPT !.labels = RemoveAt(@, i)]
    BY DEF RemoveLabel
  <1> DEFINE new == RemoveAt(all, i)
  <1>2. /\ changes' = [changes EXCEPT !.removed = @ + 1]
        /\ UNCHANGED <<labels, stage>>
    BY DEF RemoveLabel, collected
  <1>3. changes'.removed # 0 /\ changes'.added = changes.added
    <2>1. changes.removed \in Nat
      BY DEF TypeInv, TypeOK
    <2> QED
      BY <1>2, <2>1 DEF TypeInv, TypeOK
  <1>4. server'.labels = new
    BY <1>1 DEF TypeInv, TypeOK
  <1>5. QuietInv' /\ NoneMissed'
    BY <1>3 DEF QuietInv, NoneMissed
  <1>6. /\ all \in Seq(Labels) /\ Len(all) \in Nat /\ n \in Nat
        /\ i \in 1 .. Len(all)
    BY LabelListIsDistinct, LenProperties DEF TypeInv, TypeOK
  <1>7. /\ Len(new) = Len(all) - 1
        /\ \A j \in 1 .. Len(all) - 1 : new[j] = IF j < i THEN all[j] ELSE all[j + 1]
    BY <1>6, RemoveAtProperties
  <1> HIDE DEF new, n, all
  <1>8. Ahead = n + 1 .. Len(all) /\ Ahead' = n + 1 .. Len(new)
    BY <1>2, <1>4 DEF Ahead, n, all
  <1>9. \A j \in Ahead' : \E k \in Ahead : new[j] = all[k]
    <2> SUFFICES ASSUME NEW j \in Ahead' PROVE \E k \in Ahead : new[j] = all[k]
      OBVIOUS
    <2>1. j \in Ahead /\ j + 1 \in Ahead /\ j \in 1 .. Len(all) - 1
      BY <1>6, <1>7, <1>8
    <2> QED
      BY <2>1, <1>7
  <1>10. NoneTwice'
    <2> SUFFICES ASSUME changes.added = 0
                 PROVE  /\ Distinct(labels)
                        /\ \A k \in 1 .. n, j \in Ahead' : labels[k] # new[j]
      BY <1>2, <1>3, <1>4 DEF NoneTwice, n
    <2> QED
      BY <1>9 DEF LabelInv, NoneTwice, n, all
  <1> QED
    BY <1>5, <1>10 DEF LabelInv

LEMMA NextLabels == TypeInv /\ LabelInv /\ [Next]_vars => LabelInv'
  <1> SUFFICES ASSUME TypeInv, LabelInv, [Next]_vars PROVE LabelInv'
    OBVIOUS
  <1> USE DEF jira, collected
  <1>1. CASE FatalError \/ OutOfTries \/ Myself
    BY <1>1, OtherLabels DEF FatalError, OutOfTries, Myself, Goto, PastLabels
  <1>2. CASE TryAgain \/ TryRequestAgain
    BY <1>2, OtherLabels DEF TryAgain, TryRequestAgain, PastLabels
  <1>3. CASE Answered
    <2>1. stage' \notin {"boards", "sprints"}
      BY <1>3, AnsweredStages, PlainStages
    <2> QED
      BY <1>3, <2>1, AnsweredStages, OtherLabels DEF PastLabels
  <1>4. CASE AnsweredLabels
    BY <1>4, PageLabels
  <1>5. CASE AnsweredBoards
    BY <1>5, OtherLabels DEF AnsweredBoards, PastLabels
  <1>6. CASE AnsweredSprints
    BY <1>6, OtherLabels DEF AnsweredSprints, PastLabels
  <1>7. CASE AddLabel
    BY <1>7, AddedLabels
  <1>8. CASE RemoveLabel
    BY <1>8, RemovedLabels
  <1>9. CASE UNCHANGED vars
    BY <1>9, OtherLabels DEF vars, PastLabels
  <1> QED
    BY <1>1, <1>2, <1>3, <1>4, <1>5, <1>6, <1>7, <1>8, <1>9 DEF Next, Client

LEMMA LabelInvariance == Spec => []LabelInv
  BY InitLabels, NextLabels, TypeInvariance, PTL DEF Spec

\* For any labels and pages of any size, labels nobody touches during the fetch
\* are collected completely, once each and in Jira's order.
THEOREM QuietFetchIsExact == Spec => []QuietLabelsExact
  <1>1. TypeInv /\ LabelInv => QuietLabelsExact
    <2> SUFFICES ASSUME TypeInv, LabelInv, PastLabels, changes.added = 0, changes.removed = 0
                 PROVE  labels = changes.start
      BY DEF QuietLabelsExact
    <2>1. labels \in Seq(Labels) /\ changes.start \in Seq(Labels)
      BY LabelListIsDistinct DEF TypeInv, TypeOK
    <2>2. /\ Len(labels) = Len(changes.start)
          /\ \A j \in 1 .. Len(labels) : labels[j] = changes.start[j]
      BY DEF LabelInv, QuietInv
    <2> QED
      BY <2>1, <2>2, SeqEqual
  <1> QED
    BY <1>1, LabelInvariance, TypeInvariance, PTL

\* For any labels, pages and number of changes, labels that are only added hide
\* none of those there were, and labels that are only removed double none.
THEOREM ShiftsAreBounded == Spec => []LabelShifts
  <1>1. LabelInv => LabelShifts
    BY DEF LabelInv, NoneTwice, NoneMissed, LabelShifts
  <1> QED
    BY <1>1, LabelInvariance, PTL
=============================================================================
