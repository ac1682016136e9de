--------------------------- MODULE InvitesProofs ---------------------------
(* What holds of Invites for any number of calls, links and retries and any *)
(* set of faults.                                                           *)
EXTENDS Invites, FiniteSetTheorems, TLAPS

-----------------------------------------------------------------------------
(* Types.                                                                   *)

LEMMA InitTypeOK == Init => TypeOK
  BY EarlierAssumption, MailRetriesAssumption
     DEF Init, TypeOK, CreateOpen, CreateAnswers

LEMMA NextTypeOK == TypeOK /\ [Next]_vars => TypeOK'
  <1> SUFFICES ASSUME TypeOK, [Next]_vars PROVE TypeOK'
    OBVIOUS
  <1> USE MailRetriesAssumption
      DEF TypeOK, CreateOpen, CreateAnswers, AcceptOpen, AcceptAnswers, Transactions,
          mailVars, CreateGoto, AcceptGoto, Unlock, SetUsed, Committed
  <1>1. ASSUME NEW c \in Invitations, CreateStep(c) PROVE TypeOK'
    <2>1. CASE CreateBegin(c)
      BY <2>1 DEF CreateBegin
    <2>2. CASE CreateCheck(c)
      BY <2>2 DEF CreateCheck
    <2>3. CASE CreateInvalidate(c)
      BY <2>3 DEF CreateInvalidate
    <2>4. CASE CreateMark(c)
      BY <2>4 DEF CreateMark
    <2>5. CASE CreateInsert(c)
      BY <2>5 DEF CreateInsert
    <2>6. CASE CreatePublish(c)
      BY <2>6 DEF CreatePublish
    <2>7. CASE CreateCommit(c)
      BY <2>7 DEF CreateCommit
    <2>8. CASE CreateRefused(c)
      BY <2>8 DEF CreateRefused
    <2> QED
      BY <1>1, <2>1, <2>2, <2>3, <2>4, <2>5, <2>6, <2>7, <2>8 DEF CreateStep
  <1>2. ASSUME NEW c \in Invitations, CreateFault(c) PROVE TypeOK'
    BY <1>2 DEF CreateFault
  <1>3. ASSUME NEW m \in Invitations, MailStep(m) \/ MailLost(m) PROVE TypeOK'
    BY <1>3 DEF MailStep, MailSend, MailFail, MailLost, MailRun, MailEnds
  <1>4. ASSUME NEW a \in Acceptances, AcceptStep(a) PROVE TypeOK'
    <2>1. CASE AcceptRead(a)
      BY <2>1 DEF AcceptRead
    <2>2. CASE AcceptFindMember(a)
      BY <2>2 DEF AcceptFindMember
    <2>3. CASE AcceptInsert(a)
      BY <2>3 DEF AcceptInsert
    <2>4. CASE AcceptMark(a)
      BY <2>4 DEF AcceptMark
    <2>5. CASE AcceptCommit(a)
      BY <2>5 DEF AcceptCommit
    <2>6. CASE AcceptRefused(a)
      BY <2>6 DEF AcceptRefused
    <2> QED
      BY <1>4, <2>1, <2>2, <2>3, <2>4, <2>5, <2>6 DEF AcceptStep
  <1>5. ASSUME NEW a \in Acceptances, AcceptFault(a) PROVE TypeOK'
    BY <1>5 DEF AcceptFault
  <1>6. CASE DeleteWorkspace
    BY <1>6 DEF DeleteWorkspace
  <1>7. CASE UNCHANGED vars
    BY <1>7 DEF vars
  <1> QED
    BY <1>1, <1>2, <1>3, <1>4, <1>5, <1>6, <1>7 DEF Next

\* Every variable keeps its type; no message is retried more than max_retries times.
THEOREM TypeCorrect == Spec => []TypeOK
  BY InitTypeOK, NextTypeOK, PTL DEF Spec

-----------------------------------------------------------------------------
(* Locks and rows.                                                          *)

\* A transaction holds locks only between its first write and its end, and an
\* acceptance those of its own invite alone.
MarksHeldByOpen ==
    /\ \A c \in Invitations : marks[c] # {} => call[c] \in {"marking", "inserted", "published"}
    /\ \A a \in Acceptances :
           /\ accept[a].at \in {"joined", "found"} => marks[a] = {accept[a].invite}
           /\ accept[a].at \notin {"joined", "found"} => marks[a] = {}

\* No row is locked twice, or locked without being there.
MarksExclusive ==
    /\ \A x, y \in Transactions : x # y => marks[x] \cap marks[y] = {}
    /\ \A x \in Transactions : \A i \in marks[x] : row[i] # "none"

\* Only the COMMIT of its own call makes an invite's row.
RowsAreCreated == \A i \in Invitations : row[i] # "none" => call[i] = "created"

LockInv == MarksHeldByOpen /\ MarksExclusive /\ RowsAreCreated

LEMMA InitLockInv == Init => LockInv
  BY EarlierAssumption, DisjointCallsAssumption
     DEF Init, LockInv, MarksHeldByOpen, MarksExclusive, RowsAreCreated, Transactions

LEMMA NextLockInv == TypeOK /\ LockInv /\ [Next]_vars => LockInv'
  <1> SUFFICES ASSUME TypeOK, LockInv, [Next]_vars PROVE LockInv'
    OBVIOUS
  <1> USE DisjointCallsAssumption
      DEF TypeOK, CreateOpen, CreateAnswers, AcceptOpen, AcceptAnswers, Transactions,
          LockInv, MarksHeldByOpen, MarksExclusive, RowsAreCreated,
          mailVars, CreateGoto, AcceptGoto, Unlock, SetUsed, Locked, Committed
  <1>1. ASSUME NEW c \in Invitations, CreateStep(c) PROVE LockInv'
    <2>1. CASE CreateBegin(c)
      <3>1. PICK next \in {"begun", "rejected"} : CreateGoto(c, next)
        BY <2>1 DEF CreateBegin
      <3> QED
        BY <2>1, <3>1 DEF CreateBegin
    <2>2. CASE CreateCheck(c)
      BY <2>2 DEF CreateCheck
    <2>3. CASE CreateInvalidate(c)
      BY <2>3 DEF CreateInvalidate
    <2>4. CASE CreateMark(c)
      BY <2>4 DEF CreateMark
    <2>5. CASE CreateInsert(c)
      BY <2>5 DEF CreateInsert
    <2>6. CASE CreatePublish(c)
      BY <2>6 DEF CreatePublish
    <2>7. CASE CreateCommit(c)
      BY <2>7 DEF CreateCommit
    <2>8. CASE CreateRefused(c)
      BY <2>8 DEF CreateRefused
    <2> QED
      BY <1>1, <2>1, <2>2, <2>3, <2>4, <2>5, <2>6, <2>7, <2>8 DEF CreateStep
  <1>2. ASSUME NEW c \in Invitations, CreateFault(c) PROVE LockInv'
    BY <1>2 DEF CreateFault
  <1>3. ASSUME NEW m \in Invitations, MailStep(m) \/ MailLost(m) PROVE LockInv'
    BY <1>3 DEF MailStep, MailSend, MailFail, MailLost, MailRun
  <1>4. ASSUME NEW a \in Acceptances, AcceptStep(a) PROVE LockInv'
    <2>1. CASE AcceptRead(a)
      BY <2>1 DEF AcceptRead
    <2>2. CASE AcceptFindMember(a)
      BY <2>2 DEF AcceptFindMember
    <2>3. CASE AcceptInsert(a)
      BY <2>3 DEF AcceptInsert
    <2>4. CASE AcceptMark(a)
      BY <2>4 DEF AcceptMark
    <2>5. CASE AcceptCommit(a)
      BY <2>5 DEF AcceptCommit
    <2>6. CASE AcceptRefused(a)
      BY <2>6 DEF AcceptRefused
    <2> QED
      BY <1>4, <2>1, <2>2, <2>3, <2>4, <2>5, <2>6 DEF AcceptStep
  <1>5. ASSUME NEW a \in Acceptances, AcceptFault(a) PROVE LockInv'
    BY <1>5 DEF AcceptFault
  <1>6. CASE DeleteWorkspace
    BY <1>6 DEF DeleteWorkspace
  <1>7. CASE UNCHANGED vars
    BY <1>7 DEF vars
  <1> QED
    BY <1>1, <1>2, <1>3, <1>4, <1>5, <1>6, <1>7 DEF Next

-----------------------------------------------------------------------------
(* One membership.                                                          *)

\* Who is a member has accepted, and used the invite it names.
MembersHaveAccepted ==
    \A a \in members : accept[a].at = "accepted" /\ row[accept[a].invite] = "used"

\* The unique key of the membership: it is committed, or one transaction has it.
MembershipIsUnique ==
    /\ \A a, b \in members : a = b
    /\ \A a, b \in Acceptances : HoldsMembership(a) /\ HoldsMembership(b) => a = b
    /\ \A a \in Acceptances : HoldsMembership(a) => members = {}

MemberInv == MembersHaveAccepted /\ MembershipIsUnique

LEMMA InitMemberInv == Init => MemberInv
  BY DEF Init, MemberInv, MembersHaveAccepted, MembershipIsUnique, HoldsMembership

LEMMA NextMemberInv == TypeOK /\ LockInv /\ MemberInv /\ [Next]_vars => MemberInv'
  <1> SUFFICES ASSUME TypeOK, LockInv, MemberInv, [Next]_vars PROVE MemberInv'
    OBVIOUS
  <1> USE DisjointCallsAssumption
      DEF TypeOK, CreateOpen, CreateAnswers, AcceptOpen, AcceptAnswers, Transactions,
          LockInv, MarksHeldByOpen, MarksExclusive, RowsAreCreated,
          MemberInv, MembersHaveAccepted, MembershipIsUnique, HoldsMembership,
          mailVars, CreateGoto, AcceptGoto, Unlock, SetUsed, Locked, Committed
  <1>1. ASSUME NEW c \in Invitations, CreateStep(c) PROVE MemberInv'
    <2>1. CASE CreateCommit(c)
      BY <2>1 DEF CreateCommit
    <2>2. CASE UNCHANGED <<row, members, accept>>
      BY <2>2
    <2> QED
      BY <1>1, <2>1, <2>2
         DEF CreateStep, CreateBegin, CreateCheck, CreateInvalidate, CreateMark, CreateInsert,
             CreatePublish, CreateRefused
  <1>2. ASSUME NEW c \in Invitations, CreateFault(c) PROVE MemberInv'
    BY <1>2 DEF CreateFault
  <1>3. ASSUME NEW m \in Invitations, MailStep(m) \/ MailLost(m) PROVE MemberInv'
    BY <1>3 DEF MailStep, MailSend, MailFail, MailLost, MailRun
  <1>4. ASSUME NEW a \in Acceptances, AcceptStep(a) PROVE MemberInv'
    <2>1. CASE AcceptRead(a)
      BY <2>1 DEF AcceptRead
    <2>2. CASE AcceptFindMember(a)
      BY <2>2 DEF AcceptFindMember
    <2>3. CASE AcceptInsert(a)
      BY <2>3 DEF AcceptInsert
    <2>4. CASE AcceptMark(a)
      BY <2>4 DEF AcceptMark
    <2>5. CASE AcceptCommit(a)
      BY <2>5 DEF AcceptCommit
    <2>6. CASE AcceptRefused(a)
      BY <2>6 DEF AcceptRefused
    <2> QED
      BY <1>4, <2>1, <2>2, <2>3, <2>4, <2>5, <2>6 DEF AcceptStep
  <1>5. ASSUME NEW a \in Acceptances, AcceptFault(a) PROVE MemberInv'
    BY <1>5 DEF AcceptFault
  <1>6. CASE DeleteWorkspace
    BY <1>6 DEF DeleteWorkspace
  <1>7. CASE UNCHANGED vars
    BY <1>7 DEF vars
  <1> QED
    BY <1>1, <1>2, <1>3, <1>4, <1>5, <1>6, <1>7 DEF Next

\* A set whose elements are all equal has at most one.
LEMMA AtMostOneElement ==
    ASSUME NEW S, \A a, b \in S : a = b
    PROVE  Cardinality(S) <= 1
  <1>1. CASE S = {}
    BY <1>1, FS_EmptySet
  <1>2. CASE S # {}
    <2>1. PICK a \in S : S = {a}
      BY <1>2
    <2> QED
      BY <2>1, FS_Singleton
  <1> QED
    BY <1>1, <1>2

\* However many links there are and however their acceptances overlap.
THEOREM MembershipIsSingle == Spec => []OneMembershipPerUser
  <1>1. MemberInv => OneMembershipPerUser
    BY AtMostOneElement DEF MemberInv, MembersHaveAccepted, MembershipIsUnique,
                            OneMembershipPerUser
  <1> QED
    BY <1>1, InitTypeOK, NextTypeOK, InitLockInv, NextLockInv, InitMemberInv, NextMemberInv,
       PTL DEF Spec

-----------------------------------------------------------------------------
(* The way in.                                                              *)

\* An acceptance that found a membership still finds it, unless the workspace
\* went with it.
FoundIsMember ==
    workspace => \A a \in Acceptances : accept[a].at \in {"existing", "found"} => members # {}

WayInInv == FoundIsMember /\ InviteeHasAWayIn

LEMMA InitWayInInv == Init => WayInInv
  BY EarlierAssumption DEF Init, WayInInv, FoundIsMember, InviteeHasAWayIn

LEMMA NextWayInInv == TypeOK /\ LockInv /\ WayInInv /\ [Next]_vars => WayInInv'
  <1> SUFFICES ASSUME TypeOK, LockInv, WayInInv, [Next]_vars PROVE WayInInv'
    OBVIOUS
  <1> USE DEF TypeOK, CreateOpen, CreateAnswers, AcceptOpen, AcceptAnswers, Transactions,
              LockInv, MarksHeldByOpen, WayInInv, FoundIsMember, InviteeHasAWayIn,
              HoldsMembership, mailVars, CreateGoto, AcceptGoto, Unlock, SetUsed, Committed
  <1>1. ASSUME NEW c \in Invitations, CreateStep(c) PROVE WayInInv'
    <2>1. CASE CreateBegin(c)
      <3>1. PICK next \in {"begun", "rejected"} : CreateGoto(c, next)
        BY <2>1 DEF CreateBegin
      <3> QED
        BY <2>1, <3>1 DEF CreateBegin
    <2>2. CASE CreateCheck(c)
      BY <2>2 DEF CreateCheck
    <2>3. CASE CreateCommit(c)
      <3>1. row'[c] = "pending"
        BY <2>3 DEF CreateCommit
      <3> QED
        BY <2>3, <3>1 DEF CreateCommit
    <2>4. CASE /\ UNCHANGED <<workspace, row, members, accept>>
               /\ call' = call \/ \E next \in CreateOpen \cup {"failed"} : CreateGoto(c, next)
      BY <2>4
    <2> QED
      BY <1>1, <2>1, <2>2, <2>3, <2>4
         DEF CreateStep, CreateInvalidate, CreateMark, CreateInsert, CreatePublish, CreateRefused
  <1>2. ASSUME NEW c \in Invitations, CreateFault(c) PROVE WayInInv'
    BY <1>2 DEF CreateFault
  <1>3. ASSUME NEW m \in Invitations, MailStep(m) \/ MailLost(m) PROVE WayInInv'
    BY <1>3 DEF MailStep, MailSend, MailFail, MailLost, MailRun
  <1>4. ASSUME NEW a \in Acceptances, AcceptStep(a) PROVE WayInInv'
    <2>1. CASE AcceptRead(a)
      BY <2>1 DEF AcceptRead
    <2>2. CASE AcceptFindMember(a)
      BY <2>2 DEF AcceptFindMember
    <2>3. CASE AcceptInsert(a)
      BY <2>3 DEF AcceptInsert
    <2>4. CASE AcceptMark(a)
      BY <2>4 DEF AcceptMark
    <2>5. CASE AcceptCommit(a)
      <3>1. members' # {}
        BY <2>5 DEF AcceptCommit
      <3> QED
        BY <2>5, <3>1 DEF AcceptCommit
    <2>6. CASE AcceptRefused(a)
      BY <2>6 DEF AcceptRefused
    <2> QED
      BY <1>4, <2>1, <2>2, <2>3, <2>4, <2>5, <2>6 DEF AcceptStep
  <1>5. ASSUME NEW a \in Acceptances, AcceptFault(a) PROVE WayInInv'
    BY <1>5 DEF AcceptFault
  <1>6. CASE DeleteWorkspace
    BY <1>6 DEF DeleteWorkspace
  <1>7. CASE UNCHANGED vars
    BY <1>7 DEF vars
  <1> QED
    BY <1>1, <1>2, <1>3, <1>4, <1>5, <1>6, <1>7 DEF Next

\* No failed re-invite or acceptance takes the invited user's way in.
THEOREM WayInIsKept == Spec => []InviteeHasAWayIn
  <1>1. WayInInv => InviteeHasAWayIn
    BY DEF WayInInv
  <1> QED
    BY <1>1, InitTypeOK, NextTypeOK, InitLockInv, NextLockInv, InitWayInInv, NextWayInInv,
       PTL DEF Spec

-----------------------------------------------------------------------------
(* Superseded invites.                                                      *)

\* A re-invite sees only invites already created, which its INSERT finds
\* used, gone or among those it has marked.
SeenIsSuperseded ==
    \A j \in Invitations :
        /\ \A i \in seen[j] : call[i] = "created" /\ i # j
        /\ call[j] \in {"inserted", "published"} =>
               \A i \in seen[j] : row[i] # "pending" \/ i \in marks[j]
        /\ call[j] = "created" => \A i \in seen[j] : row[i] # "pending"

LEMMA InitSeenIsSuperseded == Init => SeenIsSuperseded
  BY DEF Init, SeenIsSuperseded

LEMMA NextSeenIsSuperseded ==
    TypeOK /\ LockInv /\ SeenIsSuperseded /\ [Next]_vars => SeenIsSuperseded'
  <1> SUFFICES ASSUME TypeOK, LockInv, SeenIsSuperseded, [Next]_vars PROVE SeenIsSuperseded'
    OBVIOUS
  <1> USE DisjointCallsAssumption
      DEF TypeOK, CreateOpen, CreateAnswers, AcceptOpen, AcceptAnswers, Transactions,
          LockInv, MarksHeldByOpen, MarksExclusive, RowsAreCreated, SeenIsSuperseded,
          mailVars, CreateGoto, AcceptGoto, Unlock, SetUsed, Locked, Committed
  <1>1. ASSUME NEW c \in Invitations, CreateStep(c) PROVE SeenIsSuperseded'
    <2>1. CASE CreateBegin(c)
      <3>1. PICK next \in {"begun", "rejected"} : CreateGoto(c, next)
        BY <2>1 DEF CreateBegin
      <3> QED
        BY <2>1, <3>1 DEF CreateBegin
    <2>2. CASE CreateCheck(c)
      BY <2>2 DEF CreateCheck
    <2>3. CASE CreateInvalidate(c)
      BY <2>3 DEF CreateInvalidate
    <2>4. CASE CreateMark(c)
      BY <2>4 DEF CreateMark
    <2>5. CASE CreateInsert(c)
      BY <2>5 DEF CreateInsert
    <2>6. CASE CreatePublish(c)
      BY <2>6 DEF CreatePublish
    <2>7. CASE CreateCommit(c)
      BY <2>7 DEF CreateCommit
    <2>8. CASE CreateRefused(c)
      BY <2>8 DEF CreateRefused
    <2> QED
      BY <1>1, <2>1, <2>2, <2>3, <2>4, <2>5, <2>6, <2>7, <2>8 DEF CreateStep
  <1>2. ASSUME NEW c \in Invitations, CreateFault(c) PROVE SeenIsSuperseded'
    BY <1>2 DEF CreateFault
  <1>3. ASSUME NEW m \in Invitations, MailStep(m) \/ MailLost(m) PROVE SeenIsSuperseded'
    BY <1>3 DEF MailStep, MailSend, MailFail, MailLost, MailRun
  <1>4. ASSUME NEW a \in Acceptances, AcceptStep(a) PROVE SeenIsSuperseded'
    <2>1. CASE AcceptMark(a)
      BY <2>1 DEF AcceptMark
    <2>2. CASE AcceptCommit(a)
      BY <2>2 DEF AcceptCommit
    <2>3. CASE UNCHANGED <<row, call, seen, marks>>
      BY <2>3
    <2> QED
      BY <1>4, <2>1, <2>2, <2>3
         DEF AcceptStep, AcceptRead, AcceptFindMember, AcceptInsert, AcceptRefused
  <1>5. ASSUME NEW a \in Acceptances, AcceptFault(a) PROVE SeenIsSuperseded'
    BY <1>5 DEF AcceptFault
  <1>6. CASE DeleteWorkspace
    BY <1>6 DEF DeleteWorkspace
  <1>7. CASE UNCHANGED vars
    BY <1>7 DEF vars
  <1> QED
    BY <1>1, <1>2, <1>3, <1>4, <1>5, <1>6, <1>7 DEF Next

\* Two invites are pending together only if neither could see the other.
THEOREM ReinviteSupersedes == Spec => []PendingTogetherOnlyByRace
  <1>1. TypeOK /\ LockInv /\ SeenIsSuperseded => PendingTogetherOnlyByRace
    BY DEF TypeOK, LockInv, RowsAreCreated, SeenIsSuperseded, PendingTogetherOnlyByRace
  <1> QED
    BY <1>1, InitTypeOK, NextTypeOK, InitLockInv, NextLockInv,
       InitSeenIsSuperseded, NextSeenIsSuperseded, PTL DEF Spec

-----------------------------------------------------------------------------
(* Mails.                                                                   *)

LEMMA InitMails == Init => OnlyCreatedInvitesAreMailed
  BY EarlierAssumption DEF Init, OnlyCreatedInvitesAreMailed

LEMMA NextMails ==
    TypeOK /\ LockInv /\ OnlyCreatedInvitesAreMailed /\ [Next]_vars
        => OnlyCreatedInvitesAreMailed'
  <1> SUFFICES ASSUME TypeOK, LockInv, OnlyCreatedInvitesAreMailed, [Next]_vars
               PROVE OnlyCreatedInvitesAreMailed'
    OBVIOUS
  <1> USE DEF TypeOK, LockInv, RowsAreCreated, OnlyCreatedInvitesAreMailed, mailVars
  <1>1. ASSUME NEW c \in Invitations, CreateStep(c) \/ CreateFault(c)
        PROVE OnlyCreatedInvitesAreMailed'
    <2>1. CASE CreatePublish(c)
      BY <2>1 DEF CreatePublish, CreateGoto
    <2>2. CASE mail' = mail /\ call[c] # "created" /\ \E next : CreateGoto(c, next)
      BY <2>2 DEF CreateGoto
    <2>3. CASE UNCHANGED <<mail, call>>
      BY <2>3
    <2> QED
      BY <1>1, <2>1, <2>2, <2>3
         DEF CreateStep, CreateFault, CreateBegin, CreateCheck, CreateInvalidate, CreateMark,
             CreateInsert, CreateCommit, CreateRefused, CreateOpen
  <1>2. ASSUME NEW m \in Invitations, MailStep(m) \/ MailLost(m)
        PROVE OnlyCreatedInvitesAreMailed'
    BY <1>2 DEF MailStep, MailSend, MailFail, MailLost, MailRun, MailEnds
  <1>3. ASSUME NEW a \in Acceptances, AcceptStep(a) \/ AcceptFault(a)
        PROVE OnlyCreatedInvitesAreMailed'
    BY <1>3 DEF AcceptStep, AcceptFault, AcceptRead, AcceptFindMember, AcceptInsert,
                AcceptMark, AcceptCommit, AcceptRefused
  <1>4. CASE DeleteWorkspace
    BY <1>4 DEF DeleteWorkspace
  <1>5. CASE UNCHANGED vars
    BY <1>5 DEF vars
  <1> QED
    BY <1>1, <1>2, <1>3, <1>4, <1>5 DEF Next

\* The message published inside the transaction does nothing before its COMMIT.
THEOREM MailFollowsCommit == Spec => []OnlyCreatedInvitesAreMailed
  BY InitTypeOK, NextTypeOK, InitLockInv, NextLockInv, InitMails, NextMails, PTL DEF Spec

-----------------------------------------------------------------------------
(* Steps.                                                                   *)

LEMMA NextMembership ==
    MemberInv /\ [Next]_vars => [members # {} => members' = members \/ ~workspace']_vars
  <1> SUFFICES ASSUME MemberInv, Next, members # {}
               PROVE  members' = members \/ ~workspace'
    OBVIOUS
  <1>1. ASSUME NEW a \in Acceptances, AcceptStep(a) PROVE members' = members
    <2>1. CASE AcceptCommit(a)
      BY <2>1 DEF AcceptCommit, MemberInv, MembershipIsUnique
    <2> QED
      BY <1>1, <2>1
         DEF AcceptStep, AcceptRead, AcceptFindMember, AcceptInsert, AcceptMark, AcceptRefused
  <1>2. ASSUME NEW c \in Invitations, CreateStep(c) \/ CreateFault(c) PROVE members' = members
    BY <1>2 DEF CreateStep, CreateFault, CreateBegin, CreateCheck, CreateInvalidate, CreateMark,
                CreateInsert, CreatePublish, CreateCommit, CreateRefused
  <1>3. ASSUME NEW m \in Invitations, MailStep(m) \/ MailLost(m) PROVE members' = members
    BY <1>3 DEF MailStep, MailSend, MailFail, MailLost, MailRun
  <1>4. ASSUME NEW a \in Acceptances, AcceptFault(a) PROVE members' = members
    BY <1>4 DEF AcceptFault
  <1>5. CASE DeleteWorkspace
    BY <1>5 DEF DeleteWorkspace
  <1> QED
    BY <1>1, <1>2, <1>3, <1>4, <1>5 DEF Next

\* No invite accepted later replaces a membership.
THEOREM MembershipStays == Spec => MembershipIsKept
  BY InitTypeOK, NextTypeOK, InitLockInv, NextLockInv, InitMemberInv, NextMemberInv,
     NextMembership, PTL DEF Spec, MembershipIsKept
=============================================================================
