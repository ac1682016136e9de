--------------------------- MODULE AccountsProofs ---------------------------
(* What holds of Accounts for any number of registrations, resets and their *)
(* links, any max_retries and any set of faults.                            *)
EXTENDS Accounts, TLAPS

-----------------------------------------------------------------------------
(* Types.                                                                   *)

\* Who follows a link has read one of its own kind.
UsesHaveLink ==
    \A u \in Uses : call[u] \in Using =>
        use[u].link \in IF u \in Verifications THEN Registrations ELSE ResetRequests

TypeInv == TypeOK /\ UsesHaveLink

LEMMA InitTypeInv == Init => TypeInv
  <1> SUFFICES ASSUME Init PROVE TypeInv
    OBVIOUS
  <1>1. user \in UserRows /\ NoUser \in UserRows
    BY DEF Init, UserRows, NoUser, Passwords
  <1>2. use \in [Uses -> [link : Links \cup {"none"}, user : UserRows]]
    BY <1>1 DEF Init
  <1>3. /\ link \in [Links -> {"none", "pending", "used"}]
        /\ mail \in [Links -> {"none", "queued", "sent", "dropped"}]
        /\ retries \in [Links -> 0 .. MaxMailRetries]
    BY MailRetriesAssumption DEF Init
  <1>4. call \in [Calls -> {"idle"} \cup Open \cup Answers] /\ UsesHaveLink
    BY DEF Init, UsesHaveLink, Using, Calls
  <1> QED
    BY <1>1, <1>2, <1>3, <1>4 DEF Init, TypeInv, TypeOK

LEMMA NextTypeInv == TypeInv /\ [Next]_vars => TypeInv'
  <1> SUFFICES ASSUME TypeInv, [Next]_vars PROVE TypeInv'
    OBVIOUS
  <1> USE MailRetriesAssumption, DistinctCallsAssumption
      DEF TypeInv, TypeOK, UsesHaveLink, UserRows, Passwords, Links, Uses, Calls,
          Registering, Issuing, Using, Open, Answers, Goto, mailVars
  <1>1. ASSUME NEW r \in Registrations, RegisterStep(r) PROVE TypeInv'
    <2>1. CASE RegisterValidate(r)
      BY <2>1 DEF RegisterValidate
    <2>2. CASE RegisterUser(r)
      BY <2>2 DEF RegisterUser
    <2>3. CASE RegisterDuplicate(r)
      BY <2>3 DEF RegisterDuplicate
    <2>4. CASE RegisterProfile(r)
      BY <2>4 DEF RegisterProfile
    <2> QED
      BY <1>1, <2>1, <2>2, <2>3, <2>4 DEF RegisterStep
  <1>2. ASSUME NEW q \in ResetRequests, ResetFind(q) PROVE TypeInv'
    BY <1>2 DEF ResetFind
  <1>3. ASSUME NEW x \in Links, LinkStep(x) PROVE TypeInv'
    <2>1. CASE LinkInvalidate(x)
      BY <2>1 DEF LinkInvalidate
    <2>2. CASE LinkInsert(x)
      BY <2>2 DEF LinkInsert
    <2>3. CASE LinkPublish(x)
      BY <2>3 DEF LinkPublish
    <2>4. CASE LinkAnswer(x)
      BY <2>4 DEF LinkAnswer
    <2> QED
      BY <1>3, <2>1, <2>2, <2>3, <2>4 DEF LinkStep
  <1>4. ASSUME NEW m \in Links, MailStep(m) \/ MailLost(m) PROVE TypeInv'
    BY <1>4 DEF MailStep, MailSend, MailFail, MailLost, MailRun, MailEnds
  <1>5. ASSUME NEW u \in Uses, UseStep(u) PROVE TypeInv'
    <2>1. CASE UseRead(u)
      BY <2>1 DEF UseRead, LinksFor
    <2>2. CASE UseApply(u)
      BY <2>2 DEF UseApply
    <2>3. CASE UseConsume(u)
      BY <2>3 DEF UseConsume
    <2>4. CASE UseAnswer(u)
      BY <2>4 DEF UseAnswer
    <2> QED
      BY <1>5, <2>1, <2>2, <2>3, <2>4 DEF UseStep
  <1>6. ASSUME NEW x \in Calls, Crash(x) PROVE TypeInv'
    BY <1>6 DEF Crash
  <1>7. CASE UNCHANGED vars
    BY <1>7 DEF vars
  <1> QED
    BY <1>1, <1>2, <1>3, <1>4, <1>5, <1>6, <1>7 DEF Next

\* Every variable keeps its type; no message is retried more than max_retries times.
THEOREM TypeCorrect == Spec => []TypeOK
  <1>1. TypeInv => TypeOK
    BY DEF TypeInv
  <1> QED
    BY <1>1, InitTypeInv, NextTypeInv, PTL DEF Spec

-----------------------------------------------------------------------------
(* One account.                                                             *)

\* r has created the account and has not failed.
Registered(r) == call[r] \in {"created"} \cup Issuing \cup {"answered"}

\* Nothing belongs to an account before there is one.
NothingBeforeUser ==
    /\ user.active => user.exists
    /\ \A r \in Registrations : Registered(r) => user.exists
    /\ \A q \in ResetRequests : call[q] \in Issuing => user.exists
    /\ \A l \in Links : link[l] # "none" => user.exists
    /\ \A l \in Links : mail[l] # "none" => link[l] # "none"
    /\ \A l \in Links : call[l] \in {"linked", "published"} => link[l] # "none"
    /\ \A u \in Uses : call[u] \in Using => user.exists /\ link[use[u].link] # "none"

\* One registration has created the account and, once it has one, its link.
OneOwner ==
    /\ \A r, s \in Registrations :
           (Registered(r) \/ link[r] # "none") /\ (Registered(s) \/ link[s] # "none") => r = s
    /\ \A r \in Registrations :
           /\ call[r] \in {"idle", "validated", "created", "ready", "invalidated"}
                  => link[r] = "none" /\ mail[r] = "none"
           /\ Registered(r) => user.password \in {r} \cup Confirmations

\* What a registration that goes on has done so far.
Progress ==
    \A r \in Registrations :
        /\ call[r] \in Issuing \cup {"answered"} => profile
        /\ call[r] \in {"linked", "published", "answered"} => link[r] # "none"
        /\ call[r] \in {"published", "answered"} => mail[r] # "none"

OwnerInv == NothingBeforeUser /\ OneOwner /\ Progress

LEMMA InitOwnerInv == Init => OwnerInv
  BY DEF Init, OwnerInv, NothingBeforeUser, OneOwner, Progress, Registered, NoUser,
         Links, Uses, Calls, Issuing, Using

LEMMA NextOwnerInv == TypeInv /\ OwnerInv /\ [Next]_vars => OwnerInv'
  <1> SUFFICES ASSUME TypeInv, OwnerInv, [Next]_vars PROVE OwnerInv'
    OBVIOUS
  <1> USE DistinctCallsAssumption
      DEF TypeInv, TypeOK, UsesHaveLink, UserRows, Links, Uses, Calls,
          OwnerInv, NothingBeforeUser, OneOwner, Progress, Registered,
          Registering, Issuing, Using, Open, Answers, Goto, mailVars
  <1>1. ASSUME NEW r \in Registrations, RegisterStep(r) PROVE OwnerInv'
    <2>1. CASE RegisterValidate(r)
      BY <2>1 DEF RegisterValidate
    <2>2. CASE RegisterUser(r)
      BY <2>2 DEF RegisterUser
    <2>3. CASE RegisterDuplicate(r)
      BY <2>3 DEF RegisterDuplicate
    <2>4. CASE RegisterProfile(r)
      BY <2>4 DEF RegisterProfile
    <2> QED
      BY <1>1, <2>1, <2>2, <2>3, <2>4 DEF RegisterStep
  <1>2. ASSUME NEW q \in ResetRequests, ResetFind(q) PROVE OwnerInv'
    BY <1>2 DEF ResetFind
  <1>3. ASSUME NEW x \in Links, LinkStep(x) PROVE OwnerInv'
    <2>1. CASE LinkInvalidate(x)
      BY <2>1 DEF LinkInvalidate
    <2>2. CASE LinkInsert(x)
      BY <2>2 DEF LinkInsert
    <2>3. CASE LinkPublish(x)
      BY <2>3 DEF LinkPublish
    <2>4. CASE LinkAnswer(x)
      BY <2>4 DEF LinkAnswer
    <2> QED
      BY <1>3, <2>1, <2>2, <2>3, <2>4 DEF LinkStep
  <1>4. ASSUME NEW m \in Links, MailStep(m) \/ MailLost(m) PROVE OwnerInv'
    BY <1>4 DEF MailStep, MailSend, MailFail, MailLost, MailRun, MailEnds
  <1>5. ASSUME NEW u \in Uses, UseStep(u) PROVE OwnerInv'
    <2>1. CASE UseRead(u)
      <3>1. PICK l \in Links, next \in {"read", "rejected"} :
                /\ mail[l] = "sent" /\ call' = [call EXCEPT ![u] = next]
                /\ use' = [use EXCEPT ![u] = [link |-> l, user |-> user]]
        BY <2>1 DEF UseRead, LinksFor
      <3>2. user.exists /\ link[l] # "none" /\ u \notin Links
        BY <3>1
      <3>3. use'[u].link = l /\ \A v \in Uses \ {u} : use'[v] = use[v]
        BY <3>1
      <3>4. UNCHANGED <<user, profile, link, mail>>
        BY <2>1 DEF UseRead
      <3> QED
        BY <3>1, <3>2, <3>3, <3>4
    <2>2. CASE UseApply(u)
      BY <2>2 DEF UseApply
    <2>3. CASE UseConsume(u)
      <3>1. use[u].link \in Links /\ link[use[u].link] # "none" /\ u \notin Links
        BY <2>3 DEF UseConsume
      <3> QED
        BY <2>3, <3>1 DEF UseConsume
    <2>4. CASE UseAnswer(u)
      BY <2>4 DEF UseAnswer
    <2> QED
      BY <1>5, <2>1, <2>2, <2>3, <2>4 DEF UseStep
  <1>6. ASSUME NEW x \in Calls, Crash(x) PROVE OwnerInv'
    BY <1>6 DEF Crash
  <1>7. CASE UNCHANGED vars
    BY <1>7 DEF vars
  <1> QED
    BY <1>1, <1>2, <1>3, <1>4, <1>5, <1>6, <1>7 DEF Next

\* Of overlapping registrations one at most is answered 201, and it is complete.
THEOREM RegistrationIsComplete == Spec => []RegisteredIsComplete
  <1>1. OwnerInv => RegisteredIsComplete
    BY DEF OwnerInv, NothingBeforeUser, OneOwner, Progress, Registered, RegisteredIsComplete,
           Issuing
  <1> QED
    BY <1>1, InitTypeInv, NextTypeInv, InitOwnerInv, NextOwnerInv, PTL DEF Spec

-----------------------------------------------------------------------------
(* Inactive accounts.                                                       *)

\* Nothing but a verification uses up the link that verifies the account.
UsedByVerification ==
    /\ \A r \in Registrations : link[r] = "used" => user.active
    /\ \A u \in Verifications : call[u] \in {"applied", "consumed"} => user.active

InactiveInv == UsedByVerification /\ InactiveHasCause

LEMMA InitInactiveInv == Init => InactiveInv
  BY DEF Init, InactiveInv, UsedByVerification, InactiveHasCause, NoUser, Links, Uses, Calls

LEMMA NextInactiveInv ==
    TypeInv /\ OwnerInv /\ InactiveInv /\ [Next]_vars => InactiveInv'
  <1> SUFFICES ASSUME TypeInv, OwnerInv, InactiveInv, [Next]_vars PROVE InactiveInv'
    OBVIOUS
  <1> USE DistinctCallsAssumption
      DEF TypeInv, TypeOK, UsesHaveLink, UserRows, Links, Uses, Calls,
          OwnerInv, NothingBeforeUser, OneOwner, Progress, Registered,
          InactiveInv, UsedByVerification, InactiveHasCause, OnTheWay, Undelivered,
          Registering, Issuing, Using, Open, Answers, Goto, mailVars
  <1>1. ASSUME NEW r \in Registrations, RegisterStep(r) PROVE InactiveInv'
    <2>1. CASE RegisterValidate(r)
      BY <2>1 DEF RegisterValidate
    <2>2. CASE RegisterUser(r)
      BY <2>2 DEF RegisterUser
    <2>3. CASE RegisterDuplicate(r)
      BY <2>3 DEF RegisterDuplicate
    <2>4. CASE RegisterProfile(r)
      BY <2>4 DEF RegisterProfile
    <2> QED
      BY <1>1, <2>1, <2>2, <2>3, <2>4 DEF RegisterStep
  <1>2. ASSUME NEW q \in ResetRequests, ResetFind(q) PROVE InactiveInv'
    BY <1>2 DEF ResetFind
  <1>3. ASSUME NEW x \in Links, LinkStep(x) PROVE InactiveInv'
    <2>1. CASE LinkInvalidate(x)
      BY <2>1 DEF LinkInvalidate, SameKind
    <2>2. CASE LinkInsert(x)
      BY <2>2 DEF LinkInsert
    <2>3. CASE LinkPublish(x)
      BY <2>3 DEF LinkPublish
    <2>4. CASE LinkAnswer(x)
      BY <2>4 DEF LinkAnswer
    <2> QED
      BY <1>3, <2>1, <2>2, <2>3, <2>4 DEF LinkStep
  <1>4. ASSUME NEW m \in Links, MailStep(m) \/ MailLost(m) PROVE InactiveInv'
    BY <1>4 DEF MailStep, MailSend, MailFail, MailLost, MailRun, MailEnds
  <1>5. ASSUME NEW u \in Uses, UseStep(u) PROVE InactiveInv'
    <2>1. CASE UseRead(u)
      BY <2>1 DEF UseRead, LinksFor
    <2>2. CASE UseApply(u)
      BY <2>2 DEF UseApply
    <2>3. CASE UseConsume(u)
      BY <2>3 DEF UseConsume
    <2>4. CASE UseAnswer(u)
      BY <2>4 DEF UseAnswer
    <2> QED
      BY <1>5, <2>1, <2>2, <2>3, <2>4 DEF UseStep
  <1>6. ASSUME NEW x \in Calls, Crash(x) PROVE InactiveInv'
    BY <1>6 DEF Crash
  <1>7. CASE UNCHANGED vars
    BY <1>7 DEF vars
  <1> QED
    BY <1>1, <1>2, <1>3, <1>4, <1>5, <1>6, <1>7 DEF Next

\* An inactive account can still be verified, or a named failure took its link.
THEOREM InactiveIsExplained == Spec => []InactiveHasCause
  <1>1. InactiveInv => InactiveHasCause
    BY DEF InactiveInv
  <1> QED
    BY <1>1, InitTypeInv, NextTypeInv, InitOwnerInv, NextOwnerInv,
       InitInactiveInv, NextInactiveInv, PTL DEF Spec

-----------------------------------------------------------------------------
(* Steps.                                                                   *)

UserStep ==
    /\ user.active => user'.active
    /\ user'.password # user.password =>
           \E x \in Calls : user'.password = x /\ call[x] \in {"validated", "read"}

LEMMA NextUserStep == TypeInv /\ OwnerInv /\ [Next]_vars => [UserStep]_vars
  <1> SUFFICES ASSUME TypeInv, OwnerInv, Next PROVE UserStep
    OBVIOUS
  <1> USE DEF TypeInv, TypeOK, UserRows, OwnerInv, NothingBeforeUser, UserStep,
              Links, Uses, Calls
  <1>1. ASSUME NEW r \in Registrations, RegisterUser(r) PROVE UserStep
    BY <1>1 DEF RegisterUser
  <1>2. ASSUME NEW u \in Uses, UseApply(u) PROVE UserStep
    BY <1>2 DEF UseApply
  <1>3. CASE UNCHANGED user
    BY <1>3
  <1> QED
    BY <1>1, <1>2, <1>3
       DEF Next, RegisterStep, RegisterValidate, RegisterDuplicate, RegisterProfile, ResetFind,
           LinkStep, LinkInvalidate, LinkInsert, LinkPublish, LinkAnswer,
           MailStep, MailSend, MailFail, MailLost, MailRun,
           UseStep, UseRead, UseConsume, UseAnswer, Crash

\* No verification or reset takes back what another one did to the user.
THEOREM UserFieldsStay == Spec => UserFieldsKept
  <1>1. TypeInv /\ OwnerInv /\ [Next]_vars
           => [/\ user.active => user'.active
               /\ user'.password # user.password =>
                      \E x \in Calls : user'.password = x /\ call[x] \in {"validated", "read"}]_vars
    BY NextUserStep DEF UserStep
  <1> QED
    BY <1>1, InitTypeInv, NextTypeInv, InitOwnerInv, NextOwnerInv, PTL DEF Spec, UserFieldsKept
=============================================================================
