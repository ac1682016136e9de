------------------------------ MODULE Accounts ------------------------------
(***************************************************************************)
(* One e-mail address: its registration, the links that verify it and that *)
(* reset its password, the Celery tasks that mail them and the calls that  *)
(* use them.                                                               *)
(*                                                                         *)
(* No service of accounts/ opens a transaction, so every action is one     *)
(* statement or one broker call, any two may interleave and a call that    *)
(* fails leaves what it has done.                                          *)
(*                                                                         *)
(* A link is named by the call that creates it, and a password by the call *)
(* that brings it.                                                         *)
(*                                                                         *)
(* A definition named Bug... is the one after it with a plausible mistake; *)
(* no specification uses it.  It shows which property notices the mistake. *)
(***************************************************************************)
EXTENDS Naturals, FiniteSets

CONSTANTS
    Registrations,   \* the POST .../register/ calls
    Verifications,   \* the POST .../verify-email/ calls
    ResetRequests,   \* the POST .../password-reset/ calls
    Confirmations,   \* the POST .../password-confirm/ calls
    MaxMailRetries,  \* max_retries of the mail tasks (5 in the code)
    Faults           \* which failures of the environment may happen

FaultKinds == {"broker", "web_crash", "worker_crash", "audit", "smtp"}

Links == Registrations \cup ResetRequests
Uses  == Verifications \cup Confirmations
Calls == Links \cup Uses

ASSUME DistinctCallsAssumption ==
    /\ Registrations \cap ResetRequests = {}
    /\ Verifications \cap Confirmations = {}
    /\ Links \cap Uses = {}
ASSUME MailRetriesAssumption == MaxMailRetries \in Nat
ASSUME AccountFaultsAssumption == Faults \subseteq FaultKinds

VARIABLES
    user,      \* the User row
    profile,   \* whether its Profile row exists
    link,      \* the token rows
    call,      \* where each call is
    use,       \* the link a call uses, and the user it read with it
    mail,      \* where the message of each link is
    retries    \* how often each message in the queue has been retried

vars == <<user, profile, link, call, use, mail, retries>>
mailVars == <<mail, retries>>

Passwords == Registrations \cup Confirmations \cup {"none"}
UserRows == [exists : BOOLEAN, active : BOOLEAN, password : Passwords]
NoUser == [exists |-> FALSE, active |-> FALSE, password |-> "none"]

\* Calls on the way: creating the account, creating a link, using one.
Registering == {"validated", "created"}
Issuing     == {"ready", "invalidated", "linked", "published"}
Using       == {"read", "applied", "consumed"}
Open        == Registering \cup Issuing \cup Using

\* "duplicate" is the 500 of a registration that lost a race.
Answers == {"answered", "rejected", "duplicate", "crashed"}

TypeOK ==
    /\ user \in UserRows
    /\ profile \in BOOLEAN
    /\ link \in [Links -> {"none", "pending", "used"}]
    /\ call \in [Calls -> {"idle"} \cup Open \cup Answers]
    /\ use \in [Uses -> [link : Links \cup {"none"}, user : UserRows]]
    /\ mail \in [Links -> {"none", "queued", "sent", "dropped"}]
    /\ retries \in [Links -> 0 .. MaxMailRetries]

Init ==
    /\ user = NoUser
    /\ profile = FALSE
    /\ link = [l \in Links |-> "none"]
    /\ call = [x \in Calls |-> "idle"]
    /\ use = [u \in Uses |-> [link |-> "none", user |-> NoUser]]
    /\ mail = [l \in Links |-> "none"]
    /\ retries = [l \in Links |-> 0]

Goto(x, next) == call' = [call EXCEPT ![x] = next]

-----------------------------------------------------------------------------
(* POST .../register/: register_user up to its link.                        *)

\* RegisterSerializer.validate_email
RegisterValidate(r) ==
    /\ call[r] = "idle"
    /\ Goto(r, IF user.exists THEN "rejected" ELSE "validated")
    /\ UNCHANGED <<user, profile, link, use, mailVars>>

\* The address is not unique.
BugRegisterUser(r) ==
    /\ call[r] = "validated"
    /\ user' = [exists |-> TRUE, active |-> FALSE, password |-> r]
    /\ Goto(r, "created")
    /\ UNCHANGED <<profile, link, use, mailVars>>

\* create_user: the unique address decides between two that passed validation.
RegisterUser(r) ==
    /\ call[r] = "validated"
    /\ ~user.exists
    /\ user' = [exists |-> TRUE, active |-> FALSE, password |-> r]
    /\ Goto(r, "created")
    /\ UNCHANGED <<profile, link, use, mailVars>>

\* IntegrityError
RegisterDuplicate(r) ==
    /\ call[r] = "validated"
    /\ user.exists
    /\ Goto(r, "duplicate")
    /\ UNCHANGED <<user, profile, link, use, mailVars>>

RegisterProfile(r) ==
    /\ call[r] = "created"
    /\ profile' = TRUE
    /\ Goto(r, "ready")
    /\ UNCHANGED <<user, link, use, mailVars>>

-----------------------------------------------------------------------------
(* POST .../password-reset/: request_password_reset up to its link.         *)

\* An unknown address gets the same answer.
ResetFind(q) ==
    /\ call[q] = "idle"
    /\ Goto(q, IF user.exists THEN "ready" ELSE "answered")
    /\ UNCHANGED <<user, profile, link, use, mailVars>>

-----------------------------------------------------------------------------
(* Links: create_verification_token and create_password_reset_token, then   *)
(* the message and the audit record.                                        *)

\* A verification and a reset link are rows of different tables.
SameKind(l, m) == l \in Registrations <=> m \in Registrations

LinkInvalidate(x) ==
    /\ call[x] = "ready"
    /\ link' = [l \in Links |->
           IF link[l] = "pending" /\ SameKind(l, x) THEN "used" ELSE link[l]]
    /\ Goto(x, "invalidated")
    /\ UNCHANGED <<user, profile, use, mailVars>>

LinkInsert(x) ==
    /\ call[x] = "invalidated"
    /\ link' = [link EXCEPT ![x] = "pending"]
    /\ Goto(x, "linked")
    /\ UNCHANGED <<user, profile, use, mailVars>>

\* A failing publish is logged and passed over.
BugLinkPublish(x) ==
    /\ call[x] = "linked"
    /\ \/ mail' = [mail EXCEPT ![x] = "queued"]
       \/ "broker" \in Faults /\ UNCHANGED mail
    /\ Goto(x, "published")
    /\ UNCHANGED <<user, profile, link, use, retries>>

\* send_verification_email.delay, send_password_reset_email.delay
LinkPublish(x) ==
    /\ call[x] = "linked"
    /\ mail' = [mail EXCEPT ![x] = "queued"]
    /\ Goto(x, "published")
    /\ UNCHANGED <<user, profile, link, use, retries>>

\* log_action and the answer.
LinkAnswer(x) ==
    /\ call[x] = "published"
    /\ Goto(x, "answered")
    /\ UNCHANGED <<user, profile, link, use, mailVars>>

\* The message, and the count of retries it carries, are gone.
MailEnds(m, end) ==
    /\ mail' = [mail EXCEPT ![m] = end]
    /\ retries' = [retries EXCEPT ![m] = 0]

\* Off by one in the comparison with max_retries.
BugMailRun(m, outcome) ==
    /\ mail[m] = "queued"
    /\ IF ~outcome /\ retries[m] <= MaxMailRetries
       THEN retries' = [retries EXCEPT ![m] = @ + 1] /\ UNCHANGED mail
       ELSE MailEnds(m, IF outcome THEN "sent" ELSE "dropped")
    /\ UNCHANGED <<user, profile, link, call, use>>

\* One execution of a mail task; its token row was committed before the message.
MailRun(m, outcome) ==
    /\ mail[m] = "queued"
    /\ IF ~outcome /\ retries[m] < MaxMailRetries
       THEN retries' = [retries EXCEPT ![m] = @ + 1] /\ UNCHANGED mail
       ELSE MailEnds(m, IF outcome THEN "sent" ELSE "dropped")
    /\ UNCHANGED <<user, profile, link, call, use>>

MailSend(m) == MailRun(m, TRUE)

MailFail(m) == "smtp" \in Faults /\ MailRun(m, FALSE)

\* The message was acknowledged before it ran and its worker dies, or the broker
\* restarts: it keeps its messages in memory.
MailLost(m) ==
    /\ {"worker_crash", "broker"} \cap Faults # {}
    /\ mail[m] = "queued"
    /\ MailEnds(m, "dropped")
    /\ UNCHANGED <<user, profile, link, call, use>>

-----------------------------------------------------------------------------
(* POST .../verify-email/ and .../password-confirm/: verify_email and       *)
(* confirm_password_reset, which differ in what the link is for.            *)

LinksFor(u) == IF u \in Verifications THEN Registrations ELSE ResetRequests

\* The link is marked used as soon as it is found valid.
BugUseRead(u) ==
    /\ call[u] = "idle"
    /\ \E l \in LinksFor(u) :
           /\ mail[l] = "sent" /\ link[l] = "pending"
           /\ use' = [use EXCEPT ![u] = [link |-> l, user |-> user]]
           /\ link' = [link EXCEPT ![l] = "used"]
    /\ Goto(u, "read")
    /\ UNCHANGED <<user, profile, mailVars>>

\* Token and user are read with one SELECT.  A used link is refused; an expired
\* one may be as well.
UseRead(u) ==
    /\ call[u] = "idle"
    /\ \E l \in LinksFor(u) : \E next \in {"read", "rejected"} :
           /\ mail[l] = "sent"
           /\ next = "read" => link[l] = "pending"
           /\ use' = [use EXCEPT ![u] = [link |-> l, user |-> user]]
           /\ Goto(u, next)
    /\ UNCHANGED <<user, profile, link, mailVars>>

\* save() without update_fields writes the row as it was read.
BugUseApply(u) ==
    /\ call[u] = "read"
    /\ user' = IF u \in Verifications THEN [use[u].user EXCEPT !.active = TRUE]
                                      ELSE [use[u].user EXCEPT !.password = u]
    /\ Goto(u, "applied")
    /\ UNCHANGED <<profile, link, use, mailVars>>

\* user.save(update_fields=...) of the one field; the link is not looked at again.
UseApply(u) ==
    /\ call[u] = "read"
    /\ user' = IF u \in Verifications THEN [user EXCEPT !.active = TRUE]
                                      ELSE [user EXCEPT !.password = u]
    /\ Goto(u, "applied")
    /\ UNCHANGED <<profile, link, use, mailVars>>

UseConsume(u) ==
    /\ call[u] = "applied"
    /\ link' = [link EXCEPT ![use[u].link] = "used"]
    /\ Goto(u, "consumed")
    /\ UNCHANGED <<user, profile, use, mailVars>>

\* log_action and the answer.
UseAnswer(u) ==
    /\ call[u] = "consumed"
    /\ Goto(u, "answered")
    /\ UNCHANGED <<user, profile, link, use, mailVars>>

\* delay or log_action raises, or the process dies: nothing is undone.
Crash(x) ==
    /\ \/ "broker" \in Faults /\ call[x] = "linked"
       \/ "audit" \in Faults /\ call[x] \in {"published", "consumed"}
       \/ "web_crash" \in Faults /\ call[x] \in Open
    /\ Goto(x, "crashed")
    /\ UNCHANGED <<user, profile, link, use, mailVars>>

-----------------------------------------------------------------------------
RegisterStep(r) ==
    RegisterValidate(r) \/ RegisterUser(r) \/ RegisterDuplicate(r) \/ RegisterProfile(r)

LinkStep(x) == LinkInvalidate(x) \/ LinkInsert(x) \/ LinkPublish(x) \/ LinkAnswer(x)

MailStep(m) == MailSend(m) \/ MailFail(m)

UseStep(u) == UseRead(u) \/ UseApply(u) \/ UseConsume(u) \/ UseAnswer(u)

Next ==
    \/ \E r \in Registrations : RegisterStep(r)
    \/ \E q \in ResetRequests : ResetFind(q)
    \/ \E l \in Links : LinkStep(l) \/ MailStep(l) \/ MailLost(l)
    \/ \E u \in Uses : UseStep(u)
    \/ \E x \in Calls : Crash(x)

Spec == Init /\ [][Next]_vars

\* A registration that has begun runs on, and there is a worker for its message.
Fairness ==
    \A r \in Registrations :
        /\ WF_vars(call[r] # "idle" /\ (RegisterStep(r) \/ LinkStep(r)))
        /\ WF_vars(MailStep(r))

FairSpec == Spec /\ Fairness

-----------------------------------------------------------------------------
(* Safety.                                                                  *)

\* Of overlapping registrations of one address at most one is answered 201, and
\* then the account has its profile, its password and a link on the way
\* (register_user and the unique address).
RegisteredIsComplete ==
    \A r \in Registrations : call[r] \in {"created"} \cup Issuing \cup {"answered"} =>
        /\ user.exists
        /\ user.password \in {r} \cup Confirmations
        /\ \A s \in Registrations \ {r} : call[s] \notin {"created"} \cup Issuing \cup {"answered"}
        /\ call[r] = "answered" => profile /\ link[r] # "none" /\ mail[r] # "none"

\* r has created the account, and its link is or will be in the mail, unused.
OnTheWay(r) ==
    \/ call[r] \in {"created"} \cup Issuing
    \/ link[r] = "pending" /\ mail[r] \in {"queued", "sent"}

\* A failure of the environment took the link of r.
Undelivered(r) ==
    \/ call[r] = "crashed" /\ mail[r] = "none"
    \/ mail[r] = "dropped"

\* An account is inactive only while its link is on its way or can be used, or
\* after a named failure: a verification that fails halfway and a password reset
\* leave the link usable (verify_email, create_password_reset_token).
InactiveHasCause ==
    user.exists /\ ~user.active
        => \E r \in Registrations : OnTheWay(r) \/ Undelivered(r)

\* Verifications and resets that read the user at the same time do not undo each
\* other: an account stays active, and a password is replaced only by the call
\* that brings the new one (the update_fields of verify_email and
\* confirm_password_reset).
UserFieldsKept ==
    [][/\ user.active => user'.active
       /\ user'.password # user.password =>
              \E x \in Calls : user'.password = x /\ call[x] \in {"validated", "read"}]_vars

(* Liveness.                                                                *)

\* The owner of a new account gets a link, unless the registration crashed or the
\* mail could not be sent.
RegistrationIsMailed ==
    user.exists ~> \E r \in Registrations : mail[r] = "sent" \/ Undelivered(r)
=============================================================================
