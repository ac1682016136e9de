------------------------------ MODULE Invites ------------------------------
(***************************************************************************)
(* The invites of one e-mail address to one workspace: the calls that      *)
(* create and accept them, the Celery task that mails the link, and the    *)
(* deletion of the workspace.                                              *)
(*                                                                         *)
(* create_invite and accept_invite are PostgreSQL transactions at READ     *)
(* COMMITTED: a statement sees the rows committed when it starts and those *)
(* of its own transaction, an UPDATE waits for the lock of a row another   *)
(* transaction has written and looks at the row again when it gets it, an  *)
(* INSERT waits for another uncommitted row with its unique key, and the   *)
(* foreign keys, DEFERRABLE INITIALLY DEFERRED as Django creates them, are *)
(* checked at COMMIT.                                                      *)
(*                                                                         *)
(* An invite, the create_invite call that makes it and the message that    *)
(* mails it share their identifier.  A membership row is named by the      *)
(* accept_invite call that inserts it.                                     *)
(*                                                                         *)
(* A definition named Bug... is the one after it with a plausible mistake; *)
(* no specification uses it.  It shows which property notices the mistake. *)
(***************************************************************************)
EXTENDS Naturals, FiniteSets

CONSTANTS
    Invitations,     \* the POST .../invites/ calls, each with its invite
    Earlier,         \* those whose invite was created and mailed before
    Acceptances,     \* the POST .../invites/accept/ calls of the invited user
    MaxMailRetries,  \* max_retries of the mail task (5 in the code)
    Faults           \* which failures of the environment may happen

FaultKinds == {"broker", "web_crash", "worker_crash", "audit", "smtp"}

ASSUME EarlierAssumption == Earlier \subseteq Invitations
ASSUME DisjointCallsAssumption == Invitations \cap Acceptances = {}
ASSUME MailRetriesAssumption == MaxMailRetries \in Nat
ASSUME InviteFaultsAssumption == Faults \subseteq FaultKinds

VARIABLES
    workspace,  \* whether the Workspace row exists
    row,        \* the committed WorkspaceInvite rows
    members,    \* the committed WorkspaceMembership rows of the invited user
    call,       \* where each create_invite call is
    seen,       \* the pending invites its UPDATE found when it began
    accept,     \* where each accept_invite call is, and the invite it read
    marks,      \* the rows each transaction has set used_at on, and locked
    mail,       \* where the message of each invite is
    retries    \* how often each message in the queue has been retried

vars == <<workspace, row, members, call, seen, accept, marks, mail, retries>>
mailVars == <<mail, retries>>

Transactions == Invitations \cup Acceptances

\* Transactions that have called create_invite, and have not ended.
CreateOpen == {"begun", "checked", "marking", "inserted", "published"}
CreateAnswers == {"created", "rejected", "failed"}

AcceptOpen == {"read", "existing", "missing", "inserted", "found", "joined"}
AcceptAnswers == {"accepted", "rejected", "failed"}

\* The call has inserted a membership and not committed it.
HoldsMembership(a) == accept[a].at \in {"inserted", "joined"}

TypeOK ==
    /\ workspace \in BOOLEAN
    /\ row \in [Invitations -> {"none", "pending", "used"}]
    /\ members \subseteq Acceptances
    /\ call \in [Invitations -> {"idle"} \cup CreateOpen \cup CreateAnswers]
    /\ seen \in [Invitations -> SUBSET Invitations]
    /\ accept \in [Acceptances ->
           [at : {"idle"}, invite : {"none"}]
               \cup [at : AcceptOpen \cup AcceptAnswers, invite : Invitations]]
    /\ marks \in [Transactions -> SUBSET Invitations]
    /\ mail \in [Invitations -> {"none", "queued", "sent", "dropped"}]
    /\ retries \in [Invitations -> 0 .. MaxMailRetries]

\* Two invites created at the same time can both be pending when it begins.
Init ==
    /\ workspace = TRUE
    /\ row = [i \in Invitations |-> IF i \in Earlier THEN "pending" ELSE "none"]
    /\ members = {}
    /\ call = [i \in Invitations |-> IF i \in Earlier THEN "created" ELSE "idle"]
    /\ seen = [i \in Invitations |-> {}]
    /\ accept = [a \in Acceptances |-> [at |-> "idle", invite |-> "none"]]
    /\ marks = [x \in Transactions |-> {}]
    /\ mail = [i \in Invitations |-> IF i \in Earlier THEN "sent" ELSE "none"]
    /\ retries = [i \in Invitations |-> 0]

-----------------------------------------------------------------------------
(* Rows, locks and the ends of a transaction.                               *)

Locked(i, x) == \E y \in Transactions \ {x} : i \in marks[y]

\* save or update of used_at: the row is locked until the transaction ends.
SetUsed(x, i) ==
    /\ ~Locked(i, x)
    /\ marks' = [marks EXCEPT ![x] = @ \cup {i}]

\* The rows of a COMMIT that adds the invites in new.
Committed(x, new) ==
    [i \in Invitations |->
        IF i \in new THEN "pending"
        ELSE IF i \in marks[x] THEN "used" ELSE row[i]]

Unlock(x) == marks' = [marks EXCEPT ![x] = {}]

\* Each of some calls waits for a row that another one of them has locked.  No
\* acceptance is among them: it waits for a row or a key, and nobody who waits
\* has the one it waits for.
Deadlocked(c) ==
    \E cycle \in SUBSET Invitations :
        /\ c \in cycle
        /\ \A d \in cycle :
               /\ call[d] = "marking"
               /\ \E e \in cycle \ {d} : \E i \in (seen[d] \ marks[d]) \cap marks[e] :
                      row[i] = "pending"

-----------------------------------------------------------------------------
(* POST .../workspaces/{pk}/invites/: create_invite.                        *)

CreateGoto(c, next) == call' = [call EXCEPT ![c] = next]

\* get_workspace, the role of the caller and the role asked for.
CreateBegin(c) ==
    /\ call[c] = "idle"
    /\ \/ workspace /\ CreateGoto(c, "begun")
       \/ CreateGoto(c, "rejected")
    /\ UNCHANGED <<workspace, row, members, seen, accept, marks, mailVars>>

\* "User is already a member."
CreateCheck(c) ==
    /\ call[c] = "begun"
    /\ CreateGoto(c, IF members = {} THEN "checked" ELSE "rejected")
    /\ UNCHANGED <<workspace, row, members, seen, accept, marks, mailVars>>

\* invalidate_pending_invites: the UPDATE begins with the rows it finds.
CreateInvalidate(c) ==
    /\ call[c] = "checked"
    /\ seen' = [seen EXCEPT ![c] = {i \in Invitations : row[i] = "pending"}]
    /\ CreateGoto(c, "marking")
    /\ UNCHANGED <<workspace, row, members, accept, marks, mailVars>>

\* create_invite is not atomic: each statement commits.
BugCreateMark(c) ==
    /\ call[c] = "marking"
    /\ \E i \in seen[c] \ marks[c] :
           row[i] = "pending" /\ ~Locked(i, c) /\ row' = [row EXCEPT ![i] = "used"]
    /\ UNCHANGED <<workspace, members, call, seen, accept, marks, mailVars>>

\* It takes them one by one, and leaves out one that was used in the meantime.
CreateMark(c) ==
    /\ call[c] = "marking"
    /\ \E i \in seen[c] \ marks[c] : row[i] = "pending" /\ SetUsed(c, i)
    /\ UNCHANGED <<workspace, row, members, call, seen, accept, mailVars>>

\* The UPDATE passes over a row another transaction has locked.
BugCreateInsert(c) ==
    /\ call[c] = "marking"
    /\ \A i \in seen[c] \ marks[c] : row[i] # "pending" \/ Locked(i, c)
    /\ CreateGoto(c, "inserted")
    /\ UNCHANGED <<workspace, row, members, seen, accept, marks, mailVars>>

\* WorkspaceInvite.objects.create
CreateInsert(c) ==
    /\ call[c] = "marking"
    /\ \A i \in seen[c] \ marks[c] : row[i] # "pending"
    /\ CreateGoto(c, "inserted")
    /\ UNCHANGED <<workspace, row, members, seen, accept, marks, mailVars>>

\* send_workspace_invite_email.delay, inside the transaction.
CreatePublish(c) ==
    /\ call[c] = "inserted"
    /\ mail' = [mail EXCEPT ![c] = "queued"]
    /\ CreateGoto(c, "published")
    /\ UNCHANGED <<workspace, row, members, seen, accept, marks, retries>>

\* log_action and COMMIT.
CreateCommit(c) ==
    /\ call[c] = "published"
    /\ workspace
    /\ row' = Committed(c, {c})
    /\ Unlock(c)
    /\ CreateGoto(c, "created")
    /\ UNCHANGED <<workspace, members, seen, accept, mailVars>>

\* ROLLBACK by the database: deadlock detection, or the foreign key at COMMIT.
CreateRefused(c) ==
    /\ \/ call[c] = "marking" /\ Deadlocked(c)
       \/ call[c] = "published" /\ ~workspace
    /\ Unlock(c)
    /\ CreateGoto(c, "failed")
    /\ UNCHANGED <<workspace, row, members, seen, accept, mailVars>>

\* ROLLBACK because delay or log_action raises, or the process dies.  A message
\* that is published stays published.
CreateFault(c) ==
    /\ \/ "broker" \in Faults /\ call[c] = "inserted"
       \/ "audit" \in Faults /\ call[c] = "published"
       \/ "web_crash" \in Faults /\ call[c] \in CreateOpen
    /\ Unlock(c)
    /\ CreateGoto(c, "failed")
    /\ UNCHANGED <<workspace, row, members, seen, accept, mailVars>>

-----------------------------------------------------------------------------
(* POST .../workspaces/invites/accept/: accept_invite.                      *)

AcceptGoto(a, next) == accept' = [accept EXCEPT ![a].at = next]

\* The user follows the link of a mail.  A used one is refused; an expired one
\* or one for another address may be as well, and any refusal leaves no trace.
AcceptRead(a) ==
    /\ accept[a].at = "idle"
    /\ \E i \in Invitations : \E next \in {"read", "rejected"} :
           /\ mail[i] = "sent"
           /\ next = "read" => row[i] = "pending"
           /\ accept' = [accept EXCEPT ![a] = [at |-> next, invite |-> i]]
    /\ UNCHANGED <<workspace, row, members, call, seen, marks, mailVars>>

\* get_membership
AcceptFindMember(a) ==
    /\ accept[a].at = "read"
    /\ AcceptGoto(a, IF members = {} THEN "missing" ELSE "existing")
    /\ UNCHANGED <<workspace, row, members, call, seen, marks, mailVars>>

\* unique_workspace_membership is missing.
BugAcceptInsert(a) ==
    /\ accept[a].at = "missing"
    /\ AcceptGoto(a, "inserted")
    /\ UNCHANGED <<workspace, row, members, call, seen, marks, mailVars>>

\* WorkspaceMembership.objects.create waits for another uncommitted one.
AcceptInsert(a) ==
    /\ accept[a].at = "missing"
    /\ members = {}
    /\ \A b \in Acceptances \ {a} : ~HoldsMembership(b)
    /\ AcceptGoto(a, "inserted")
    /\ UNCHANGED <<workspace, row, members, call, seen, marks, mailVars>>

\* invite.save(update_fields=["used_at"]): whatever used_at is by now.
AcceptMark(a) ==
    /\ accept[a].at \in {"inserted", "existing"}
    /\ row[accept[a].invite] # "none"
    /\ SetUsed(a, accept[a].invite)
    /\ AcceptGoto(a, IF accept[a].at = "inserted" THEN "joined" ELSE "found")
    /\ UNCHANGED <<workspace, row, members, call, seen, mailVars>>

\* An existing membership is given the role of the new invite.
BugAcceptCommit(a) ==
    /\ accept[a].at \in {"joined", "found"}
    /\ workspace
    /\ members' = {a}
    /\ row' = Committed(a, {})
    /\ Unlock(a)
    /\ AcceptGoto(a, "accepted")
    /\ UNCHANGED <<workspace, call, seen, mailVars>>

\* log_action and COMMIT; the existing membership is returned as it is.
AcceptCommit(a) ==
    /\ accept[a].at \in {"joined", "found"}
    /\ workspace
    /\ members' = IF HoldsMembership(a) THEN members \cup {a} ELSE members
    /\ row' = Committed(a, {})
    /\ Unlock(a)
    /\ AcceptGoto(a, "accepted")
    /\ UNCHANGED <<workspace, call, seen, mailVars>>

\* ROLLBACK by the database: the unique constraint or the foreign key; or by
\* save, which finds no row to update.
AcceptRefused(a) ==
    /\ \/ accept[a].at = "missing" /\ members # {}
       \/ accept[a].at \in {"inserted", "existing"} /\ row[accept[a].invite] = "none"
    /\ AcceptGoto(a, "failed")
    /\ UNCHANGED <<workspace, row, members, call, seen, marks, mailVars>>

\* ROLLBACK because log_action raises or the process dies.
AcceptFault(a) ==
    /\ \/ "audit" \in Faults /\ accept[a].at = "joined"
       \/ "web_crash" \in Faults /\ accept[a].at \in AcceptOpen
    /\ Unlock(a)
    /\ AcceptGoto(a, "failed")
    /\ UNCHANGED <<workspace, row, members, call, seen, mailVars>>

-----------------------------------------------------------------------------
(* The Celery task send_workspace_invite_email.                             *)

\* The message, and the count of retries it carries, are gone.
MailEnds(m, end) ==
    /\ mail' = [mail EXCEPT ![m] = end]
    /\ retries' = [retries EXCEPT ![m] = 0]

\* Off by one in the comparison with max_retries.
BugMailRun(m, outcome) ==
    /\ mail[m] = "queued"
    /\ IF ~outcome /\ retries[m] <= MaxMailRetries
       THEN retries' = [retries EXCEPT ![m] = @ + 1] /\ UNCHANGED mail
       ELSE MailEnds(m, IF outcome THEN "sent" ELSE "dropped")
    /\ UNCHANGED <<workspace, row, members, call, seen, accept, marks>>

\* A retry is a new message, which knows of no earlier one.
BugMailRunRestarts(m, outcome) ==
    /\ mail[m] = "queued"
    /\ IF outcome THEN MailEnds(m, "sent") ELSE UNCHANGED mailVars
    /\ UNCHANGED <<workspace, row, members, call, seen, accept, marks>>

\* One execution, with its outcome.
MailRun(m, outcome) ==
    /\ mail[m] = "queued"
    /\ IF ~outcome /\ retries[m] < MaxMailRetries
       THEN retries' = [retries EXCEPT ![m] = @ + 1] /\ UNCHANGED mail
       ELSE MailEnds(m, IF outcome THEN "sent" ELSE "dropped")
    /\ UNCHANGED <<workspace, row, members, call, seen, accept, marks>>

\* The task is given everything it writes and does not read the invite.
BugMailSend(m) == MailRun(m, TRUE)

\* The link is mailed, to an invite used or expired by now as well.
MailSend(m) == row[m] # "none" /\ MailRun(m, TRUE)

\* DoesNotExist: before the COMMIT, after a ROLLBACK or after the deletion; or
\* the mail server refuses.  autoretry_for=(Exception,) until max_retries.
MailFail(m) == (row[m] = "none" \/ "smtp" \in Faults) /\ MailRun(m, FALSE)

\* The message was acknowledged before it ran and its worker dies, or the broker
\* restarts: it keeps its messages in memory.
MailLost(m) ==
    /\ {"worker_crash", "broker"} \cap Faults # {}
    /\ mail[m] = "queued"
    /\ MailEnds(m, "dropped")
    /\ UNCHANGED <<workspace, row, members, call, seen, accept, marks>>

-----------------------------------------------------------------------------
(* DELETE .../workspaces/{pk}/: delete_workspace.                           *)

\* The cascade waits for locked rows; a row committed while it runs makes it
\* fail as a whole at COMMIT, so it takes effect at once or not at all.
DeleteWorkspace ==
    /\ workspace
    /\ \A x \in Transactions : marks[x] = {}
    /\ workspace' = FALSE
    /\ row' = [i \in Invitations |-> "none"]
    /\ members' = {}
    /\ UNCHANGED <<call, seen, accept, marks, mailVars>>

-----------------------------------------------------------------------------
CreateStep(c) ==
    \/ CreateBegin(c) \/ CreateCheck(c) \/ CreateInvalidate(c) \/ CreateMark(c)
    \/ CreateInsert(c) \/ CreatePublish(c) \/ CreateCommit(c) \/ CreateRefused(c)

AcceptStep(a) ==
    \/ AcceptRead(a) \/ AcceptFindMember(a) \/ AcceptInsert(a) \/ AcceptMark(a)
    \/ AcceptCommit(a) \/ AcceptRefused(a)

MailStep(m) == MailSend(m) \/ MailFail(m)

Next ==
    \/ \E c \in Invitations :
           CreateStep(c) \/ CreateFault(c) \/ MailStep(c) \/ MailLost(c)
    \/ \E a \in Acceptances : AcceptStep(a) \/ AcceptFault(a)
    \/ DeleteWorkspace

Spec == Init /\ [][Next]_vars

\* As long as a call that has begun or a message can go on, one of them does.
Fairness ==
    WF_vars(\/ \E c \in Invitations : (call[c] # "idle" /\ CreateStep(c)) \/ MailStep(c)
            \/ \E a \in Acceptances : accept[a].at # "idle" /\ AcceptStep(a))

FairSpec == Spec /\ Fairness

-----------------------------------------------------------------------------
(* Safety.                                                                  *)

\* However many links the user has and however their acceptances overlap, one
\* membership is made, and with it the invite that made it is used: its link
\* does not work again (accept_invite).
OneMembershipPerUser ==
    /\ Cardinality(members) <= 1
    /\ \A a \in members : row[accept[a].invite] = "used"

\* Once an invite has been created, the invited user is a member or has a
\* pending invite, as long as the workspace exists: neither a failed re-invite
\* nor a failed acceptance takes away the way in (the transactions of
\* create_invite and accept_invite).  A pending invite counts even when its mail
\* was dropped: the administrator can send another one.
InviteeHasAWayIn ==
    workspace /\ (\E c \in Invitations : call[c] = "created")
        => members # {} \/ \E i \in Invitations : row[i] = "pending"

\* A re-invite supersedes every invite committed when it looked: two of them
\* are pending together only if neither could see the other
\* (invalidate_pending_invites).
PendingTogetherOnlyByRace ==
    \A i, j \in Invitations :
        i # j /\ row[i] = "pending" /\ row[j] = "pending" => i \notin seen[j]

\* A link goes out only for an invite that was created: the message published
\* inside the transaction does nothing before its COMMIT or after its ROLLBACK
\* (send_workspace_invite_email).
OnlyCreatedInvitesAreMailed ==
    \A i \in Invitations : mail[i] = "sent" => call[i] = "created"

\* A membership is not replaced, and its role not changed, by an invite
\* accepted later; it goes with its workspace only (accept_invite).
MembershipIsKept ==
    [][members # {} => members' = members \/ ~workspace']_vars

(* Liveness.                                                                *)

\* Every call that begins is answered, also when re-invites wait for one
\* another's rows, and every message is mailed or dropped.
CallsAndMailsEnd ==
    <>[](/\ \A c \in Invitations : call[c] \in {"idle"} \cup CreateAnswers /\ mail[c] # "queued"
         /\ \A a \in Acceptances : accept[a].at \in {"idle"} \cup AcceptAnswers)
=============================================================================
