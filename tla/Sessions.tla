------------------------------ MODULE Sessions ------------------------------
(***************************************************************************)
(* What a verified account is used with: login, logout, refresh, and GET   *)
(* and PATCH of /api/me/.  None of them opens a transaction.  One account, *)
(* registered and verified by Accounts; the refresh tokens were issued by  *)
(* earlier logins.                                                         *)
(*                                                                         *)
(* RefreshToken, JWTAuthentication and TokenRefreshView are those of the   *)
(* simplejwt library.                                                      *)
(***************************************************************************)
EXTENDS TraceContext

CONSTANTS
    Tokens,   \* refresh tokens
    Patches   \* bodies of PATCH /api/me/: fields with their values

ProfileFields == {"locale", "timezone"}

\* A body may have a value that is "invalid", or one that is no key of the time
\* zones at all: "malformed".
ASSUME ProfilePatchesAssumption ==
    \A g \in Patches : DOMAIN g \subseteq ProfileFields \cup {"invalid", "malformed"}

\* What is sent instead of a refresh token may be "bad" or "missing".
ASSUME TokensAssumption == Tokens \cap {"bad", "missing"} = {}

VARIABLES
    user,         \* the account: "absent", "inactive" or "active"
    blacklisted,  \* the tokens with a row in the blacklist
    profile       \* the row of the profile

sessionVars == <<user, blacklisted, profile>>

DefaultProfile == [f \in ProfileFields |-> "default"]

\* An unexpected exception of a statement.
Fails(p) == DatabaseFails(p) /\ Raise(p, Unexpected)

\* The record is written and the call answered, or nobody catches the exception.
LogAndReply(p, status) ==
    \/ DatabaseWorks(p) /\ Reply(p, Audit(p), status)
    \/ Fails(p)

-----------------------------------------------------------------------------
(* Accounts, seen from here.                                                *)

AccountRegistered ==
    user = "absent" /\ user' = "inactive" /\ UNCHANGED <<contextVars, blacklisted, profile>>
AccountVerified ==
    user = "inactive" /\ user' = "active" /\ UNCHANGED <<contextVars, blacklisted, profile>>

-----------------------------------------------------------------------------
(* login_user; "with" is the password.                                      *)

InvalidCredentials == ApiError(401, "INVALID_CREDENTIALS")

\* LoginSerializer and the first SELECT.
FindUser(p) ==
    LET j == job[p] IN
    /\ j.at = "begun" /\ j.op = "auth_login"
    /\ \/ j.with = "missing" /\ Raise(p, ValidationError)
       \/ j.with # "missing" /\ Fails(p)
       \/ /\ j.with # "missing" /\ DatabaseWorks(p)
          /\ IF user # "inactive" THEN Goto(p, "found")
             ELSE Raise(p, IF j.with = "right" THEN ApiError(403, "EMAIL_NOT_VERIFIED")
                                               ELSE InvalidCredentials)
    /\ UNCHANGED <<bound, left, down, outages, sessionVars>>

\* authenticate() reads the user once more and knows active ones only.
Authenticate(p) ==
    /\ job[p].at = "found"
    /\ \/ Fails(p)
       \/ /\ DatabaseWorks(p)
          /\ IF user = "active" /\ job[p].with = "right" THEN Goto(p, "authenticated")
                                                         ELSE Raise(p, InvalidCredentials)
    /\ UNCHANGED <<bound, left, down, outages, sessionVars>>

\* RefreshToken.for_user, log_action
IssueTokens(p) ==
    /\ job[p].at = "authenticated"
    /\ LogAndReply(p, 200)
    /\ UNCHANGED <<bound, left, down, outages, sessionVars>>

-----------------------------------------------------------------------------
(* logout_user and the refresh; "with" is the token.                        *)

\* The blacklist is not looked at.
BugDecodeToken(p) ==
    LET j == job[p] IN
    /\ j.at = "begun" /\ j.op = "auth_logout"
    /\ \/ j.with = "missing" /\ Raise(p, ValidationError)
       \/ j.with \in Tokens /\ DatabaseWorks(p) /\ Goto(p, "decoded")
       \/ j.with = "bad" /\ Raise(p, ApiError(401, "TOKEN_INVALID"))
    /\ UNCHANGED <<bound, left, down, outages, sessionVars>>

\* LogoutSerializer and RefreshToken(...), which looks into the blacklist.
\* Whatever goes wrong, the database included, is an invalid token.
DecodeToken(p) ==
    LET j == job[p] IN
    /\ j.at = "begun" /\ j.op = "auth_logout"
    /\ \/ j.with = "missing" /\ Raise(p, ValidationError)
       \/ /\ j.with \in Tokens \ blacklisted /\ DatabaseWorks(p)
          /\ Goto(p, "decoded")
       \/ /\ j.with # "missing"
          /\ j.with \notin Tokens \ blacklisted \/ DatabaseFails(p)
          /\ Raise(p, ApiError(401, "TOKEN_INVALID"))
    /\ UNCHANGED <<bound, left, down, outages, sessionVars>>

\* token.blacklist(): get_or_create does not mind another logout of the token.
Blacklist(p) ==
    /\ job[p].at = "decoded"
    /\ \/ /\ DatabaseWorks(p)
          /\ blacklisted' = blacklisted \cup {job[p].with}
          /\ Goto(p, "blacklisted")
       \/ /\ DatabaseFails(p)
          /\ Raise(p, ApiError(401, "TOKEN_INVALID"))
          /\ UNCHANGED blacklisted
    /\ UNCHANGED <<bound, left, down, outages, user, profile>>

\* The actor's SELECT and log_action.
LogLogout(p) ==
    /\ job[p].at = "blacklisted"
    /\ LogAndReply(p, 204)
    /\ UNCHANGED <<bound, left, down, outages, sessionVars>>

\* TokenRefreshView: ROTATE_REFRESH_TOKENS is off, so nothing is written.
Refresh(p) ==
    LET j == job[p] IN
    /\ j.at = "begun" /\ j.op = "auth_refresh"
    /\ \/ j.with = "missing" /\ Raise(p, ValidationError)
       \/ j.with = "bad" /\ Raise(p, APIException(401, "invalid or expired"))
       \/ j.with \in Tokens /\ Fails(p)
       \/ /\ j.with \in Tokens /\ DatabaseWorks(p)
          /\ IF j.with \in blacklisted THEN Raise(p, APIException(401, "invalid or expired"))
                                       ELSE Reply(p, j, 200)
    /\ UNCHANGED <<bound, left, down, outages, sessionVars>>

-----------------------------------------------------------------------------
(* MeView; "with" is the access token.                                      *)

\* JWTAuthentication and IsAuthenticated, which read the user.  An active one has
\* a profile: the link that activates it is made after the profile.
AuthenticateJWT(p) ==
    LET j == job[p] IN
    /\ j.at = "begun" /\ j.op \in {"profile_get", "profile_update"}
    /\ \/ j.with = "none" /\ Raise(p, APIException(401, "nothing"))
       \/ j.with = "bad" /\ \E says \in {"expired", "invalid or expired"} :
                                Raise(p, APIException(401, says))
       \/ j.with = "valid" /\ Fails(p)
       \/ /\ j.with = "valid" /\ DatabaseWorks(p)
          /\ IF user = "active" THEN Goto(p, "identified")
                                ELSE Raise(p, APIException(401, "nothing"))
    /\ UNCHANGED <<bound, left, down, outages, sessionVars>>

\* ProfileSerializer catches the exception of an unknown time zone only.
ValidateProfile(p) ==
    LET g == job[p].given IN
    /\ job[p].at = "identified"
    /\ \/ "malformed" \in DOMAIN g /\ Raise(p, Unexpected)
       \/ "invalid" \in DOMAIN g /\ Raise(p, ValidationError)
       \/ DOMAIN g \subseteq ProfileFields /\ Goto(p, "valid")
    /\ UNCHANGED <<bound, left, down, outages, sessionVars>>

\* get_profile
GetProfile(p) ==
    LET j == job[p] IN
    /\ j.at = "valid"
    /\ \/ Fails(p)
       \/ /\ DatabaseWorks(p)
          /\ IF DOMAIN j.given = {} THEN Reply(p, j, 200)
             ELSE Move(p, [j EXCEPT !.at = "profile_read", !.copy = profile])
    /\ UNCHANGED <<bound, left, down, outages, sessionVars>>

\* A field that is not given takes its default.
BugSaveProfile(p) ==
    LET g == job[p].given IN
    /\ job[p].at = "profile_read"
    /\ DatabaseWorks(p)
    /\ profile' = [f \in ProfileFields |-> IF f \in DOMAIN g THEN g[f] ELSE "default"]
    /\ Goto(p, "profile_saved")
    /\ UNCHANGED <<bound, left, down, outages, user, blacklisted>>

\* update_profile: profile.save() writes the fields it was not given as well.
SaveProfile(p) ==
    LET j == job[p] IN
    /\ j.at = "profile_read"
    /\ \/ Fails(p) /\ UNCHANGED profile
       \/ /\ DatabaseWorks(p)
          /\ profile' = [f \in ProfileFields |->
                            IF f \in DOMAIN j.given THEN j.given[f] ELSE j.copy[f]]
          /\ Goto(p, "profile_saved")
    /\ UNCHANGED <<bound, left, down, outages, user, blacklisted>>

LogProfile(p) ==
    /\ job[p].at = "profile_saved"
    /\ LogAndReply(p, 200)
    /\ UNCHANGED <<bound, left, down, outages, sessionVars>>

SessionStep(p) ==
    \/ FindUser(p) \/ Authenticate(p) \/ IssueTokens(p)
    \/ DecodeToken(p) \/ Blacklist(p) \/ LogLogout(p) \/ Refresh(p)
    \/ AuthenticateJWT(p) \/ ValidateProfile(p) \/ GetProfile(p) \/ SaveProfile(p) \/ LogProfile(p)

\* The responses accounts/openapi.py lists.
SessionDocs == [auth_login |-> {200, 401, 403}, auth_logout |-> {204, 400}]
ProfileDocs ==
    [auth_refresh |-> {200, 401}, profile_get |-> {200, 401}, profile_update |-> {200, 400, 401}]
=============================================================================
