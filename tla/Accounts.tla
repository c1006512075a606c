------------------------------ MODULE Accounts ------------------------------
(***************************************************************************)
(* Users with their status and roles in the database; their sessions, the  *)
(* index of the sessions of a user, password-reset tokens and counters of  *)
(* failed logins in Redis, where every key has a time to live.             *)
(*                                                                         *)
(* A session keeps the hash of the secret that its next refresh must show. *)
(* Secrets are numbered in the order a session is given them.  A refresh   *)
(* reads the session and overwrites it; ending all sessions of a user      *)
(* reads the index, deletes the keys it names, and deletes the index.      *)
(***************************************************************************)
EXTENDS Handlers

CONSTANTS
  Users, Sessions, Tokens,  \* ids
  Roles,       \* roles a school may give
  AttemptLimit,  \* failed logins before the lock
  Ttl,         \* lifetime of a session, in ticks
  MaxTime,     \* bound: ticks
  MaxSecrets   \* bound: secrets of a session

ASSUME AccountsAssumption ==
  /\ IsFiniteSet(Requests) /\ Requests # {}
  /\ AttemptLimit \in Nat /\ Ttl \in Nat /\ MaxTime \in Nat /\ MaxSecrets \in Nat \ {0}

VARIABLES
  now,
  user,      \* User rows, with the UserRole rows of each
  session,   \* session:<id> keys
  index,     \* user-sessions:<user> keys
  token,     \* password-reset:<token> keys
  attempts,  \* login-attempts:<identifier> keys
  secrets,   \* history: secrets a session has been given
  answers,   \* history: refreshes answered for each secret of a session
  cut        \* history: a request was cut short

accountTables == <<now, user, session, index, token, attempts, secrets, answers, cut>>

UserStatus == {"none", "INVITED", "ACTIVE", "SUSPENDED"}
RoleKeysDto == SUBSET Roles \ {{}}
UpdateUserStatusDto == {"ACTIVE", "SUSPENDED"}

UserRow == [status : UserStatus, password : BOOLEAN, roles : SUBSET Roles]
SessionRecord == [user : Users, createdAt : 0..MaxTime, secret : 1..MaxSecrets,
                  until : 0..(MaxTime + Ttl)]
Index == [sessions : SUBSET Sessions, until : 0..(MaxTime + Ttl)]

NoUser == [status |-> "none", password |-> FALSE, roles |-> {}]
NoIndex == [sessions |-> {}, until |-> 0]
NoAttempts == [count |-> 0, expires |-> FALSE]

AccountsInit ==
  /\ now = 0 /\ cut = FALSE
  /\ user \in [Users -> {NoUser, [status |-> "ACTIVE", password |-> TRUE, roles |-> Roles]}]
  /\ session = [s \in Sessions |-> None]
  /\ index = [u \in Users |-> NoIndex]
  /\ token = [k \in Tokens |-> None]
  /\ attempts = [u \in Users |-> NoAttempts]
  /\ secrets = [s \in Sessions |-> 0]
  /\ answers = [s \in Sessions |-> [k \in 1..MaxSecrets |-> 0]]

Live(s) == session[s] # None

\* Redis drops what has lived its time; tokens and counters may go at any time.
Tick ==
  /\ now < MaxTime /\ now' = now + 1
  /\ session' = [s \in Sessions |-> IF Live(s) /\ session[s].until <= now + 1
                                    THEN None ELSE session[s]]
  /\ index' = [u \in Users |-> IF index[u].until <= now + 1 THEN NoIndex ELSE index[u]]
  /\ UNCHANGED <<user, token, attempts, secrets, answers, cut, req, overlap>>

TokenExpires(k) ==
  /\ token[k] # None /\ token' = [token EXCEPT ![k] = None]
  /\ UNCHANGED <<now, user, session, index, attempts, secrets, answers, cut, req, overlap>>

AttemptsExpire(u) ==
  /\ attempts[u].expires /\ attempts' = [attempts EXCEPT ![u] = NoAttempts]
  /\ UNCHANGED <<now, user, session, index, token, secrets, answers, cut, req, overlap>>

-----------------------------------------------------------------------------
(* AuthService.login                                                        *)

\* Locked out or not active: refused.  A wrong password is counted.
LoginRead(r, u, passwordOk) ==
  /\ attempts[u].count < AttemptLimit
  /\ passwordOk => user[u].status = "ACTIVE" /\ user[u].password
  /\ Starts(r, [op |-> IF passwordOk THEN "LoginClear" ELSE "LoginFailed", user |-> u])
  /\ UNCHANGED accountTables

\* INCR, and for the first failure EXPIRE.
LoginFailed(r) ==
  /\ At(r, "LoginFailed")
  /\ attempts' = [attempts EXCEPT ![req[r].user].count = @ + 1]
  /\ IF attempts[req[r].user].count = 0
     THEN Goes(r, [op |-> "LoginWindow", user |-> req[r].user]) ELSE Ends(r)
  /\ UNCHANGED <<now, user, session, index, token, secrets, answers, cut>>

LoginWindow(r) ==
  /\ At(r, "LoginWindow")
  /\ attempts' = [attempts EXCEPT ![req[r].user].expires = (attempts[req[r].user].count > 0)]
  /\ Ends(r) /\ UNCHANGED <<now, user, session, index, token, secrets, answers, cut>>

LoginClear(r) ==
  /\ At(r, "LoginClear")
  /\ attempts' = [attempts EXCEPT ![req[r].user] = NoAttempts]
  /\ Goes(r, [op |-> "CreateSession", user |-> req[r].user])
  /\ UNCHANGED <<now, user, session, index, token, secrets, answers, cut>>

\* One MULTI: the session, its entry in the index, and a new lifetime of the index.
CreateSession(r, s) ==
  /\ At(r, "CreateSession") /\ secrets[s] = 0
  /\ session' = [session EXCEPT ![s] = [user |-> req[r].user, createdAt |-> now, secret |-> 1,
                                        until |-> now + Ttl]]
  /\ index' = [index EXCEPT ![req[r].user].sessions = @ \cup {s},
                            ![req[r].user].until = now + Ttl]
  /\ secrets' = [secrets EXCEPT ![s] = 1]
  /\ Ends(r) /\ UNCHANGED <<now, user, token, attempts, answers, cut>>

-----------------------------------------------------------------------------
(* AuthService.refresh and SessionService.rotate                            *)

\* A client shows a secret it was once given.
RotateRead(r, s) ==
  /\ Live(s)
  /\ \E secret \in 1..secrets[s] :
       Starts(r, [op |-> IF secret = session[s].secret THEN "RotateWrite" ELSE "RotateDelete",
                  session |-> s, record |-> session[s]])
  /\ UNCHANGED accountTables

\* A secret that was replaced ends the session.
RotateDelete(r) ==
  /\ At(r, "RotateDelete")
  /\ session' = [session EXCEPT ![req[r].session] = None]
  /\ Goes(r, [op |-> "RotateUnindex", session |-> req[r].session, user |-> req[r].record.user])
  /\ UNCHANGED <<now, user, index, token, attempts, secrets, answers, cut>>

RotateUnindex(r) ==
  /\ At(r, "RotateUnindex")
  /\ index' = [index EXCEPT ![req[r].user].sessions = @ \ {req[r].session}]
  /\ Ends(r) /\ UNCHANGED <<now, user, session, token, attempts, secrets, answers, cut>>

Answered(r) == [answers EXCEPT ![req[r].session][req[r].record.secret] = @ + 1]

\* Mutant: the secret stays.
RotateKeep(r) ==
  /\ At(r, "RotateWrite") /\ secrets[req[r].session] < MaxSecrets
  /\ session' = [session EXCEPT ![req[r].session] = [req[r].record EXCEPT !.until = now + Ttl]]
  /\ secrets' = [secrets EXCEPT ![req[r].session] = @ + 1] /\ answers' = Answered(r)
  /\ Goes(r, [op |-> "RefreshProfile", user |-> req[r].record.user])
  /\ UNCHANGED <<now, user, index, token, attempts, cut>>

\* The record as it was read, under a new secret: there again if it was deleted
\* meanwhile.  The index is not touched and keeps its lifetime.
RotateWrite(r) ==
  /\ At(r, "RotateWrite") /\ secrets[req[r].session] < MaxSecrets
  /\ session' = [session EXCEPT ![req[r].session] =
       [req[r].record EXCEPT !.secret = secrets[req[r].session] + 1,
                             !.until = now + Ttl]]
  /\ secrets' = [secrets EXCEPT ![req[r].session] = @ + 1] /\ answers' = Answered(r)
  /\ Goes(r, [op |-> "RefreshProfile", user |-> req[r].record.user])
  /\ UNCHANGED <<now, user, index, token, attempts, cut>>

RefreshProfile(r) ==
  /\ At(r, "RefreshProfile")
  /\ IF user[req[r].user].status = "ACTIVE" THEN Ends(r)
     ELSE Goes(r, [op |-> "DestroyRead", user |-> req[r].user])
  /\ UNCHANGED accountTables

Refresh(r) == RotateDelete(r) \/ RotateUnindex(r) \/ RotateWrite(r) \/ RefreshProfile(r)

-----------------------------------------------------------------------------
(* SessionService: ending and listing sessions                              *)

LogoutAll(r, u) ==
  /\ Starts(r, [op |-> "DestroyRead", user |-> u])
  /\ UNCHANGED accountTables

DestroyRead(r) ==
  /\ At(r, "DestroyRead")
  /\ Goes(r, [op |-> "DestroyKeys", user |-> req[r].user, sessions |-> index[req[r].user].sessions])
  /\ UNCHANGED accountTables

DestroyKeys(r) ==
  /\ At(r, "DestroyKeys")
  /\ session' = [s \in Sessions |-> IF s \in req[r].sessions THEN None ELSE session[s]]
  /\ Goes(r, [op |-> "DestroyIndex", user |-> req[r].user])
  /\ UNCHANGED <<now, user, index, token, attempts, secrets, answers, cut>>

DestroyIndex(r) ==
  /\ At(r, "DestroyIndex")
  /\ index' = [index EXCEPT ![req[r].user] = NoIndex]
  /\ Ends(r) /\ UNCHANGED <<now, user, session, token, attempts, secrets, answers, cut>>

DestroyAllSessions(r) == DestroyRead(r) \/ DestroyKeys(r) \/ DestroyIndex(r)

\* One MULTI.
Logout(s) ==
  /\ AtOnce /\ Live(s)
  /\ session' = [session EXCEPT ![s] = None]
  /\ index' = [index EXCEPT ![session[s].user].sessions = @ \ {s}]
  /\ UNCHANGED <<now, user, token, attempts, secrets, answers, cut>>

\* Ids of sessions that are gone are taken out of the index.
ListSessions(u) ==
  /\ AtOnce
  /\ index' = [index EXCEPT ![u].sessions = {s \in @ : Live(s)}]
  /\ UNCHANGED <<now, user, session, token, attempts, secrets, answers, cut>>

-----------------------------------------------------------------------------
(* Invitations and password resets                                          *)

ForgotPassword(u, k) ==
  /\ AtOnce /\ user[u].status = "ACTIVE" /\ token[k] = None
  /\ token' = [token EXCEPT ![k] = u]
  /\ UNCHANGED <<now, user, session, index, attempts, secrets, answers, cut>>

IssueInviteToken(r, k) ==
  /\ At(r, "Invite") /\ token[k] = None
  /\ token' = [token EXCEPT ![k] = req[r].user]
  /\ Ends(r) /\ UNCHANGED <<now, user, session, index, attempts, secrets, answers, cut>>

ResetRead(r, k) ==
  /\ token[k] # None
  /\ Starts(r, [op |-> "ResetDelete", token |-> k, user |-> token[k]])
  /\ UNCHANGED accountTables

ResetDelete(r) ==
  /\ At(r, "ResetDelete")
  /\ token' = [token EXCEPT ![req[r].token] = None]
  /\ Goes(r, [op |-> "ResetSet", user |-> req[r].user])
  /\ UNCHANGED <<now, user, session, index, attempts, secrets, answers, cut>>

\* setPasswordAndActivate, whatever the status is now.
ResetSet(r) ==
  /\ At(r, "ResetSet")
  /\ user' = [user EXCEPT ![req[r].user].password = TRUE, ![req[r].user].status = "ACTIVE"]
  /\ Goes(r, [op |-> "DestroyRead", user |-> req[r].user])
  /\ UNCHANGED <<now, session, index, token, attempts, secrets, answers, cut>>

ResetPassword(r) == ResetDelete(r) \/ ResetSet(r)

-----------------------------------------------------------------------------
(* UserManagementService                                                    *)

\* The row with its roles in one transaction; the invitation after it.
CreateUser(r, u) ==
  /\ user[u].status = "none"
  /\ \E roles \in RoleKeysDto :
       user' = [user EXCEPT ![u] = [status |-> "INVITED", password |-> FALSE, roles |-> roles]]
  /\ Starts(r, [op |-> "Invite", user |-> u])
  /\ UNCHANGED <<now, session, index, token, attempts, secrets, answers, cut>>

UpdateRolesDelete(r, u) ==
  /\ user[u].status # "none"
  /\ \E roles \in RoleKeysDto :
       Starts(r, [op |-> "UpdateRoles", user |-> u, roles |-> roles, seen |-> user[u].roles])
  /\ UNCHANGED accountTables

\* A role that another submission has given meanwhile is refused as a duplicate.
UpdateRolesCommit(r) ==
  /\ At(r, "UpdateRoles")
  /\ req[r].roles \cap (user[req[r].user].roles \ req[r].seen) = {}
  /\ user' = [user EXCEPT ![req[r].user].roles = Replaced(@, req[r].seen, req[r].roles)]
  /\ Ends(r) /\ UNCHANGED <<now, session, index, token, attempts, secrets, answers, cut>>

\* Mutant: a suspension leaves the sessions.
SuspendOnly(r, u) ==
  /\ user[u].status # "none"
  /\ \E dto \in UpdateUserStatusDto :
       /\ user' = [user EXCEPT ![u].status = dto]
       /\ Starts(r, Idle)
  /\ UNCHANGED <<now, session, index, token, attempts, secrets, answers, cut>>

\* Any status may be set; a suspension goes on to end the sessions.
UpdateStatus(r, u) ==
  /\ user[u].status # "none"
  /\ \E dto \in UpdateUserStatusDto :
       /\ user' = [user EXCEPT ![u].status = dto]
       /\ Starts(r, IF dto = "SUSPENDED" THEN [op |-> "DestroyRead", user |-> u] ELSE Idle)
  /\ UNCHANGED <<now, session, index, token, attempts, secrets, answers, cut>>

-----------------------------------------------------------------------------
(* The routes of AuthController and UserManagementController, by what they  *)
(* share                                                                    *)

SignedIn ==
  \/ \E r \in Requests :
       \/ LoginClear(r) \/ Refresh(r) \/ DestroyAllSessions(r)
       \/ \E s \in Sessions : CreateSession(r, s) \/ RotateRead(r, s)
       \/ \E u \in Users : LoginRead(r, u, TRUE) \/ LogoutAll(r, u) \/ UpdateStatus(r, u)
  \/ (\E s \in Sessions : Logout(s)) \/ (\E u \in Users : ListSessions(u)) \/ Tick

LockedOut ==
  \/ \E r \in Requests :
       \/ LoginFailed(r) \/ LoginWindow(r) \/ LoginClear(r)
       \/ \E s \in Sessions : CreateSession(r, s)
       \/ \E u \in Users, passwordOk \in BOOLEAN : LoginRead(r, u, passwordOk)
  \/ \E u \in Users : AttemptsExpire(u)

Invited ==
  \/ \E r \in Requests :
       \/ UpdateRolesCommit(r) \/ ResetPassword(r) \/ DestroyAllSessions(r)
       \/ \E u \in Users : CreateUser(r, u) \/ UpdateRolesDelete(r, u) \/ UpdateStatus(r, u)
       \/ \E k \in Tokens : IssueInviteToken(r, k) \/ ResetRead(r, k)
  \/ \E k \in Tokens : TokenExpires(k) \/ \E u \in Users : ForgotPassword(u, k)

AccountsDies(r) ==
  /\ Dies(r) /\ cut' = TRUE
  /\ UNCHANGED <<now, user, session, index, token, attempts, secrets, answers>>

\* All of them at once.
AccountsNext == SignedIn \/ LockedOut \/ Invited \/ \E r \in Requests : AccountsDies(r)

AccountsSpec ==
  AccountsInit /\ HandlersInit /\ [][AccountsNext]_<<accountTables, req, overlap>>

-----------------------------------------------------------------------------
(* Properties                                                               *)

AccountsTypeOK ==
  /\ now \in 0..MaxTime /\ cut \in BOOLEAN
  /\ user \in [Users -> UserRow]
  /\ session \in [Sessions -> SessionRecord \cup {None}]
  /\ index \in [Users -> Index]
  /\ token \in [Tokens -> Users \cup {None}]
  /\ attempts \in [Users -> [count : 0..(AttemptLimit + Cardinality(Requests)), expires : BOOLEAN]]
  /\ secrets \in [Sessions -> 0..MaxSecrets]
  /\ answers \in [Sessions -> [1..MaxSecrets -> 0..Cardinality(Requests)]]

\* A secret is answered once, or once by each of the refreshes that overlap: what
\* a client was given before never works again, also in a session that is there
\* again after its end.
OneAnswerPerSecret ==
  \A s \in Sessions, k \in 1..MaxSecrets : answers[s][k] <= AtOnceAtMost

Quiet == ~overlap /\ ~cut /\ \A r \in Requests : req[r] = Idle

\* One request at a time and none cut short, nothing outlives its end: a suspended
\* user has no session that began less than the lifetime of an index ago, and a
\* login that counts failures will be free again.
NothingOutlives ==
  Quiet =>
    /\ \A s \in Sessions : Live(s) /\ user[session[s].user].status = "SUSPENDED" =>
         now >= session[s].createdAt + Ttl
    /\ \A u \in Users : attempts[u].count > 0 => attempts[u].expires

\* What the comment of updateStatus says of a suspension.
SuspensionKillsEverySession ==
  Quiet => \A s \in Sessions : Live(s) => user[session[s].user].status # "SUSPENDED"
=============================================================================
