--------------------------- MODULE PlatformProofs ---------------------------
(***************************************************************************)
(* Theorems about the components that every request passes: the secrets    *)
(* that refresh a session, and the tenant and the permissions a request    *)
(* works with; and the invariants of accounts, of the platform's console   *)
(* and of its tenants, for any number of rows of their tables and of       *)
(* requests in flight, as CampusProofs needs them: each holds whatever the *)
(* desk's own requests do, and is left alone by those of the others.       *)
(***************************************************************************)
EXTENDS Campus, FiniteSetTheorems, TLAPS

(***************************************************************************)
(* Accounts: the answers of refreshes                                      *)
(***************************************************************************)

SessionRow == [user : Users, createdAt : Nat, secret : 1..MaxSecrets, until : Nat]

\* Refreshes that have found secret k of session s to be the present one.
Waiting(s, k) ==
  {r \in Requests : req[r].op = "RotateWrite" /\ req[r].session = s /\ req[r].record.secret = k}

\* What a request knows: of a refresh, a record with a secret that was once given.
Knows(q) ==
  /\ q.op \in {"LoginClear", "CreateSession"} => q.user \in Users
  /\ q.op = "RotateWrite" =>
       q.session \in Sessions /\ q.record \in SessionRow /\ q.record.secret <= secrets[q.session]

OneAtATime ==
  ~overlap => \A r, q \in Requests : req[r].op # "idle" /\ req[q].op # "idle" => r = q

Tables ==
  /\ now \in Nat /\ overlap \in BOOLEAN
  /\ session \in [Sessions -> SessionRow \cup {None}]
  /\ secrets \in [Sessions -> Nat]
  /\ answers \in [Sessions -> [1..MaxSecrets -> Nat]]

\* Secrets that are to be shown yet have had no answer, nor have those to be given.
Unanswered ==
  \A s \in Sessions, k \in 1..MaxSecrets :
    (Live(s) /\ k = session[s].secret) \/ k > secrets[s] => answers[s][k] = 0

\* The inductive invariant: an answer is one of the refreshes that overlapped, and
\* those that wait for theirs are the others.
AnswersInv ==
  /\ Tables /\ OneAtATime /\ Unanswered
  /\ req = [r \in Requests |-> req[r]] /\ \A r \in Requests : Knows(req[r])
  /\ \A s \in Sessions, k \in 1..MaxSecrets :
       answers[s][k] + Cardinality(Waiting(s, k)) <= AtOnceAtMost

LEMMA WaitingFinite ==
  \A s, k : IsFiniteSet(Waiting(s, k)) /\ Cardinality(Waiting(s, k)) \in Nat
<1>1. \A s, k : Waiting(s, k) \subseteq Requests
  BY DEF Waiting
<1> QED BY <1>1, AccountsAssumption, FS_Subset, FS_CardinalityType

\* However many run, they are not more than may be in flight.
LEMMA InFlight ==
  ASSUME NEW W \in SUBSET Requests, ~overlap => \A r, q \in W : r = q
  PROVE  Cardinality(W) \in Nat /\ AtOnceAtMost \in Nat /\ Cardinality(W) <= AtOnceAtMost
<1>1. IsFiniteSet(W) /\ Cardinality(W) \in Nat
  BY AccountsAssumption, FS_Subset, FS_CardinalityType
<1>2. CASE overlap
  BY <1>1, <1>2, AccountsAssumption, FS_Subset, FS_CardinalityType DEF AtOnceAtMost
<1>3. CASE ~overlap
  <2>1. CASE W = {}
    BY <1>3, <2>1, FS_EmptySet DEF AtOnceAtMost
  <2>2. CASE W # {}
    <3>1. PICK r : W = {r}
      BY <1>3, <2>2
    <3>2. Cardinality({r}) = 1
      BY FS_Singleton
    <3>3. Cardinality(W) = 1
      BY <3>1, <3>2
    <3> QED BY <1>3, <3>3 DEF AtOnceAtMost
  <2> QED BY <2>1, <2>2
<1> QED BY <1>1, <1>2, <1>3

LEMMA WaitingBounded ==
  ASSUME OneAtATime, NEW s, NEW k
  PROVE  Cardinality(Waiting(s, k)) <= AtOnceAtMost /\ AtOnceAtMost \in Nat
<1>1. Waiting(s, k) \in SUBSET Requests /\ ~overlap => \A r, q \in Waiting(s, k) : r = q
  BY DEF Waiting, OneAtATime
<1> QED BY <1>1, InFlight DEF Waiting

LEMMA AccountsImplies == AnswersInv => OneAnswerPerSecret
<1> SUFFICES ASSUME AnswersInv, NEW s \in Sessions, NEW k \in 1..MaxSecrets
             PROVE  answers[s][k] <= AtOnceAtMost
  BY DEF OneAnswerPerSecret
<1>1. answers[s][k] \in Nat /\ answers[s][k] + Cardinality(Waiting(s, k)) <= AtOnceAtMost
  BY DEF AnswersInv, Tables
<1>2. Cardinality(Waiting(s, k)) \in Nat /\ AtOnceAtMost \in Nat
  BY WaitingFinite, WaitingBounded DEF AnswersInv
<1> QED BY <1>1, <1>2

LEMMA AccountsInitOK == AccountsInit /\ HandlersInit => AnswersInv
<1> SUFFICES ASSUME AccountsInit, HandlersInit PROVE AnswersInv
  OBVIOUS
<1>1. Tables
  BY DEF AccountsInit, HandlersInit, Tables
<1>2. \A r \in Requests : req[r].op = "idle"
  BY DEF HandlersInit, Idle
<1>3. OneAtATime
  BY <1>2 DEF OneAtATime
<1>4. \A s \in Sessions, k \in 1..MaxSecrets :
        answers[s][k] + Cardinality(Waiting(s, k)) <= AtOnceAtMost
  <2> TAKE s \in Sessions, k \in 1..MaxSecrets
  <2>1. answers[s][k] = 0
    BY DEF AccountsInit
  <2>2. Cardinality(Waiting(s, k)) \in Nat /\ Cardinality(Waiting(s, k)) <= AtOnceAtMost
    BY <1>3, WaitingFinite, WaitingBounded
  <2> QED BY <2>1, <2>2
<1>5. Unanswered
  BY DEF Unanswered, AccountsInit
<1>6. req = [r \in Requests |-> req[r]] /\ \A r \in Requests : Knows(req[r])
  BY <1>2 DEF HandlersInit, Knows
<1> QED BY <1>1, <1>3, <1>4, <1>5, <1>6 DEF AnswersInv

-----------------------------------------------------------------------------
(* Steps that answer nothing                                                *)

\* Sessions end, and no secret is given or answered.
Silently ==
  /\ now' \in Nat /\ UNCHANGED <<secrets, answers, overlap>>
  /\ session' = [s \in Sessions |-> session'[s]]
  /\ \A s \in Sessions : session'[s] \in {session[s], None}

LEMMA SilentTables ==
  ASSUME AnswersInv, Silently
  PROVE  Tables' /\ Unanswered' /\ AtOnceAtMost' = AtOnceAtMost
<1>1. Tables'
  BY DEF AnswersInv, Tables, Silently
<1>2. Unanswered'
  BY DEF AnswersInv, Unanswered, Live, Silently
<1> QED BY <1>1, <1>2 DEF Silently, AtOnceAtMost

\* Nobody starts to wait.
LEMMA FewerWait ==
  ASSUME AnswersInv, Silently,
         \A r \in Requests : req'[r] = req[r] \/ req'[r].op # "RotateWrite"
  PROVE  \A s \in Sessions, k \in 1..MaxSecrets :
           answers'[s][k] + Cardinality(Waiting(s, k)') <= AtOnceAtMost'
<1> SUFFICES ASSUME NEW s \in Sessions, NEW k \in 1..MaxSecrets
             PROVE  answers[s][k] + Cardinality(Waiting(s, k)') <= AtOnceAtMost
  BY SilentTables DEF Silently
<1>1. Waiting(s, k)' \subseteq Waiting(s, k)
  BY DEF Waiting
<1>2. /\ Cardinality(Waiting(s, k)') <= Cardinality(Waiting(s, k))
      /\ Cardinality(Waiting(s, k)') \in Nat /\ Cardinality(Waiting(s, k)) \in Nat
  BY <1>1, WaitingFinite, FS_Subset, FS_CardinalityType
<1>3. /\ answers[s][k] \in Nat /\ AtOnceAtMost \in Nat
      /\ answers[s][k] + Cardinality(Waiting(s, k)) <= AtOnceAtMost
  BY WaitingBounded DEF AnswersInv, Tables
<1> QED BY <1>2, <1>3

LEMMA NoRequestOK ==
  ASSUME AnswersInv, Silently, UNCHANGED req
  PROVE  AnswersInv'
<1>1. \A r \in Requests : Knows(req[r])'
  BY DEF AnswersInv, Knows, Silently
<1>2. OneAtATime'
  BY DEF AnswersInv, OneAtATime, Silently
<1> QED BY <1>1, <1>2, SilentTables, FewerWait DEF AnswersInv

\* The step of request r into locals q that wait for no answer.
LEMMA AccountsRequestOK ==
  ASSUME AnswersInv, Silently, NEW r \in Requests, NEW q, req' = [req EXCEPT ![r] = q],
         q.op # "RotateWrite", q.op \in {"LoginClear", "CreateSession"} => q.user \in Users,
         q.op = "idle" \/ req[r].op # "idle" \/ MayStart
  PROVE  AnswersInv'
<1>1. req' = [x \in Requests |-> req'[x]] /\ req'[r] = q /\ \A x \in Requests \ {r} : req'[x] = req[x]
  BY DEF AnswersInv
<1>2. \A x \in Requests : Knows(req[x])'
  <2>1. Knows(req[r])'
    BY <1>1 DEF Knows
  <2>2. \A x \in Requests \ {r} : Knows(req[x])'
    BY <1>1 DEF AnswersInv, Knows, Silently
  <2> QED BY <2>1, <2>2
<1>3. OneAtATime'
  BY <1>1 DEF AnswersInv, OneAtATime, MayStart, Silently
<1>4. \A x \in Requests : req'[x] = req[x] \/ req'[x].op # "RotateWrite"
  BY <1>1
<1> QED BY <1>1, <1>2, <1>3, <1>4, SilentTables, FewerWait DEF AnswersInv

LEMMA SilentIf ==
  ASSUME AnswersInv, UNCHANGED <<now, session, secrets, answers, overlap>>
  PROVE  Silently
BY DEF AnswersInv, Tables, Silently

\* Statements that write other tables, or only read.
LEMMA ElsewhereOK ==
  ASSUME AnswersInv, UNCHANGED <<now, session, secrets, answers>>, NEW r \in Requests,
         NEW q, UNCHANGED overlap, req' = [req EXCEPT ![r] = q],
         q.op # "RotateWrite", q.op \in {"LoginClear", "CreateSession"} => q.user \in Users,
         q.op = "idle" \/ req[r].op # "idle" \/ MayStart
  PROVE  AnswersInv'
BY SilentIf, AccountsRequestOK

LEMMA AccountsEndsOK ==
  ASSUME AnswersInv, UNCHANGED <<now, session, secrets, answers>>, NEW r \in Requests, Ends(r)
  PROVE  AnswersInv'
<1>1. Idle.op = "idle"
  BY DEF Idle
<1> QED BY <1>1, ElsewhereOK DEF Ends

LEMMA LoginOK ==
  ASSUME AnswersInv, NEW r \in Requests,
         \/ \E u \in Users, passwordOk \in BOOLEAN : LoginRead(r, u, passwordOk)
         \/ LoginFailed(r) \/ LoginWindow(r) \/ LoginClear(r)
  PROVE  AnswersInv'
<1>1. ASSUME NEW u \in Users, NEW passwordOk \in BOOLEAN, LoginRead(r, u, passwordOk)
      PROVE  AnswersInv'
  <2>1. PICK q : q = [op |-> IF passwordOk THEN "LoginClear" ELSE "LoginFailed", user |-> u]
    OBVIOUS
  <2>2. q.op \in {"LoginClear", "LoginFailed"} /\ q.user = u
    BY <2>1
  <2>3. /\ UNCHANGED <<now, session, secrets, answers, overlap>> /\ MayStart
        /\ req' = [req EXCEPT ![r] = q]
    BY <1>1, <2>1 DEF LoginRead, Starts, accountTables
  <2> QED BY <2>2, <2>3, ElsewhereOK
<1>2. CASE LoginFailed(r)
  <2>1. PICK q : /\ q = [op |-> "LoginWindow", user |-> req[r].user] \/ q = Idle
                 /\ req' = [req EXCEPT ![r] = q]
    BY <1>2 DEF LoginFailed, Goes, Ends
  <2>2. UNCHANGED <<now, session, secrets, answers, overlap>> /\ req[r].op # "idle"
    BY <1>2 DEF LoginFailed, Goes, Ends, At
  <2>3. q.op \in {"LoginWindow", "idle"}
    BY <2>1 DEF Idle
  <2> QED BY <2>1, <2>2, <2>3, ElsewhereOK
<1>3. CASE LoginWindow(r)
  <2>1. UNCHANGED <<now, session, secrets, answers>> /\ Ends(r)
    BY <1>3 DEF LoginWindow
  <2> QED BY <2>1, AccountsEndsOK
<1>4. CASE LoginClear(r)
  <2>1. PICK q : q = [op |-> "CreateSession", user |-> req[r].user]
    OBVIOUS
  <2>2. q.op = "CreateSession" /\ q.user \in Users
    BY <1>4, <2>1 DEF LoginClear, At, AnswersInv, Knows
  <2>3. /\ UNCHANGED <<now, session, secrets, answers, overlap>> /\ req[r].op # "idle"
        /\ req' = [req EXCEPT ![r] = q]
    BY <1>4, <2>1 DEF LoginClear, Goes, At
  <2> QED BY <2>2, <2>3, ElsewhereOK
<1> QED BY <1>1, <1>2, <1>3, <1>4

LEMMA DestroyOK ==
  ASSUME AnswersInv, NEW r \in Requests,
         DestroyAllSessions(r) \/ \E u \in Users : LogoutAll(r, u) \/ UpdateStatus(r, u)
  PROVE  AnswersInv'
<1>1. ASSUME NEW u \in Users, LogoutAll(r, u) \/ UpdateStatus(r, u) PROVE AnswersInv'
  <2>1. PICK q : /\ q = [op |-> "DestroyRead", user |-> u] \/ q = Idle
                 /\ MayStart /\ req' = [req EXCEPT ![r] = q]
    BY <1>1 DEF LogoutAll, UpdateStatus, Starts
  <2>2. UNCHANGED <<now, session, secrets, answers, overlap>>
    BY <1>1 DEF LogoutAll, UpdateStatus, Starts, accountTables
  <2>3. q.op \in {"DestroyRead", "idle"}
    BY <2>1 DEF Idle
  <2> QED BY <2>1, <2>2, <2>3, ElsewhereOK
<1>2. CASE DestroyRead(r)
  <2>1. PICK q : q = [op |-> "DestroyKeys", user |-> req[r].user,
                      sessions |-> index[req[r].user].sessions]
    OBVIOUS
  <2>2. q.op = "DestroyKeys"
    BY <2>1
  <2> QED BY <1>2, <2>1, <2>2, ElsewhereOK DEF DestroyRead, Goes, At, accountTables
<1>3. CASE DestroyKeys(r)
  <2>1. PICK q : q = [op |-> "DestroyIndex", user |-> req[r].user]
    OBVIOUS
  <2>2. q.op = "DestroyIndex"
    BY <2>1
  <2>3. Silently
    BY <1>3 DEF DestroyKeys, Goes, AnswersInv, Tables, Silently
  <2> QED BY <1>3, <2>1, <2>2, <2>3, AccountsRequestOK DEF DestroyKeys, Goes, At
<1>4. CASE DestroyIndex(r)
  BY <1>4, AccountsEndsOK DEF DestroyIndex
<1> QED BY <1>1, <1>2, <1>3, <1>4 DEF DestroyAllSessions

LEMMA InvitedOK ==
  ASSUME AnswersInv, Invited
  PROVE  AnswersInv'
<1>1. ASSUME NEW r \in Requests, UpdateRolesCommit(r) \/ ResetPassword(r) PROVE AnswersInv'
  <2>1. PICK q : /\ \/ q = Idle
                    \/ q.op \in {"ResetSet", "DestroyRead"}
                 /\ req' = [req EXCEPT ![r] = q]
    <3>1. CASE UpdateRolesCommit(r)
      BY <3>1 DEF UpdateRolesCommit, Ends
    <3>2. CASE ResetDelete(r)
      BY <3>2 DEF ResetDelete, Goes
    <3>3. CASE ResetSet(r)
      BY <3>3 DEF ResetSet, Goes
    <3> QED BY <1>1, <3>1, <3>2, <3>3 DEF ResetPassword
  <2>2. UNCHANGED <<now, session, secrets, answers, overlap>> /\ req[r].op # "idle"
    BY <1>1 DEF UpdateRolesCommit, ResetPassword, ResetDelete, ResetSet, Goes, Ends, At
  <2>3. q.op \in {"ResetSet", "DestroyRead", "idle"}
    BY <2>1 DEF Idle
  <2> QED BY <2>1, <2>2, <2>3, ElsewhereOK
<1>2. ASSUME NEW r \in Requests, NEW u \in Users, CreateUser(r, u) \/ UpdateRolesDelete(r, u)
      PROVE  AnswersInv'
  <2>1. PICK q : /\ q.op \in {"Invite", "UpdateRoles"} /\ MayStart
                 /\ req' = [req EXCEPT ![r] = q]
    <3>1. CASE CreateUser(r, u)
      BY <3>1 DEF CreateUser, Starts
    <3>2. CASE UpdateRolesDelete(r, u)
      <4>1. PICK roles \in RoleKeysDto :
              Starts(r, [op |-> "UpdateRoles", user |-> u, roles |-> roles, seen |-> user[u].roles])
        BY <3>2 DEF UpdateRolesDelete
      <4> QED BY <4>1 DEF Starts
    <3> QED BY <1>2, <3>1, <3>2
  <2>2. UNCHANGED <<now, session, secrets, answers, overlap>>
    BY <1>2 DEF CreateUser, UpdateRolesDelete, Starts, accountTables
  <2> QED BY <2>1, <2>2, ElsewhereOK
<1>3. ASSUME NEW r \in Requests, NEW k \in Tokens, IssueInviteToken(r, k) \/ ResetRead(r, k)
      PROVE  AnswersInv'
  <2>1. CASE IssueInviteToken(r, k)
    BY <2>1, AccountsEndsOK DEF IssueInviteToken
  <2>2. CASE ResetRead(r, k)
    <3>1. PICK q : q = [op |-> "ResetDelete", token |-> k, user |-> token[k]]
      OBVIOUS
    <3>2. q.op = "ResetDelete"
      BY <3>1
    <3> QED BY <2>2, <3>1, <3>2, ElsewhereOK DEF ResetRead, Starts, accountTables
  <2> QED BY <1>3, <2>1, <2>2
<1>4. ASSUME NEW k \in Tokens, TokenExpires(k) \/ \E u \in Users : ForgotPassword(u, k)
      PROVE  AnswersInv'
  <2>1. UNCHANGED <<now, session, secrets, answers, req, overlap>>
    BY <1>4 DEF TokenExpires, ForgotPassword, AtOnce
  <2> QED BY <2>1, SilentIf, NoRequestOK
<1> QED BY <1>1, <1>2, <1>3, <1>4, DestroyOK DEF Invited

LEMMA EndingOK ==
  ASSUME AnswersInv,
         \/ \E s \in Sessions : Logout(s)
         \/ \E u \in Users : ListSessions(u) \/ AttemptsExpire(u)
         \/ Tick
  PROVE  AnswersInv'
<1>1. Silently
  <2>1. CASE \E s \in Sessions : Logout(s)
    BY <2>1 DEF Logout, AtOnce, AnswersInv, Tables, Silently
  <2>2. CASE \E u \in Users : ListSessions(u) \/ AttemptsExpire(u)
    BY <2>2, SilentIf DEF ListSessions, AttemptsExpire, AtOnce
  <2>3. CASE Tick
    BY <2>3 DEF Tick, AnswersInv, Tables, Silently
  <2> QED BY <2>1, <2>2, <2>3
<1>2. UNCHANGED req
  BY DEF Logout, ListSessions, AttemptsExpire, AtOnce, Tick
<1> QED BY <1>1, <1>2, NoRequestOK

-----------------------------------------------------------------------------
(* Refreshes                                                                *)

\* A secret that is to be shown yet has had no answer, so one more may wait for it.
LEMMA RotateReadOK ==
  ASSUME AnswersInv, NEW r \in Requests, NEW s \in Sessions, RotateRead(r, s)
  PROVE  AnswersInv'
<1>1. PICK secret \in 1..secrets[s] :
        Starts(r, [op |-> IF secret = session[s].secret THEN "RotateWrite" ELSE "RotateDelete",
                   session |-> s, record |-> session[s]])
  BY DEF RotateRead
<1>2. UNCHANGED <<now, session, secrets, answers, overlap>> /\ MayStart /\ req[r].op = "idle"
  BY <1>1 DEF RotateRead, Starts, accountTables
<1>3. PICK q : q = [op |-> IF secret = session[s].secret THEN "RotateWrite" ELSE "RotateDelete",
                    session |-> s, record |-> session[s]]
  OBVIOUS
<1>4. req' = [req EXCEPT ![r] = q]
  BY <1>1, <1>3 DEF Starts
<1>5. CASE secret # session[s].secret
  <2>1. q.op = "RotateDelete"
    BY <1>3, <1>5
  <2> QED BY <1>2, <1>4, <2>1, ElsewhereOK
<1>6. CASE secret = session[s].secret
  <2>1. q.op = "RotateWrite" /\ q.session = s /\ q.record = session[s]
    BY <1>3, <1>6
  <2>2. session[s] \in SessionRow /\ session[s].secret <= secrets[s] /\ secrets[s] \in Nat
    BY <1>1, <1>6 DEF RotateRead, Live, AnswersInv, Tables
  <2>3. req' = [x \in Requests |-> req'[x]] /\ req'[r] = q /\ \A x \in Requests \ {r} : req'[x] = req[x]
    BY <1>4 DEF AnswersInv
  <2>4. \A x \in Requests : Knows(req[x])'
    <3>1. Knows(req[r])'
      BY <1>2, <2>1, <2>2, <2>3 DEF Knows
    <3>2. \A x \in Requests \ {r} : Knows(req[x])'
      BY <1>2, <2>3 DEF AnswersInv, Knows
    <3> QED BY <3>1, <3>2
  <2>5. OneAtATime'
    BY <1>2, <2>3 DEF AnswersInv, OneAtATime, MayStart
  <2>6. Tables' /\ Unanswered' /\ AtOnceAtMost' = AtOnceAtMost
    BY <1>2 DEF AnswersInv, Tables, Unanswered, Live, AtOnceAtMost
  <2>7. ASSUME NEW z \in Sessions, NEW k \in 1..MaxSecrets
        PROVE  answers'[z][k] + Cardinality(Waiting(z, k)') <= AtOnceAtMost'
    <3>1. /\ Waiting(z, k)' \in SUBSET Requests
          /\ ~overlap => \A x, y \in Waiting(z, k)' : x = y
      BY <1>2, <2>5 DEF Waiting, OneAtATime
    <3> /\ Cardinality(Waiting(z, k)') \in Nat /\ Cardinality(Waiting(z, k)) \in Nat
        /\ Cardinality(Waiting(z, k)') <= AtOnceAtMost
        /\ answers[z][k] \in Nat /\ answers' = answers
      BY <1>2, <3>1, InFlight, WaitingFinite DEF AnswersInv, Tables
    <3>2. CASE z = s /\ k = session[s].secret
      <4>1. answers[z][k] = 0
        BY <3>2 DEF RotateRead, AnswersInv, Unanswered
      <4> QED BY <2>6, <4>1
    <3>3. CASE ~(z = s /\ k = session[s].secret)
      <4>1. Waiting(z, k)' \subseteq Waiting(z, k)
        BY <2>1, <2>3, <3>3 DEF Waiting
      <4>2. Cardinality(Waiting(z, k)') <= Cardinality(Waiting(z, k))
        BY <4>1, WaitingFinite, FS_Subset
      <4>3. answers[z][k] + Cardinality(Waiting(z, k)) <= AtOnceAtMost /\ AtOnceAtMost \in Nat
        BY WaitingBounded DEF AnswersInv
      <4> QED BY <2>6, <4>2, <4>3
    <3> QED BY <3>2, <3>3
  <2> QED BY <2>3, <2>4, <2>5, <2>6, <2>7 DEF AnswersInv
<1> QED BY <1>5, <1>6

\* The answer is that of one who waited, and the next secret is new.
LEMMA RotateWriteOK ==
  ASSUME AnswersInv, NEW r \in Requests, RotateWrite(r)
  PROVE  AnswersInv'
<1> DEFINE s == req[r].session
           old == req[r].record.secret
<1>1. /\ req[r].op = "RotateWrite" /\ s \in Sessions /\ req[r].record \in SessionRow
      /\ old \in 1..MaxSecrets /\ old <= secrets[s]
  BY DEF RotateWrite, At, AnswersInv, Knows, SessionRow
<1>2. /\ secrets[s] \in Nat /\ secrets[s] < MaxSecrets /\ now \in Nat
      /\ Ttl \in Nat /\ MaxSecrets \in Nat
  BY <1>1, AccountsAssumption DEF RotateWrite, AnswersInv, Tables
<1>3. PICK kept : kept = [req[r].record EXCEPT !.secret = secrets[s] + 1, !.until = now + Ttl]
  OBVIOUS
<1>4. kept \in SessionRow /\ kept.secret = secrets[s] + 1
  <2>1. ASSUME NEW record \in SessionRow, NEW n \in 1..MaxSecrets, NEW until \in Nat,
               kept = [record EXCEPT !.secret = n, !.until = until]
        PROVE  kept \in SessionRow /\ kept.secret = n
    BY <2>1 DEF SessionRow
  <2>2. secrets[s] + 1 \in 1..MaxSecrets /\ now + Ttl \in Nat
    BY <1>2
  <2> QED BY <1>1, <1>3, <2>1, <2>2
<1>5. /\ session' = [session EXCEPT ![s] = kept]
      /\ secrets' = [secrets EXCEPT ![s] = @ + 1]
      /\ answers' = [answers EXCEPT ![s][old] = @ + 1]
      /\ UNCHANGED <<now, overlap>>
  BY <1>3 DEF RotateWrite, Answered, Goes
<1>6. PICK q : q = [op |-> "RefreshProfile", user |-> req[r].record.user]
  OBVIOUS
<1>7. q.op = "RefreshProfile" /\ req' = [req EXCEPT ![r] = q]
  BY <1>6 DEF RotateWrite, Goes
<1>8. req' = [x \in Requests |-> req'[x]] /\ req'[r] = q /\ \A x \in Requests \ {r} : req'[x] = req[x]
  BY <1>7 DEF AnswersInv
<1> HIDE DEF s, old
<1>9. Tables'
  BY <1>1, <1>2, <1>4, <1>5 DEF AnswersInv, Tables
<1>10. \A z \in Sessions : secrets'[z] \in Nat /\ secrets[z] \in Nat /\ secrets[z] <= secrets'[z]
  BY <1>5 DEF AnswersInv, Tables
<1>11. \A x \in Requests : Knows(req[x])'
  <2>1. Knows(req[r])'
    BY <1>7, <1>8 DEF Knows
  <2>2. ASSUME NEW x \in Requests \ {r} PROVE Knows(req[x])'
    <3>1. req'[x] = req[x] /\ Knows(req[x])
      BY <1>8 DEF AnswersInv
    <3>2. CASE req[x].op = "RotateWrite"
      <4>1. /\ req[x].session \in Sessions /\ req[x].record \in SessionRow
            /\ req[x].record.secret <= secrets[req[x].session]
            /\ req[x].record.secret \in Nat
        BY <3>1, <3>2, AccountsAssumption DEF Knows, SessionRow
      <4>2. req[x].record.secret <= secrets'[req[x].session]
        BY <1>10, <4>1
      <4> QED BY <3>1, <3>2, <4>1, <4>2 DEF Knows
    <3>3. CASE req[x].op # "RotateWrite"
      BY <3>1, <3>3 DEF Knows
    <3> QED BY <3>2, <3>3
  <2> QED BY <2>1, <2>2
<1>12. OneAtATime'
  BY <1>1, <1>5, <1>8 DEF AnswersInv, OneAtATime
<1>13. Unanswered'
  <2> SUFFICES ASSUME NEW z \in Sessions, NEW k \in 1..MaxSecrets,
                      (session'[z] # None /\ k = session'[z].secret) \/ k > secrets'[z]
               PROVE  answers'[z][k] = 0
    BY DEF Unanswered, Live
  <2>1. CASE z = s
    <3>1. k > secrets[s]
      BY <1>1, <1>2, <1>4, <1>5, <2>1 DEF AnswersInv, Tables
    <3>2. answers[s][k] = 0 /\ k # old
      BY <1>1, <1>2, <3>1 DEF AnswersInv, Unanswered
    <3> QED BY <1>5, <2>1, <3>2 DEF AnswersInv, Tables
  <2>2. CASE z # s
    <3>1. session'[z] = session[z] /\ secrets'[z] = secrets[z] /\ answers'[z] = answers[z]
      BY <1>5, <2>2 DEF AnswersInv, Tables
    <3> QED BY <3>1 DEF AnswersInv, Unanswered, Live
  <2> QED BY <2>1, <2>2
<1>14. ASSUME NEW z \in Sessions, NEW k \in 1..MaxSecrets
       PROVE  answers'[z][k] + Cardinality(Waiting(z, k)') <= AtOnceAtMost'
  <2>1. /\ Cardinality(Waiting(z, k)') \in Nat /\ Cardinality(Waiting(z, k)) \in Nat
        /\ answers[z][k] \in Nat /\ AtOnceAtMost' = AtOnceAtMost /\ AtOnceAtMost \in Nat
        /\ answers[z][k] + Cardinality(Waiting(z, k)) <= AtOnceAtMost
    <3>1. IsFiniteSet(Waiting(z, k)')
      BY AccountsAssumption, FS_Subset DEF Waiting
    <3>2. AtOnceAtMost' = AtOnceAtMost
      BY <1>5 DEF AtOnceAtMost
    <3> QED BY <3>1, <3>2, WaitingFinite, WaitingBounded, FS_CardinalityType DEF AnswersInv, Tables
  <2>2. Waiting(z, k)' \subseteq Waiting(z, k) \ {r}
    BY <1>7, <1>8 DEF Waiting
  <2>3. CASE z = s /\ k = old
    <3>1. answers'[z][k] = answers[z][k] + 1
      BY <1>1, <1>5, <2>3 DEF AnswersInv, Tables
    <3>2. r \in Waiting(z, k)
      BY <1>1, <2>3 DEF Waiting, s, old
    <3>3. Cardinality(Waiting(z, k)') <= Cardinality(Waiting(z, k)) - 1
      <4>1. IsFiniteSet(Waiting(z, k) \ {r})
            /\ Cardinality(Waiting(z, k) \ {r}) = Cardinality(Waiting(z, k)) - 1
        BY <3>2, WaitingFinite, FS_RemoveElement
      <4> QED BY <2>2, <4>1, FS_Subset
    <3> QED BY <2>1, <3>1, <3>3
  <2>4. CASE ~(z = s /\ k = old)
    <3>1. answers'[z][k] = answers[z][k]
      BY <1>5, <2>4 DEF AnswersInv, Tables
    <3>2. Cardinality(Waiting(z, k)') <= Cardinality(Waiting(z, k))
      BY <2>2, WaitingFinite, FS_Subset
    <3> QED BY <2>1, <3>1, <3>2
  <2> QED BY <2>3, <2>4
<1> QED BY <1>8, <1>9, <1>11, <1>12, <1>13, <1>14 DEF AnswersInv

\* The first secret of a session that never was.
LEMMA CreateSessionOK ==
  ASSUME AnswersInv, NEW r \in Requests, NEW s \in Sessions, CreateSession(r, s)
  PROVE  AnswersInv'
<1>1. PICK kept : kept = [user |-> req[r].user, createdAt |-> now, secret |-> 1, until |-> now + Ttl]
  OBVIOUS
<1>2. /\ session' = [session EXCEPT ![s] = kept] /\ secrets[s] = 0
      /\ secrets' = [secrets EXCEPT ![s] = 1]
      /\ req' = [req EXCEPT ![r] = Idle] /\ UNCHANGED <<now, answers, overlap>>
  BY <1>1 DEF CreateSession, Ends
<1>3. kept \in SessionRow /\ kept.secret = 1
  <2>1. req[r].user \in Users
    BY DEF CreateSession, At, AnswersInv, Knows
  <2> QED BY <1>1, <2>1, AccountsAssumption DEF SessionRow, AnswersInv, Tables
<1>4. /\ req' = [x \in Requests |-> req'[x]] /\ req'[r].op = "idle"
      /\ \A x \in Requests \ {r} : req'[x] = req[x]
  BY <1>2 DEF AnswersInv, Idle
<1>5. Tables'
  BY <1>2, <1>3 DEF AnswersInv, Tables
<1>6. \A z \in Sessions : secrets'[z] \in Nat /\ secrets[z] \in Nat /\ secrets[z] <= secrets'[z]
  BY <1>2 DEF AnswersInv, Tables
<1>7. \A x \in Requests : Knows(req[x])'
  <2>1. Knows(req[r])'
    BY <1>4 DEF Knows
  <2>2. ASSUME NEW x \in Requests \ {r} PROVE Knows(req[x])'
    <3>1. req'[x] = req[x] /\ Knows(req[x])
      BY <1>4 DEF AnswersInv
    <3>2. CASE req[x].op = "RotateWrite"
      <4>1. /\ req[x].session \in Sessions /\ req[x].record \in SessionRow
            /\ req[x].record.secret <= secrets[req[x].session]
            /\ req[x].record.secret \in Nat
        BY <3>1, <3>2, AccountsAssumption DEF Knows, SessionRow
      <4>2. req[x].record.secret <= secrets'[req[x].session]
        BY <1>6, <4>1
      <4> QED BY <3>1, <3>2, <4>1, <4>2 DEF Knows
    <3>3. CASE req[x].op # "RotateWrite"
      BY <3>1, <3>3 DEF Knows
    <3> QED BY <3>2, <3>3
  <2> QED BY <2>1, <2>2
<1>8. OneAtATime'
  BY <1>2, <1>4 DEF AnswersInv, OneAtATime
<1>9. Unanswered'
  <2> SUFFICES ASSUME NEW z \in Sessions, NEW k \in 1..MaxSecrets,
                      (session'[z] # None /\ k = session'[z].secret) \/ k > secrets'[z]
               PROVE  answers[z][k] = 0
    BY <1>2 DEF Unanswered, Live
  <2>1. CASE z = s
    BY <1>2, <2>1, AccountsAssumption DEF AnswersInv, Unanswered
  <2>2. CASE z # s
    <3>1. session'[z] = session[z] /\ secrets'[z] = secrets[z]
      BY <1>2, <2>2 DEF AnswersInv, Tables
    <3> QED BY <3>1 DEF AnswersInv, Unanswered, Live
  <2> QED BY <2>1, <2>2
<1>10. ASSUME NEW z \in Sessions, NEW k \in 1..MaxSecrets
       PROVE  answers'[z][k] + Cardinality(Waiting(z, k)') <= AtOnceAtMost'
  <2>1. Waiting(z, k)' \subseteq Waiting(z, k)
    BY <1>4 DEF Waiting
  <2>2. /\ Cardinality(Waiting(z, k)') <= Cardinality(Waiting(z, k))
        /\ Cardinality(Waiting(z, k)') \in Nat /\ Cardinality(Waiting(z, k)) \in Nat
    BY <2>1, WaitingFinite, FS_Subset, FS_CardinalityType
  <2>3. /\ answers[z][k] \in Nat /\ AtOnceAtMost \in Nat
        /\ answers[z][k] + Cardinality(Waiting(z, k)) <= AtOnceAtMost
    BY WaitingBounded DEF AnswersInv, Tables
  <2>4. AtOnceAtMost' = AtOnceAtMost /\ answers' = answers
    BY <1>2 DEF AtOnceAtMost
  <2> QED BY <2>2, <2>3, <2>4
<1> QED BY <1>4, <1>5, <1>7, <1>8, <1>9, <1>10 DEF AnswersInv

LEMMA RefreshOK ==
  ASSUME AnswersInv, NEW r \in Requests, Refresh(r)
  PROVE  AnswersInv'
<1>1. CASE RotateDelete(r)
  <2>1. PICK q : q = [op |-> "RotateUnindex", session |-> req[r].session, user |-> req[r].record.user]
    OBVIOUS
  <2>2. q.op = "RotateUnindex"
    BY <2>1
  <2>3. Silently
    BY <1>1 DEF RotateDelete, Goes, AnswersInv, Tables, Silently
  <2> QED BY <1>1, <2>1, <2>2, <2>3, AccountsRequestOK DEF RotateDelete, Goes, At
<1>2. CASE RotateUnindex(r)
  BY <1>2, AccountsEndsOK DEF RotateUnindex
<1>3. CASE RotateWrite(r)
  BY <1>3, RotateWriteOK
<1>4. CASE RefreshProfile(r)
  <2>1. PICK q : /\ q = [op |-> "DestroyRead", user |-> req[r].user] \/ q = Idle
                 /\ req' = [req EXCEPT ![r] = q]
    BY <1>4 DEF RefreshProfile, Goes, Ends
  <2>2. UNCHANGED <<now, session, secrets, answers, overlap>> /\ req[r].op # "idle"
    BY <1>4 DEF RefreshProfile, Goes, Ends, At, accountTables
  <2>3. q.op \in {"DestroyRead", "idle"}
    BY <2>1 DEF Idle
  <2> QED BY <2>1, <2>2, <2>3, ElsewhereOK
<1> QED BY <1>1, <1>2, <1>3, <1>4 DEF Refresh

LEMMA AccountsNextOK ==
  ASSUME AnswersInv, AccountsNext
  PROVE  AnswersInv'
<1>1. CASE SignedIn
  BY <1>1, LoginOK, RefreshOK, DestroyOK, CreateSessionOK, RotateReadOK, EndingOK DEF SignedIn
<1>2. CASE LockedOut
  BY <1>2, LoginOK, CreateSessionOK, EndingOK DEF LockedOut
<1>3. CASE Invited
  BY <1>3, InvitedOK
<1>4. CASE \E r \in Requests : AccountsDies(r)
  <2>1. PICK r \in Requests : Ends(r) /\ UNCHANGED <<now, session, secrets, answers>>
    BY <1>4 DEF AccountsDies, Dies
  <2> QED BY <2>1, AccountsEndsOK
<1> QED BY <1>1, <1>2, <1>3, <1>4 DEF AccountsNext

\* For any number of refreshes, logins, logouts and suspensions that interleave and
\* are cut short: a refresh secret is answered at most once for each request that
\* may be in flight, and once where requests come one at a time, however often its
\* session is deleted and written again.
THEOREM SecretsAnsweredOnce == AccountsSpec => []OneAnswerPerSecret
<1>1. AnswersInv /\ [AccountsNext]_<<accountTables, req, overlap>> => AnswersInv'
  <2>1. ASSUME AnswersInv, UNCHANGED <<accountTables, req, overlap>> PROVE AnswersInv'
    BY <2>1, SilentIf, NoRequestOK DEF accountTables
  <2> QED BY <2>1, AccountsNextOK
<1> QED BY AccountsInitOK, AccountsImplies, <1>1, PTL DEF AccountsSpec

(***************************************************************************)
(* Tenancy: the way of a request, while the console edits every role and a *)
(* seed runs                                                               *)
(***************************************************************************)

Context == [op : {"Handle", "Audit"}, member : Members \cup {None}, tenant : Tenants \cup {None},
            permissions : SUBSET Permissions, at : Nat, read : SUBSET Tenants]

\* A right that a token or a request carries, good until `until` : its role grants
\* it, or lost it no longer ago than a token lives.
Carries(p, until) == p \in Granted(MemberRole) \/ until <= revokedAt[MemberRole][p] + AccessTtl

\* A token that was signed is of its member's tenant.
TokenOK(t) ==
  /\ t.member \in Members /\ t.tenant = TenantOf[t.member]
  /\ t.permissions \subseteq Permissions /\ t.until \in Nat /\ t.until <= now + AccessTtl
  /\ \A p \in t.permissions : Carries(p, t.until)

\* What a request knows at each statement.
RequestOK(q) ==
  /\ q.op = "UpdatePermissions" => q.role \in RoleKeys /\ q.requested \subseteq Permissions
  /\ q.op = "Sign" =>
       /\ q.member \in Members /\ q.permissions \subseteq Permissions
       /\ \A p \in q.permissions : p \in Granted(MemberRole) \/ revokedAt[MemberRole][p] = now
  /\ q.op = "Guard" => q = [op |-> "Guard", member |-> None, tenant |-> None,
                            permissions |-> {}, at |-> 0, read |-> {}]
  /\ q.op = "SeedAccount" => q \in [op : {"SeedAccount"}, row : Nat]
  /\ q.op \in {"Handle", "Audit"} =>
       /\ q \in Context /\ q.at <= now
       /\ q.tenant # None => q.member \in Members /\ q.tenant = TenantOf[q.member]
       /\ \A t \in q.read : t = q.tenant /\ q.tenant # None
       /\ \A p \in q.permissions : Carries(p, q.at)

ConsoleOK ==
  /\ now \in Nat /\ catalog \in SUBSET Permissions
  /\ grants = [k \in RoleKeys |-> grants[k]]
  /\ \A k \in RoleKeys : Granted(k) \subseteq Permissions
  /\ revokedAt \in [RoleKeys -> [Permissions -> Nat]]
  /\ \A p \in Permissions : revokedAt[MemberRole][p] <= now

RowOK(v) == v \in Row /\ v.tenant = TenantOf[v.by] /\ v.children = v.tenant

RowsOK == row \in [Rows -> Row \cup {None}] /\ \A w \in Rows : row[w] = None \/ RowOK(row[w])

AuditOK == \A a \in audit : a.tenant = TenantOf[a.by]

\* The inductive invariant.
TenancyInv ==
  /\ req = [r \in Requests |-> req[r]]
  /\ ConsoleOK
  /\ \A t \in accessTokens : TokenOK(t)
  /\ \A r \in Requests : RequestOK(req[r])
  /\ RowsOK /\ AuditOK

LEMMA TenancyImplies == TenancyInv => ActsForItsTenant
<1> SUFFICES ASSUME TenancyInv PROVE ActsForItsTenant
  OBVIOUS
<1>1. \A w \in Rows : row[w] # None => row[w].tenant = TenantOf[row[w].by] /\ row[w].children = row[w].tenant
  BY DEF TenancyInv, RowsOK, RowOK
<1>2. ASSUME NEW r \in Requests, At(r, "Handle")
      PROVE  /\ \A t \in req[r].read : t = TenantOf[req[r].member]
             /\ \A p \in req[r].permissions :
                  p \in Granted(MemberRole) \/ req[r].at <= revokedAt[MemberRole][p] + AccessTtl
  <2>1. RequestOK(req[r]) /\ req[r].op = "Handle"
    BY <1>2 DEF TenancyInv, At
  <2> QED BY <2>1 DEF RequestOK, Carries
<1> QED BY <1>1, <1>2 DEF ActsForItsTenant, TenancyInv, AuditOK

LEMMA IdleOK == RequestOK(Idle)
BY DEF RequestOK, Idle

LEMMA TenancyInitOK == AccountsInit /\ ConsoleInit /\ TenancyInit /\ HandlersInit => TenancyInv
<1> SUFFICES ASSUME AccountsInit, ConsoleInit, TenancyInit, HandlersInit PROVE TenancyInv
  OBVIOUS
<1>1. PICK permissions \in {{}, OldCatalog} :
        catalog = permissions /\ grants = SeededWith(permissions)
  BY DEF ConsoleInit
<1>2. permissions \subseteq Permissions
  BY CatalogAssumption
<1>3. \A k \in RoleKeys : Default(k, permissions) \subseteq Permissions
  BY <1>2 DEF Default
<1>4. \A k \in RoleKeys : grants[k] = [permission : Default(k, permissions), edit : {0}]
  BY <1>1 DEF SeededWith
<1>5. \A k \in RoleKeys : Granted(k) \subseteq Permissions
  <2>1. ASSUME NEW k \in RoleKeys, NEW g \in grants[k] PROVE g.permission \in Permissions
    <3>1. g \in [permission : Default(k, permissions), edit : {0}]
      BY <1>4
    <3>2. ASSUME NEW D, g \in [permission : D, edit : {0}] PROVE g.permission \in D
      BY <3>2
    <3>3. g.permission \in Default(k, permissions)
      BY <3>1, <3>2, Zenon
    <3> QED BY <1>3, <3>3, Zenon
  <2> QED BY <2>1 DEF Granted
<1>6. ConsoleOK
  <2>1. grants = [k \in RoleKeys |-> grants[k]]
    BY <1>1 DEF SeededWith
  <2>2. /\ revokedAt \in [RoleKeys -> [Permissions -> Nat]]
        /\ \A p \in Permissions : revokedAt[MemberRole][p] <= now
    BY TenancyAssumption DEF ConsoleInit, AccountsInit
  <2>3. now \in Nat
    BY DEF AccountsInit
  <2> QED BY <1>1, <1>2, <1>5, <2>1, <2>2, <2>3 DEF ConsoleOK
<1>7. req = [r \in Requests |-> req[r]] /\ \A r \in Requests : RequestOK(req[r])
  BY IdleOK DEF HandlersInit
<1> QED BY <1>6, <1>7 DEF TenancyInv, TenancyInit, RowsOK, AuditOK

-----------------------------------------------------------------------------
(* What is carried stays good                                               *)

\* Rights are lost at the present tick only.
RightsKept ==
  /\ now' \in Nat /\ now <= now'
  /\ \A p \in Permissions :
       /\ p \in Granted(MemberRole) => p \in Granted(MemberRole)' \/ revokedAt'[MemberRole][p] = now
       /\ revokedAt[MemberRole][p] <= revokedAt'[MemberRole][p]

LEMMA RightsSame ==
  ASSUME ConsoleOK, UNCHANGED <<now, catalog, grants, revokedAt>>
  PROVE  ConsoleOK' /\ RightsKept
<1>1. \A k : Granted(k)' = Granted(k)
  BY DEF Granted
<1>2. \A p \in Permissions : revokedAt[MemberRole][p] \in Nat
  BY TenancyAssumption DEF ConsoleOK
<1>3. RightsKept
  BY <1>1, <1>2 DEF ConsoleOK, RightsKept
<1>4. ConsoleOK'
  BY <1>1 DEF ConsoleOK
<1> QED BY <1>3, <1>4

LEMMA CarriesKept ==
  ASSUME ConsoleOK, ConsoleOK', RightsKept, NEW p \in Permissions, NEW until \in Nat,
         until <= now + AccessTtl, Carries(p, until)
  PROVE  p \in Granted(MemberRole)' \/ until <= revokedAt'[MemberRole][p] + AccessTtl
<1>1. /\ AccessTtl \in Nat /\ now \in Nat
      /\ revokedAt[MemberRole][p] \in Nat /\ revokedAt'[MemberRole][p] \in Nat
  BY TenancyAssumption DEF ConsoleOK
<1>2. CASE p \in Granted(MemberRole)
  BY <1>1, <1>2 DEF RightsKept
<1>3. CASE until <= revokedAt[MemberRole][p] + AccessTtl
  BY <1>1, <1>3 DEF RightsKept
<1> QED BY <1>2, <1>3 DEF Carries

LEMMA TokenKept ==
  ASSUME ConsoleOK, ConsoleOK', RightsKept, NEW t, TokenOK(t)
  PROVE  TokenOK(t)'
<1>1. t.until <= now' + AccessTtl
  BY TenancyAssumption DEF TokenOK, RightsKept, ConsoleOK
<1>2. \A p \in t.permissions : Carries(p, t.until)'
  BY CarriesKept DEF TokenOK, Carries
<1> QED BY <1>1, <1>2 DEF TokenOK

LEMMA RequestKept ==
  ASSUME ConsoleOK, ConsoleOK', RightsKept, NEW q, RequestOK(q), q.op = "Sign" => now' = now
  PROVE  RequestOK(q)'
<1>1. CASE q.op = "Sign"
  <2>1. ASSUME NEW p \in q.permissions
        PROVE  p \in Granted(MemberRole)' \/ revokedAt'[MemberRole][p] = now'
    <3>1. /\ p \in Permissions /\ now' = now /\ now \in Nat
          /\ p \in Granted(MemberRole) \/ revokedAt[MemberRole][p] = now
      BY <1>1 DEF RequestOK, ConsoleOK
    <3>2. /\ revokedAt'[MemberRole][p] \in Nat /\ revokedAt[MemberRole][p] \in Nat
          /\ revokedAt'[MemberRole][p] <= now'
      BY <3>1, TenancyAssumption DEF ConsoleOK
    <3> QED BY <3>1, <3>2 DEF RightsKept
  <2> QED BY <1>1, <2>1 DEF RequestOK
<1>2. CASE q.op \in {"Handle", "Audit"}
  <2>1. q \in Context /\ q.at <= now /\ \A p \in q.permissions : Carries(p, q.at)
    BY <1>2 DEF RequestOK
  <2>2. q.at \in Nat /\ q.at <= now + AccessTtl /\ q.permissions \subseteq Permissions
    BY <2>1, TenancyAssumption DEF Context, ConsoleOK
  <2>3. \A p \in q.permissions : Carries(p, q.at)'
    BY <2>1, <2>2, CarriesKept DEF Carries
  <2>4. q.at <= now'
    BY <2>1, <2>2 DEF RightsKept, ConsoleOK
  <2> QED BY <1>2, <2>1, <2>3, <2>4 DEF RequestOK
<1>3. CASE q.op \notin {"Sign", "Handle", "Audit"}
  BY <1>3 DEF RequestOK
<1> QED BY <1>1, <1>2, <1>3

\* A step of request r within a tick, into locals q.
LEMMA StepOK ==
  ASSUME TenancyInv, ConsoleOK', RightsKept, now' = now,
         NEW r \in Requests, NEW q, RequestOK(q)', req' = [req EXCEPT ![r] = q]
  PROVE  req' = [x \in Requests |-> req'[x]] /\ \A x \in Requests : RequestOK(req[x])'
<1>1. req' = [x \in Requests |-> req'[x]] /\ req'[r] = q /\ \A x \in Requests \ {r} : req'[x] = req[x]
  BY DEF TenancyInv
<1>2. ASSUME NEW x \in Requests PROVE RequestOK(req[x])'
  <2>1. CASE x = r
    BY <1>1, <2>1 DEF RequestOK
  <2>2. CASE x # r
    <3>1. RequestOK(req[x]) /\ ConsoleOK /\ req'[x] = req[x]
      BY <1>1, <2>2 DEF TenancyInv
    <3>2. ASSUME NEW v, v = req[x], v = req'[x] PROVE RequestOK(req[x])'
      <4>1. RequestOK(v)
        BY <3>1, <3>2 DEF RequestOK
      <4>2. RequestOK(v)'
        BY <3>1, <4>1, RequestKept
      <4> QED BY <3>2, <4>2 DEF RequestOK
    <3> QED BY <3>1, <3>2
  <2> QED BY <2>1, <2>2
<1> QED BY <1>1, <1>2

\* The same where nothing but requests is written.
LEMMA OnlyRequest ==
  ASSUME TenancyInv, UNCHANGED <<now, catalog, grants, revokedAt, accessTokens, row, audit>>,
         NEW r \in Requests, NEW q, RequestOK(q)', req' = [req EXCEPT ![r] = q]
  PROVE  TenancyInv'
<1>1. ConsoleOK' /\ RightsKept
  BY RightsSame DEF TenancyInv
<1>2. req' = [x \in Requests |-> req'[x]] /\ \A x \in Requests : RequestOK(req[x])'
  BY <1>1, StepOK
<1>3. \A t \in accessTokens : TokenOK(t)'
  BY <1>1, TokenKept DEF TenancyInv
<1>4. RowsOK' /\ AuditOK'
  BY DEF TenancyInv, RowsOK, RowOK, AuditOK
<1> QED BY <1>1, <1>2, <1>3, <1>4 DEF TenancyInv

-----------------------------------------------------------------------------
(* The way in                                                               *)

\* Nothing of the accounts, the console and the tables is written.
Reads == UNCHANGED <<accountTables, consoleTables, tenancyTables>>

LEMMA ReadsTo ==
  ASSUME TenancyInv, Reads, NEW r \in Requests, NEW q, RequestOK(q)', req' = [req EXCEPT ![r] = q]
  PROVE  TenancyInv'
<1>1. UNCHANGED <<now, catalog, grants, revokedAt, accessTokens, row, audit>>
  BY DEF Reads, accountTables, consoleTables, tenancyTables
<1> QED BY <1>1, OnlyRequest

LEMMA TenancyEndsOK ==
  ASSUME TenancyInv, Reads, NEW r \in Requests, Ends(r)
  PROVE  TenancyInv'
<1>1. RequestOK(Idle)'
  BY DEF RequestOK, Idle
<1> QED BY <1>1, ReadsTo DEF Ends

LEMMA ReadProfileOK ==
  ASSUME TenancyInv, Reads, NEW r \in Requests, NEW m \in Members, ReadProfile(r, m)
  PROVE  TenancyInv'
<1>1. PICK q : q = [op |-> "Sign", member |-> m, permissions |-> Granted(MemberRole)]
  OBVIOUS
<1>2. Granted(MemberRole) \subseteq Permissions /\ Granted(MemberRole)' = Granted(MemberRole)
  BY TenancyAssumption DEF TenancyInv, ConsoleOK, Reads, consoleTables, Granted
<1>3. RequestOK(q)'
  BY <1>1, <1>2 DEF RequestOK
<1> QED BY <1>1, <1>3, ReadsTo DEF ReadProfile, Starts

LEMMA ArrivesOK ==
  ASSUME TenancyInv, Reads, NEW r \in Requests, Arrives(r)
  PROVE  TenancyInv'
<1>1. PICK q : q = [op |-> "Guard", member |-> None, tenant |-> None, permissions |-> {},
                    at |-> 0, read |-> {}]
  OBVIOUS
<1>2. RequestOK(q)'
  BY <1>1 DEF RequestOK
<1> QED BY <1>1, <1>2, ReadsTo DEF Arrives, Starts

LEMMA AuthenticatedOK ==
  ASSUME TenancyInv, Reads, NEW r \in Requests, Authenticated(r)
  PROVE  TenancyInv'
<1>1. PICK t \in accessTokens : /\ now < t.until
                     /\ Goes(r, [op |-> "Handle", member |-> t.member, tenant |-> t.tenant,
                                 permissions |-> t.permissions, at |-> now, read |-> {}])
  BY DEF Authenticated
<1>2. PICK q : q = [op |-> "Handle", member |-> t.member, tenant |-> t.tenant,
                    permissions |-> t.permissions, at |-> now, read |-> {}]
  OBVIOUS
<1>3. TokenOK(t) /\ now \in Nat /\ AccessTtl \in Nat
  BY TenancyAssumption DEF TenancyInv, ConsoleOK
<1>4. UNCHANGED <<now, grants, revokedAt>> /\ Granted(MemberRole)' = Granted(MemberRole)
  BY DEF Reads, accountTables, consoleTables, Granted
<1>5. q \in Context
  BY <1>2, <1>3, TenancyAssumption DEF Context, TokenOK
<1>6. ASSUME NEW p \in t.permissions
      PROVE  p \in Granted(MemberRole) \/ now <= revokedAt[MemberRole][p] + AccessTtl
  <2>1. revokedAt[MemberRole][p] \in Nat /\ t.until \in Nat /\ Carries(p, t.until)
    BY <1>3, TenancyAssumption DEF TenancyInv, ConsoleOK, TokenOK
  <2> QED BY <1>1, <1>3, <2>1 DEF Carries
<1>7. RequestOK(q)'
  BY <1>2, <1>3, <1>4, <1>5, <1>6 DEF RequestOK, TokenOK, Carries
<1> QED BY <1>1, <1>2, <1>7, ReadsTo DEF Goes

LEMMA PublicOK ==
  ASSUME TenancyInv, Reads, NEW r \in Requests, Public(r)
  PROVE  TenancyInv'
<1>1. PICK q : q = [req[r] EXCEPT !.op = "Handle"]
  OBVIOUS
<1>2. req[r] = [op |-> "Guard", member |-> None, tenant |-> None, permissions |-> {}, at |-> 0,
                read |-> {}]
  BY DEF Public, At, TenancyInv, RequestOK
<1>3. q = [op |-> "Handle", member |-> None, tenant |-> None, permissions |-> {}, at |-> 0, read |-> {}]
  BY <1>1, <1>2
<1>4. now' \in Nat
  BY DEF Reads, accountTables, TenancyInv, ConsoleOK
<1>5. RequestOK(q)'
  BY <1>3, <1>4 DEF RequestOK, Context
<1> QED BY <1>1, <1>5, ReadsTo DEF Public, Goes

\* What a handler knows, whatever it does next.
LEMMA Handling ==
  ASSUME TenancyInv, NEW r \in Requests, At(r, "Handle") \/ At(r, "Audit")
  PROVE  /\ req[r] \in Context /\ req[r].at <= now
         /\ req[r].tenant # None =>
              req[r].member \in Members /\ req[r].tenant = TenantOf[req[r].member]
         /\ \A t \in req[r].read : t = req[r].tenant /\ req[r].tenant # None
         /\ \A p \in req[r].permissions : Carries(p, req[r].at)
<1>1. RequestOK(req[r]) /\ req[r].op \in {"Handle", "Audit"}
  BY DEF TenancyInv, At
<1> QED BY <1>1 DEF RequestOK

LEMMA AnswersMutationOK ==
  ASSUME TenancyInv, Reads, NEW r \in Requests, AnswersMutation(r)
  PROVE  TenancyInv'
<1>1. PICK q : q = [req[r] EXCEPT !.op = "Audit"]
  OBVIOUS
<1>2. At(r, "Handle")
  BY DEF AnswersMutation
<1>3. /\ q \in Context /\ q.op = "Audit" /\ q.at = req[r].at /\ q.tenant = req[r].tenant
      /\ q.member = req[r].member /\ q.read = req[r].read /\ q.permissions = req[r].permissions
  BY <1>1, <1>2, Handling DEF Context
<1>4. UNCHANGED <<now, grants, revokedAt>> /\ Granted(MemberRole)' = Granted(MemberRole)
  BY DEF Reads, accountTables, consoleTables, Granted
<1>5. RequestOK(q)'
  BY <1>2, <1>3, <1>4, Handling DEF RequestOK, Carries
<1> QED BY <1>1, <1>5, ReadsTo DEF AnswersMutation, Goes

LEMMA SignAccessTokenOK ==
  ASSUME TenancyInv, UNCHANGED <<accountTables, consoleTables>>,
         NEW r \in Requests, SignAccessToken(r)
  PROVE  TenancyInv'
<1>1. UNCHANGED <<now, catalog, grants, revokedAt>>
  BY DEF accountTables, consoleTables
<1>2. ConsoleOK' /\ RightsKept
  BY <1>1, RightsSame DEF TenancyInv
<1>3. RequestOK(Idle)'
  BY DEF RequestOK, Idle
<1>4. req' = [x \in Requests |-> req'[x]] /\ \A x \in Requests : RequestOK(req[x])'
  BY <1>1, <1>2, <1>3, StepOK DEF SignAccessToken, Ends
<1>5. PICK t : t = [member |-> req[r].member, tenant |-> TenantOf[req[r].member],
                    permissions |-> req[r].permissions, until |-> now + AccessTtl]
  OBVIOUS
<1>6. TokenOK(t)
  <2>1. /\ req[r].member \in Members /\ req[r].permissions \subseteq Permissions
        /\ \A p \in req[r].permissions : p \in Granted(MemberRole) \/ revokedAt[MemberRole][p] = now
    BY DEF SignAccessToken, At, TenancyInv, RequestOK
  <2>2. now \in Nat /\ AccessTtl \in Nat
    BY TenancyAssumption DEF TenancyInv, ConsoleOK
  <2>3. \A p \in t.permissions : Carries(p, t.until)
    BY <1>5, <2>1, <2>2 DEF Carries
  <2> QED BY <1>5, <2>1, <2>2, <2>3 DEF TokenOK
<1>7. \A x \in accessTokens' : TokenOK(x)'
  BY <1>2, <1>5, <1>6, TokenKept DEF TenancyInv, SignAccessToken
<1>8. RowsOK' /\ AuditOK'
  BY DEF SignAccessToken, TenancyInv, RowsOK, RowOK, AuditOK
<1> QED BY <1>2, <1>4, <1>7, <1>8 DEF TenancyInv

-----------------------------------------------------------------------------
(* Queries                                                                  *)

\* Whatever a query names, the extension leaves it the tenant of the context.
LEMMA ScopedTo ==
  ASSUME NEW op \in Finds \cup Updates \cup Deletes \cup {"upsert"}, NEW where \in Where(op),
         NEW tenant
  PROVE  \A w \in Matching(ScopedWhere(op, where, tenant)) :
           row[w] # None /\ row[w].tenant = tenant
<1>1. PICK ids, tenants : where = [ids |-> ids, tenants |-> tenants]
  BY DEF Where
<1>2. \A t \in ScopedWhere(op, where, tenant).tenants : t = tenant
  BY <1>1 DEF ScopedWhere
<1> QED BY <1>2 DEF Matching

LEMMA FindRowsOK ==
  ASSUME TenancyInv, Reads, NEW r \in Requests, FindRows(r)
  PROVE  TenancyInv'
<1>1. At(r, "Handle") /\ req[r].tenant # None
  BY DEF FindRows, Queries
<1>0. PICK op \in Finds : \E where \in Where(op) :
        Goes(r, [req[r] EXCEPT !.read = @ \cup
          {row[w].tenant : w \in Matching(ScopedWhere(op, where, req[r].tenant))}])
  BY DEF FindRows
<1>2. PICK where \in Where(op) :
        Goes(r, [req[r] EXCEPT !.read = @ \cup
          {row[w].tenant : w \in Matching(ScopedWhere(op, where, req[r].tenant))}])
  BY <1>0
<1>3. PICK found : found = {row[w].tenant : w \in Matching(ScopedWhere(op, where, req[r].tenant))}
  OBVIOUS
<1>4. \A t \in found : t = req[r].tenant
  BY <1>3, ScopedTo
<1>5. PICK q : q = [req[r] EXCEPT !.read = @ \cup found]
  OBVIOUS
<1>6. req[r].tenant \in Tenants
  BY <1>1, Handling DEF Context
<1>7. /\ q \in Context /\ q.op = "Handle" /\ q.at = req[r].at /\ q.tenant = req[r].tenant
      /\ q.member = req[r].member /\ q.read = req[r].read \cup found
      /\ q.permissions = req[r].permissions
  BY <1>1, <1>4, <1>5, <1>6, Handling DEF Context, At
<1>8. UNCHANGED <<now, grants, revokedAt>> /\ Granted(MemberRole)' = Granted(MemberRole)
  BY DEF Reads, accountTables, consoleTables, Granted
<1>9. RequestOK(q)'
  BY <1>1, <1>4, <1>7, <1>8, Handling DEF RequestOK, Carries
<1> QED BY <1>2, <1>3, <1>5, <1>9, ReadsTo DEF Goes

\* Rows that are written are of the tenant of their writer.
LEMMA StampedOK ==
  ASSUME TenancyInv, NEW r \in Requests, Queries(r), NEW data \in Data
  PROVE  RowOK(Stamped(r, data))
<1>1. /\ req[r].tenant \in Tenants /\ req[r].member \in Members
      /\ req[r].tenant = TenantOf[req[r].member]
  BY Handling DEF Queries, Context
<1> QED BY <1>1 DEF Stamped, RowOK, Row

LEMMA RowsWritten ==
  ASSUME TenancyInv, UNCHANGED <<accountTables, consoleTables, accessTokens, audit, req, overlap>>,
         DOMAIN row' = Rows, row' = [w \in Rows |-> row'[w]],
         \A w \in Rows : row'[w] = None \/ RowOK(row'[w])
  PROVE  TenancyInv'
<1>1. UNCHANGED <<now, catalog, grants, revokedAt>>
  BY DEF accountTables, consoleTables
<1>2. ConsoleOK' /\ RightsKept
  BY <1>1, RightsSame DEF TenancyInv
<1>3. \A t \in accessTokens : TokenOK(t)'
  BY <1>2, TokenKept DEF TenancyInv
<1>4. \A r \in Requests : RequestOK(req[r])'
  <2>1. ASSUME NEW r \in Requests, NEW v, v = req[r] PROVE RequestOK(v)'
    <3>1. RequestOK(v)
      BY <2>1 DEF TenancyInv, RequestOK
    <3> QED BY <1>1, <1>2, <3>1, RequestKept DEF TenancyInv
  <2> QED BY <2>1 DEF RequestOK
<1>5. RowsOK'
  BY DEF RowsOK, RowOK
<1> QED BY <1>2, <1>3, <1>4, <1>5 DEF TenancyInv, AuditOK

LEMMA WritesOK ==
  ASSUME TenancyInv, UNCHANGED <<accountTables, consoleTables>>, NEW r \in Requests,
         CreateRow(r) \/ UpdateRows(r) \/ UpsertRow(r) \/ DeleteRows(r)
  PROVE  TenancyInv'
<1>1. Queries(r) /\ UNCHANGED <<accessTokens, audit, req, overlap>>
  BY DEF CreateRow, UpdateRows, UpsertRow, DeleteRows
<1>2. row \in [Rows -> Row \cup {None}] /\ \A w \in Rows : row[w] = None \/ RowOK(row[w])
  BY DEF TenancyInv, RowsOK
<1>3. CASE CreateRow(r)
  <2>1. PICK w \in Rows, data \in Data : row' = [row EXCEPT ![w] = Stamped(r, data)]
    BY <1>3 DEF CreateRow
  <2> QED BY <1>1, <1>2, <2>1, StampedOK, RowsWritten
<1>4. CASE UpdateRows(r)
  <2>0. PICK op \in Updates : \E where \in Where(op), data \in Data :
          row' = [w \in Rows |->
            IF w \notin Matching(ScopedWhere(op, where, req[r].tenant)) THEN row[w]
            ELSE IF op = "update" THEN Stamped(r, data)
            ELSE [row[w] EXCEPT !.by = req[r].member]]
    BY <1>4 DEF UpdateRows
  <2>1. PICK where \in Where(op), data \in Data :
          row' = [w \in Rows |->
            IF w \notin Matching(ScopedWhere(op, where, req[r].tenant)) THEN row[w]
            ELSE IF op = "update" THEN Stamped(r, data)
            ELSE [row[w] EXCEPT !.by = req[r].member]]
    BY <2>0
  <2>2. ASSUME NEW w \in Rows, w \in Matching(ScopedWhere(op, where, req[r].tenant))
        PROVE  RowOK([row[w] EXCEPT !.by = req[r].member])
    <3>1. row[w] # None /\ row[w].tenant = req[r].tenant
      BY <2>2, ScopedTo
    <3>2. req[r].member \in Members /\ req[r].tenant = TenantOf[req[r].member]
      BY <1>1, Handling DEF Queries
    <3>3. row[w] \in Row /\ row[w].children = row[w].tenant
      BY <1>2, <3>1 DEF RowOK
    <3> QED BY <3>1, <3>2, <3>3 DEF RowOK, Row
  <2>3. ASSUME NEW w \in Rows PROVE row'[w] = None \/ RowOK(row'[w])
    BY <1>1, <1>2, <2>1, <2>2, StampedOK
  <2> QED BY <1>1, <2>1, <2>3, RowsWritten
<1>5. CASE UpsertRow(r)
  <2>1. PICK where \in Where("upsert"), data \in Data :
          row' = [w \in Rows |-> IF w \in where.ids THEN Stamped(r, data) ELSE row[w]]
    BY <1>5 DEF UpsertRow
  <2> QED BY <1>1, <1>2, <2>1, StampedOK, RowsWritten
<1>6. CASE DeleteRows(r)
  <2>1. PICK gone : row' = [w \in Rows |-> IF w \in gone THEN None ELSE row[w]]
    BY <1>6 DEF DeleteRows
  <2> QED BY <1>1, <1>2, <2>1, RowsWritten
<1> QED BY <1>3, <1>4, <1>5, <1>6

LEMMA WriteAuditRowOK ==
  ASSUME TenancyInv, UNCHANGED <<accountTables, consoleTables>>, NEW r \in Requests,
         WriteAuditRow(r)
  PROVE  TenancyInv'
<1>1. UNCHANGED <<now, catalog, grants, revokedAt>>
  BY DEF accountTables, consoleTables
<1>2. ConsoleOK' /\ RightsKept
  BY <1>1, RightsSame DEF TenancyInv
<1>3. RequestOK(Idle)'
  BY DEF RequestOK, Idle
<1>4. req' = [x \in Requests |-> req'[x]] /\ \A x \in Requests : RequestOK(req[x])'
  BY <1>1, <1>2, <1>3, StepOK DEF WriteAuditRow, Ends
<1>5. \A t \in accessTokens : TokenOK(t)'
  BY <1>2, TokenKept DEF TenancyInv
<1>6. RowsOK'
  BY DEF WriteAuditRow, TenancyInv, RowsOK, RowOK
<1>7. AuditOK'
  <2>1. At(r, "Audit")
    BY DEF WriteAuditRow
  <2>2. req[r].tenant # None => req[r].tenant = TenantOf[req[r].member]
    BY <2>1, Handling
  <2> QED BY <2>2 DEF WriteAuditRow, TenancyInv, AuditOK
<1> QED BY <1>2, <1>4, <1>5, <1>6, <1>7 DEF TenancyInv, WriteAuditRow

LEMMA RoutedOK ==
  ASSUME TenancyInv, Routed
  PROVE  TenancyInv'
<1>1. UNCHANGED <<accountTables, consoleTables>>
  BY DEF Routed
<1>2. ASSUME NEW r \in Requests, NEW m \in Members, ReadProfile(r, m) PROVE TenancyInv'
  BY <1>1, <1>2, ReadProfileOK DEF ReadProfile, Reads
<1>3. ASSUME NEW r \in Requests, SignAccessToken(r) PROVE TenancyInv'
  BY <1>1, <1>3, SignAccessTokenOK
<1>4. ASSUME NEW r \in Requests, Arrives(r) \/ Authenticated(r) \/ Public(r) PROVE TenancyInv'
  BY <1>1, <1>4, ArrivesOK, AuthenticatedOK, PublicOK DEF Arrives, Authenticated, Public, Reads
<1>5. ASSUME NEW r \in Requests, Query(r) PROVE TenancyInv'
  BY <1>1, <1>5, FindRowsOK, WritesOK DEF Query, FindRows, Reads
<1>6. ASSUME NEW r \in Requests, Answers(r) \/ AnswersMutation(r) PROVE TenancyInv'
  BY <1>1, <1>6, TenancyEndsOK, AnswersMutationOK DEF Answers, AnswersMutation, Reads
<1>7. ASSUME NEW r \in Requests, WriteAuditRow(r) PROVE TenancyInv'
  BY <1>1, <1>7, WriteAuditRowOK
<1> QED BY <1>2, <1>3, <1>4, <1>5, <1>6, <1>7 DEF Routed, LetIn

-----------------------------------------------------------------------------
(* The console and the seed                                                 *)

\* A statement of the console, with its effect on rights worked out.
LEMMA ConsoleStep ==
  ASSUME TenancyInv, UNCHANGED <<accountTables, tenancyTables>>, ConsoleOK', RightsKept,
         NEW r \in Requests, NEW q, RequestOK(q)', req' = [req EXCEPT ![r] = q]
  PROVE  TenancyInv'
<1>1. UNCHANGED <<now, accessTokens, row, audit>>
  BY DEF accountTables, tenancyTables
<1>2. req' = [x \in Requests |-> req'[x]] /\ \A x \in Requests : RequestOK(req[x])'
  BY <1>1, StepOK
<1>3. \A t \in accessTokens : TokenOK(t)'
  BY TokenKept DEF TenancyInv
<1>4. RowsOK' /\ AuditOK'
  BY <1>1 DEF TenancyInv, RowsOK, RowOK, AuditOK
<1> QED BY <1>1, <1>2, <1>3, <1>4 DEF TenancyInv

\* One that writes no grant.
LEMMA NoRightStep ==
  ASSUME TenancyInv, UNCHANGED <<accountTables, tenancyTables, grants, revokedAt>>,
         catalog' \in SUBSET Permissions,
         NEW r \in Requests, NEW q, RequestOK(q)', req' = [req EXCEPT ![r] = q]
  PROVE  TenancyInv'
<1>1. \A k : Granted(k)' = Granted(k)
  BY DEF Granted
<1>2. UNCHANGED now
  BY DEF accountTables
<1>3. \A p \in Permissions : revokedAt[MemberRole][p] \in Nat
  BY TenancyAssumption DEF TenancyInv, ConsoleOK
<1>4. ConsoleOK' /\ RightsKept
  BY <1>1, <1>2, <1>3 DEF TenancyInv, ConsoleOK, RightsKept
<1> QED BY <1>4, ConsoleStep

\* A locals record that none of the invariant's conditions is about.
LEMMA Silent ==
  ASSUME NEW q, q.op \notin {"UpdatePermissions", "SeedAccount", "Sign", "Guard", "Handle", "Audit"}
  PROVE  RequestOK(q)'
BY DEF RequestOK

LEMMA UpdatePermissionsDeleteOK ==
  ASSUME TenancyInv, UNCHANGED <<accountTables, tenancyTables>>,
         NEW r \in Requests, NEW k \in RoleKeys, UpdatePermissionsDelete(r, k)
  PROVE  TenancyInv'
<1>1. PICK requested \in SUBSET (catalog \cap SchoolPermissions) :
        Starts(r, [op |-> "UpdatePermissions", role |-> k, requested |-> requested,
                   seen |-> grants[k]])
  BY DEF UpdatePermissionsDelete
<1>2. PICK q : q = [op |-> "UpdatePermissions", role |-> k, requested |-> requested,
                    seen |-> grants[k]]
  OBVIOUS
<1>3. requested \subseteq Permissions
  BY DEF TenancyInv, ConsoleOK
<1>4. RequestOK(q)'
  BY <1>2, <1>3 DEF RequestOK
<1>5. UNCHANGED <<grants, revokedAt>> /\ catalog' \in SUBSET Permissions
  BY DEF UpdatePermissionsDelete, consoleTables, TenancyInv, ConsoleOK
<1> QED BY <1>1, <1>2, <1>4, <1>5, NoRightStep DEF Starts

\* What is revoked now was granted, and is not among the new rows.
LEMMA UpdatePermissionsCommitOK ==
  ASSUME TenancyInv, UNCHANGED <<accountTables, tenancyTables>>,
         NEW r \in Requests, UpdatePermissionsCommit(r)
  PROVE  TenancyInv'
<1> DEFINE k == req[r].role
           new == [permission : req[r].requested, edit : {changes + 1}]
<1>1. k \in RoleKeys /\ req[r].requested \subseteq Permissions
  BY DEF UpdatePermissionsCommit, At, TenancyInv, RequestOK
<1>2. /\ grants' = [grants EXCEPT ![k] = (@ \ req[r].seen) \cup new]
      /\ revokedAt' = [revokedAt EXCEPT ![k] = [p \in Permissions |->
           IF p \in Granted(k) /\ \A g \in grants'[k] : g.permission # p THEN now ELSE @[p]]]
      /\ req' = [req EXCEPT ![r] = [op |-> "Record"]] /\ catalog' = catalog
  BY DEF UpdatePermissionsCommit, Replaced, Goes
<1>3. UNCHANGED now /\ now \in Nat
  BY DEF accountTables, TenancyInv, ConsoleOK
<1>4. grants = [x \in RoleKeys |-> grants[x]]
  BY DEF TenancyInv, ConsoleOK
<1>5. grants' = [x \in RoleKeys |-> grants'[x]] /\ grants'[k] = (grants[k] \ req[r].seen) \cup new
  BY <1>1, <1>2, <1>4
<1>6. \A x \in RoleKeys : x # k => grants'[x] = grants[x]
  BY <1>1, <1>2, <1>4
<1>7. \A x \in RoleKeys : Granted(x)' \subseteq Permissions
  <2>1. ASSUME NEW x \in RoleKeys, NEW g \in grants'[x] PROVE g.permission \in Permissions
    <3>1. CASE g \in new
      BY <1>1, <3>1
    <3>2. CASE g \in grants[x]
      BY <3>2 DEF TenancyInv, ConsoleOK, Granted
    <3> QED BY <1>5, <1>6, <2>1, <3>1, <3>2
  <2> QED BY <2>1 DEF Granted
<1>8. ASSUME NEW x \in RoleKeys, NEW p \in Permissions
      PROVE  /\ revokedAt'[x][p] \in Nat /\ revokedAt'[x][p] \in {revokedAt[x][p], now}
             /\ p \in Granted(x) => p \in Granted(x)' \/ revokedAt'[x][p] = now
  <2>1. revokedAt \in [RoleKeys -> [Permissions -> Nat]]
    BY DEF TenancyInv, ConsoleOK
  <2>2. CASE x # k
    <3>1. revokedAt'[x] = revokedAt[x] /\ grants'[x] = grants[x]
      BY <1>2, <1>6, <2>1, <2>2
    <3> QED BY <2>1, <3>1 DEF Granted
  <2>3. CASE x = k
    <3>1. revokedAt'[x][p] =
            IF p \in Granted(x) /\ \A g \in grants'[x] : g.permission # p THEN now
            ELSE revokedAt[x][p]
      BY <1>1, <1>2, <2>1, <2>3 DEF Granted
    <3>2. (\E g \in grants'[x] : g.permission = p) => p \in Granted(x)'
      BY DEF Granted
    <3> QED BY <1>3, <2>1, <2>3, <3>1, <3>2
  <2> QED BY <2>2, <2>3
<1>9. revokedAt' \in [RoleKeys -> [Permissions -> Nat]]
  <2>1. revokedAt \in [RoleKeys -> [Permissions -> Nat]]
    BY DEF TenancyInv, ConsoleOK
  <2> QED BY <1>1, <1>2, <1>3, <2>1
<1>10. ASSUME NEW p \in Permissions
       PROVE  revokedAt[MemberRole][p] <= revokedAt'[MemberRole][p] /\ revokedAt'[MemberRole][p] <= now
  <2>1. revokedAt[MemberRole][p] \in Nat /\ revokedAt[MemberRole][p] <= now
    BY TenancyAssumption DEF TenancyInv, ConsoleOK
  <2> QED BY <1>3, <1>8, <2>1, TenancyAssumption
<1>11. ConsoleOK'
  BY <1>2, <1>3, <1>5, <1>7, <1>9, <1>10 DEF ConsoleOK, TenancyInv
<1>12. RightsKept
  BY <1>3, <1>8, <1>10, TenancyAssumption DEF RightsKept
<1> HIDE DEF k, new
<1> QED BY <1>2, <1>11, <1>12, ConsoleStep, Silent

LEMMA RecordOK ==
  ASSUME TenancyInv, UNCHANGED <<accountTables, tenancyTables>>, NEW r \in Requests,
         Record(r) \/ \E f \in Flags : UpdateFlag(r, f)
  PROVE  TenancyInv'
<1>1. UNCHANGED <<grants, revokedAt>> /\ catalog' \in SUBSET Permissions
  BY DEF Record, UpdateFlag, TenancyInv, ConsoleOK
<1>2. PICK q : q \in {Idle, [op |-> "Record"]} /\ req' = [req EXCEPT ![r] = q]
  BY DEF Record, UpdateFlag, Ends, Starts
<1>3. RequestOK(q)'
  BY <1>2, Silent DEF Idle
<1> QED BY <1>1, <1>2, <1>3, NoRightStep

\* The seed only adds grants.
LEMMA SeedGrantsOK ==
  ASSUME TenancyInv, UNCHANGED <<accountTables, tenancyTables>>,
         NEW r \in Requests, SeedGrants(r)
  PROVE  TenancyInv'
<1>1. PICK k \in req[r].left :
        /\ grants' = [grants EXCEPT ![k] = WithDefaults(k)]
        /\ Goes(r, IF req[r].left = {k} THEN [op |-> "SeedFlag", left |-> Flags]
                   ELSE [op |-> "SeedGrants", left |-> req[r].left \ {k}])
  BY DEF SeedGrants
<1>2. UNCHANGED <<now, catalog, revokedAt>>
  BY DEF SeedGrants, accountTables
<1>3. grants' = [x \in RoleKeys |-> grants'[x]]
  BY <1>1 DEF TenancyInv, ConsoleOK
<1>4. ASSUME NEW x \in RoleKeys
      PROVE  grants[x] \subseteq grants'[x] /\ \A g \in grants'[x] : g.permission \in Permissions
  <2>1. \A g \in grants[x] : g.permission \in Permissions
    BY DEF TenancyInv, ConsoleOK, Granted
  <2>2. PICK added : added = Default(x, Permissions) \ Granted(x)
    OBVIOUS
  <2>3. added \subseteq Permissions
    BY <2>2 DEF Default
  <2>4. grants'[x] \in {grants[x], grants[x] \cup [permission : added, edit : {0}]}
    <3>1. CASE x = k
      <4>1. WithDefaults(k) = grants[x] \cup [permission : added, edit : {0}]
        BY <2>2, <3>1, Zenon DEF WithDefaults
      <4> QED BY <1>1, <3>1, <4>1 DEF TenancyInv, ConsoleOK
    <3>2. CASE x # k
      BY <1>1, <3>2 DEF TenancyInv, ConsoleOK
    <3> QED BY <3>1, <3>2
  <2> QED BY <2>1, <2>3, <2>4
<1>5. \A x \in RoleKeys : Granted(x) \subseteq Granted(x)' /\ Granted(x)' \subseteq Permissions
  BY <1>4 DEF Granted
<1>6. \A p \in Permissions : revokedAt[MemberRole][p] \in Nat
  BY TenancyAssumption DEF TenancyInv, ConsoleOK
<1>7. ConsoleOK' /\ RightsKept
  BY <1>2, <1>3, <1>5, <1>6, TenancyAssumption DEF TenancyInv, ConsoleOK, RightsKept
<1>8. PICK q : q = IF req[r].left = {k} THEN [op |-> "SeedFlag", left |-> Flags]
                   ELSE [op |-> "SeedGrants", left |-> req[r].left \ {k}]
  OBVIOUS
<1>9. RequestOK(q)'
  BY <1>8, Silent
<1> QED BY <1>1, <1>7, <1>8, <1>9, ConsoleStep DEF Goes

\* The other statements of the seed write no grant.
LEMMA SeedOK ==
  ASSUME TenancyInv, UNCHANGED <<accountTables, tenancyTables>>,
         NEW r \in Requests, SeedStarts(r) \/ Seed(r)
  PROVE  TenancyInv'
<1>1. CASE SeedStarts(r)
  <2>1. UNCHANGED <<catalog, grants, revokedAt>> /\ req' = [req EXCEPT ![r] = [op |-> "SeedPermission"]]
    BY <1>1 DEF SeedStarts, Starts, consoleTables
  <2>2. PICK q : q = [op |-> "SeedPermission"]
    OBVIOUS
  <2>3. RequestOK(q)'
    BY <2>2, Silent
  <2> QED BY <2>1, <2>2, <2>3, NoRightStep DEF TenancyInv, ConsoleOK
<1>2. CASE SeedPermission(r)
  <2>1. UNCHANGED <<grants, revokedAt>> /\ catalog' \in SUBSET Permissions
    BY <1>2 DEF SeedPermission, TenancyInv, ConsoleOK
  <2>2. PICK q : /\ q = req[r] \/ q = [op |-> "SeedGrants", left |-> {SuperAdmin} \cup SchoolAdmins]
                 /\ req' = [req EXCEPT ![r] = q]
    BY <1>2 DEF SeedPermission, Goes, TenancyInv
  <2>3. RequestOK(q)'
    BY <1>2, <2>2, Silent DEF SeedPermission, At
  <2> QED BY <2>1, <2>2, <2>3, NoRightStep
<1>3. CASE SeedGrants(r)
  BY <1>3, SeedGrantsOK
<1>4. CASE SeedFlagFind(r) \/ SeedFlagWrite(r)
  <2>1. UNCHANGED <<catalog, grants, revokedAt>>
    BY <1>4 DEF SeedFlagFind, SeedFlagWrite, consoleTables
  <2>2. PICK q : /\ q.op \in {"SeedFlag", "SeedFlagWrite"} \/ q = [op |-> "SeedAccount", row |-> 1]
                 /\ req' = [req EXCEPT ![r] = q]
    <3>1. CASE SeedFlagFind(r)
      <4>1. PICK f \in req[r].left :
              req' = [req EXCEPT ![r] = [op |-> "SeedFlagWrite", left |-> req[r].left \ {f},
                                         key |-> f, found |-> flag[f] > 0]]
        BY <3>1 DEF SeedFlagFind, Goes
      <4>2. PICK q : q = [op |-> "SeedFlagWrite", left |-> req[r].left \ {f}, key |-> f,
                          found |-> flag[f] > 0]
        OBVIOUS
      <4>3. q.op = "SeedFlagWrite"
        BY <4>2
      <4> QED BY <4>1, <4>2, <4>3
    <3>2. CASE SeedFlagWrite(r)
      <4>1. PICK q : /\ q = IF req[r].left = {} THEN [op |-> "SeedAccount", row |-> 1]
                            ELSE [op |-> "SeedFlag", left |-> req[r].left]
                     /\ req' = [req EXCEPT ![r] = q]
        BY <3>2 DEF SeedFlagWrite, Goes
      <4> QED BY <4>1
    <3> QED BY <1>4, <3>1, <3>2
  <2>3. RequestOK(q)'
    BY <2>2, Silent DEF RequestOK
  <2> QED BY <2>1, <2>2, <2>3, NoRightStep DEF TenancyInv, ConsoleOK
<1>5. CASE SeedAccount(r)
  <2>1. UNCHANGED <<catalog, grants, revokedAt>>
    BY <1>5 DEF SeedAccount
  <2>2. PICK q : /\ q = Idle \/ q = [req[r] EXCEPT !.row = @ + 1]
                 /\ req' = [req EXCEPT ![r] = q]
    BY <1>5 DEF SeedAccount, Ends, Goes
  <2>3. req[r] \in [op : {"SeedAccount"}, row : Nat]
    BY <1>5 DEF SeedAccount, At, TenancyInv, RequestOK
  <2>4. q = Idle \/ q \in [op : {"SeedAccount"}, row : Nat]
    BY <2>2, <2>3
  <2>5. RequestOK(q)'
    BY <2>4 DEF RequestOK, Idle
  <2> QED BY <2>1, <2>2, <2>5, NoRightStep DEF TenancyInv, ConsoleOK
<1> QED BY <1>1, <1>2, <1>3, <1>4, <1>5 DEF Seed

-----------------------------------------------------------------------------
(* Time, and requests that are cut short                                    *)

LEMMA DiesOK ==
  ASSUME TenancyInv, NEW r \in Requests, TenancyDies(r)
  PROVE  TenancyInv'
<1>1. UNCHANGED <<now, catalog, grants, revokedAt, accessTokens, row, audit>>
  BY DEF TenancyDies, ConsoleDies, AccountsDies, consoleTables, tenancyTables
<1>2. RequestOK(Idle)' /\ req' = [req EXCEPT ![r] = Idle]
  BY Silent DEF Idle, TenancyDies, ConsoleDies, AccountsDies, Dies, Ends
<1> QED BY <1>1, <1>2, OnlyRequest

LEMMA TokensAgeOK ==
  ASSUME TenancyInv, TokensAge, UNCHANGED consoleTables
  PROVE  TenancyInv'
<1>1. /\ now' = now + 1 /\ UNCHANGED <<catalog, grants, revokedAt, row, audit, req>>
      /\ accessTokens' \subseteq accessTokens /\ \A r \in Requests : ~At(r, "Sign")
  BY DEF TokensAge, Tick, consoleTables
<1>2. \A k : Granted(k)' = Granted(k)
  BY <1>1 DEF Granted
<1>3. \A p \in Permissions : revokedAt[MemberRole][p] \in Nat
  BY TenancyAssumption DEF TenancyInv, ConsoleOK
<1>4. ConsoleOK' /\ RightsKept
  BY <1>1, <1>2, <1>3 DEF TenancyInv, ConsoleOK, RightsKept
<1>5. \A t \in accessTokens' : TokenOK(t)'
  BY <1>1, <1>4, TokenKept DEF TenancyInv
<1>6. ASSUME NEW r \in Requests, NEW v, v = req[r] PROVE RequestOK(v)'
  <2>1. RequestOK(v) /\ v.op # "Sign"
    BY <1>1, <1>6 DEF TenancyInv, RequestOK, At
  <2> QED BY <1>4, <2>1, RequestKept DEF TenancyInv
<1>7. \A r \in Requests : RequestOK(req[r])'
  BY <1>1, <1>6 DEF RequestOK
<1>8. RowsOK' /\ AuditOK'
  BY <1>1 DEF TenancyInv, RowsOK, RowOK, AuditOK
<1> QED BY <1>1, <1>4, <1>5, <1>7, <1>8 DEF TenancyInv

LEMMA GuardedOK ==
  ASSUME TenancyInv, Guarded
  PROVE  TenancyInv'
<1>1. CASE /\ LetIn({CHOOSE m \in Members : TRUE}) \/ \E r \in Requests : Answers(r)
           /\ UNCHANGED <<accountTables, consoleTables>>
  <2>1. (CHOOSE m \in Members : TRUE) \in Members
    BY TenancyAssumption
  <2>2. Routed
    BY <1>1, <2>1, Zenon DEF Routed, LetIn
  <2> QED BY <2>2, RoutedOK
<1>2. CASE TokensAge /\ UNCHANGED consoleTables
  BY <1>2, TokensAgeOK
<1>3. CASE /\ \E r \in Requests :
                \/ UpdatePermissionsDelete(r, MemberRole) \/ UpdatePermissionsCommit(r) \/ Record(r)
           /\ UNCHANGED <<accountTables, tenancyTables>>
  BY <1>3, TenancyAssumption, UpdatePermissionsDeleteOK, UpdatePermissionsCommitOK, RecordOK
<1> QED BY <1>1, <1>2, <1>3 DEF Guarded

LEMMA TenancyNextOK ==
  ASSUME TenancyInv, TenancyNext
  PROVE  TenancyInv'
<1>1. CASE Routed
  BY <1>1, RoutedOK
<1>2. CASE Guarded
  BY <1>2, GuardedOK
<1>3. CASE RolesController /\ UNCHANGED <<accountTables, tenancyTables>>
  BY <1>3, UpdatePermissionsDeleteOK, UpdatePermissionsCommitOK, RecordOK DEF RolesController
<1>4. CASE FlagsController /\ UNCHANGED <<accountTables, tenancyTables>>
  BY <1>4, RecordOK DEF FlagsController
<1>5. CASE SeedNext /\ UNCHANGED <<accountTables, tenancyTables>>
  BY <1>5, SeedOK DEF SeedNext
<1>6. CASE \E r \in Requests : TenancyDies(r)
  BY <1>6, DiesOK
<1> QED BY <1>1, <1>2, <1>3, <1>4, <1>5, <1>6 DEF TenancyNext, ConsoleNext, TenancyDies

LEMMA StutterOK ==
  ASSUME TenancyInv, UNCHANGED <<accountTables, consoleTables, tenancyTables, req, overlap>>
  PROVE  TenancyInv'
<1>1. UNCHANGED <<now, catalog, grants, revokedAt, accessTokens, row, audit, req>>
  BY DEF accountTables, consoleTables, tenancyTables
<1>2. ConsoleOK' /\ RightsKept
  BY <1>1, RightsSame DEF TenancyInv
<1>3. \A t \in accessTokens : TokenOK(t)'
  BY <1>2, TokenKept DEF TenancyInv
<1>4. ASSUME NEW r \in Requests, NEW v, v = req[r] PROVE RequestOK(v)'
  <2>1. RequestOK(v)
    BY <1>4 DEF TenancyInv, RequestOK
  <2> QED BY <1>1, <1>2, <2>1, RequestKept DEF TenancyInv
<1>5. \A r \in Requests : RequestOK(req[r])'
  BY <1>1, <1>4 DEF RequestOK
<1> QED BY <1>1, <1>2, <1>3, <1>5 DEF TenancyInv, RowsOK, RowOK, AuditOK

\* However many requests of however many tenants interleave, with each other, with
\* edits of every role and with a seed: what a request reads and writes, and the
\* audit row it leaves, are of the tenant of its user, whatever tenant the query
\* or its data named; and its permissions are no older than an access token.
THEOREM TenantsKeptApart == TenancySpec => []ActsForItsTenant
<1>1. TenancyInv /\ [TenancyNext]_<<accountTables, consoleTables, tenancyTables, req, overlap>>
        => TenancyInv'
  BY TenancyNextOK, StutterOK
<1> QED BY TenancyInitOK, TenancyImplies, <1>1, PTL DEF TenancySpec

-----------------------------------------------------------------------------
(* Requests of all desks                                                    *)

\* A step of one desk as the requests see it: none moves, or one that may move to
\* other locals of that desk, or to its end.
Steps(reqs) ==
  /\ UNCHANGED overlap
  /\ \/ UNCHANGED req
     \/ \E r \in Requests :
          /\ req' = [req EXCEPT ![r] = req'[r]] /\ req'[r] \in reqs \cup {Idle}
          /\ req[r] \in reqs \/ (MayStart /\ req[r].op = "idle")

LEMMA StartSteps ==
  ASSUME NEW Q, NEW r \in Requests, NEW q \in Q \cup {Idle}, DOMAIN req = Requests, Starts(r, q)
  PROVE  Steps(Q)
BY DEF Starts, Steps

LEMMA GoSteps ==
  ASSUME NEW Q, NEW r \in Requests, NEW q \in Q \cup {Idle}, DOMAIN req = Requests,
         req[r] \in Q, Goes(r, q)
  PROVE  Steps(Q)
BY DEF Goes, Steps

LEMMA EndSteps ==
  ASSUME NEW Q, NEW r \in Requests, DOMAIN req = Requests, req[r] \in Q, Ends(r)
  PROVE  Steps(Q)
BY DEF Ends, Steps

LEMMA AtOnceSteps == ASSUME NEW Q, AtOnce PROVE Steps(Q)
BY DEF AtOnce, Steps

LEMMA DiesSteps ==
  ASSUME DOMAIN req = Requests, NEW Q, NEW ops, \A r \in Requests : req[r].op \in ops => req[r] \in Q,
         Moves(ops), NEW r \in Requests, Dies(r)
  PROVE  Steps(Q)
<1>1. req'[r] = Idle /\ req[r].op # "idle" /\ Idle.op = "idle"
  BY DEF Dies, Ends, Idle
<1>2. req[r].op \in ops
  BY <1>1 DEF Moves
<1> QED BY <1>2, EndSteps DEF Dies

InFlightOK == DOMAIN req = Requests /\ overlap \in BOOLEAN /\ OneAtATime

LEMMA StepsInFlight ==
  ASSUME InFlightOK, NEW Q, \A q \in Q : q.op # "idle", Steps(Q)
  PROVE  InFlightOK'
<1>1. CASE UNCHANGED req
  BY <1>1 DEF InFlightOK, OneAtATime, Steps
<1>2. CASE \E r \in Requests :
             /\ req' = [req EXCEPT ![r] = req'[r]] /\ req'[r] \in Q \cup {Idle}
             /\ req[r] \in Q \/ (MayStart /\ req[r].op = "idle")
  <2>1. PICK r \in Requests :
             /\ req' = [req EXCEPT ![r] = req'[r]] /\ req'[r] \in Q \cup {Idle}
             /\ req[r] \in Q \/ (MayStart /\ req[r].op = "idle")
    BY <1>2
  <2>2. DOMAIN req' = Requests /\ \A x \in Requests \ {r} : req'[x] = req[x]
    BY <2>1 DEF InFlightOK
  <2>3. overlap' = overlap
    BY DEF Steps
  <2> QED BY <2>1, <2>2, <2>3 DEF InFlightOK, OneAtATime, MayStart
<1> QED BY <1>1, <1>2 DEF Steps

-----------------------------------------------------------------------------
(* Rows that are replaced as a whole                                        *)

\* C are the submissions whose children a row has, S[r] those that request r
\* has seen and will delete, for the requests that are about to replace them.
\* Each submission can be given a request of its own, which, when it is about
\* to replace the children again, has seen that one; and where requests come
\* one at a time there is one submission, which the request in flight has seen.
Apart(C, S, alone) ==
  /\ \E own \in [C -> Requests] :
       /\ \A m, n \in C : own[m] = own[n] => m = n
       /\ \A n \in C : own[n] \in DOMAIN S => n \in S[own[n]]
  /\ alone => /\ \A m, n \in C : m = n
              /\ \A r \in DOMAIN S : C \subseteq S[r]

\* Submissions are deleted, requests come that see those that are left, others go.
LEMMA ApartKeep ==
  ASSUME NEW C, NEW S, NEW alone, Apart(C, S, alone), NEW C2 \in SUBSET C, NEW S2,
         \A r \in DOMAIN S2 : (r \in DOMAIN S /\ S2[r] = S[r]) \/ C2 \subseteq S2[r]
  PROVE  Apart(C2, S2, alone)
<1>1. PICK own \in [C -> Requests] :
        /\ \A m, n \in C : own[m] = own[n] => m = n
        /\ \A n \in C : own[n] \in DOMAIN S => n \in S[own[n]]
  BY DEF Apart
<1>2. PICK own2 : own2 = [n \in C2 |-> own[n]]
  OBVIOUS
<1>3. /\ own2 \in [C2 -> Requests]
      /\ \A m, n \in C2 : own2[m] = own2[n] => m = n
  BY <1>1, <1>2
<1>4. \A n \in C2 : own2[n] \in DOMAIN S2 => n \in S2[own2[n]]
  <2>1. ASSUME NEW n \in C2, own2[n] \in DOMAIN S2 PROVE n \in S2[own2[n]]
    <3>1. own2[n] = own[n] /\ n \in C
      BY <1>2
    <3>2. CASE own[n] \in DOMAIN S /\ S2[own[n]] = S[own[n]]
      BY <1>1, <3>1, <3>2
    <3>3. CASE C2 \subseteq S2[own[n]]
      BY <3>1, <3>3
    <3> QED BY <2>1, <3>1, <3>2, <3>3
  <2> QED BY <2>1
<1>5. alone => (\A m, n \in C2 : m = n) /\ \A r \in DOMAIN S2 : C2 \subseteq S2[r]
  BY DEF Apart
<1> QED BY <1>3, <1>4, <1>5 DEF Apart

\* Request r replaces what it has seen.
LEMMA ApartCommit ==
  ASSUME NEW C, NEW S, NEW alone, Apart(C, S, alone), NEW r \in Requests, r \in DOMAIN S,
         NEW new, NEW C2 \in SUBSET ((C \ S[r]) \cup {new}), NEW S2,
         r \notin DOMAIN S2, alone => DOMAIN S2 = {},
         \A x \in DOMAIN S2 : x \in DOMAIN S /\ S2[x] = S[x]
  PROVE  Apart(C2, S2, alone)
<1>1. PICK own \in [C -> Requests] :
        /\ \A m, n \in C : own[m] = own[n] => m = n
        /\ \A n \in C : own[n] \in DOMAIN S => n \in S[own[n]]
  BY DEF Apart
<1>2. PICK own2 : own2 = [n \in C2 |-> IF n = new THEN r ELSE own[n]]
  OBVIOUS
<1>3. \A n \in C2 : n # new => n \in C /\ n \notin S[r] /\ own[n] # r
  BY <1>1
<1>4. own2 \in [C2 -> Requests] /\ \A m, n \in C2 : own2[m] = own2[n] => m = n
  BY <1>1, <1>2, <1>3
<1>5. \A n \in C2 : own2[n] \in DOMAIN S2 => n \in S2[own2[n]]
  BY <1>1, <1>2, <1>3
<1>6. alone => \A m, n \in C2 : m = n
  BY DEF Apart
<1> QED BY <1>4, <1>5, <1>6 DEF Apart

LEMMA ApartNew ==
  ASSUME NEW new, NEW C \in SUBSET {new}, NEW S, DOMAIN S = {}, NEW alone
  PROVE  Apart(C, S, alone)
<1>1. PICK r \in Requests : TRUE
  BY AccountsAssumption
<1>2. PICK own : own = [n \in C |-> r]
  OBVIOUS
<1>3. own \in [C -> Requests] /\ \A m, n \in C : m = n
  BY <1>2
<1> QED BY <1>3 DEF Apart

LEMMA ApartCard ==
  ASSUME NEW C, NEW S, Apart(C, S, ~overlap)
  PROVE  Cardinality(C) <= AtOnceAtMost
<1>1. PICK own \in [C -> Requests] : \A m, n \in C : own[m] = own[n] => m = n
  BY DEF Apart
<1>2. own \in Injection(C, Requests)
  BY <1>1 DEF Injection, IsInjective
<1>3. IsFiniteSet(C) /\ Cardinality(C) <= Cardinality(Requests)
  BY <1>2, FS_Injection, AccountsAssumption
<1>4. ASSUME ~overlap PROVE Cardinality(C) <= 1
  <2>1. \A m, n \in C : m = n
    BY <1>4 DEF Apart
  <2>2. CASE C = {}
    BY <2>2, FS_EmptySet
  <2>3. CASE C # {}
    <3>1. PICK n \in C : TRUE
      BY <2>3
    <3>2. C = {n}
      BY <2>1, <3>1
    <3>3. Cardinality({n}) = 1
      BY FS_Singleton
    <3> QED BY <3>2, <3>3
  <2> QED BY <2>2, <2>3
<1> QED BY <1>3, <1>4 DEF AtOnceAtMost

LEMMA OneMore ==
  ASSUME NEW S, IsFiniteSet(S), NEW x
  PROVE  IsFiniteSet(S \cup {x}) /\ Cardinality(S \cup {x}) <= Cardinality(S) + 1
<1>1. Cardinality(S) \in Nat
  BY FS_CardinalityType
<1>2. IsFiniteSet(S \cup {x}) /\ Cardinality(S \cup {x}) \in {Cardinality(S), Cardinality(S) + 1}
  BY FS_AddElement
<1> QED BY <1>1, <1>2

-----------------------------------------------------------------------------
(* Accounts: requests and types                                             *)

AccountsReq ==
  [op : {"LoginClear", "LoginFailed", "LoginWindow", "CreateSession", "RefreshProfile",
         "DestroyRead", "DestroyIndex", "Invite", "ResetSet"}, user : Users]
  \cup [op : {"RotateWrite", "RotateDelete"}, session : Sessions, record : SessionRecord]
  \cup [op : {"RotateUnindex"}, session : Sessions, user : Users]
  \cup [op : {"DestroyKeys"}, user : Users, sessions : SUBSET Sessions]
  \cup [op : {"ResetDelete"}, token : Tokens, user : Users]
  \cup [op : {"UpdateRoles"}, user : Users, roles : SUBSET Roles, seen : SUBSET Roles]

AccountsRequests == \A r \in Requests : req[r].op \in AccountsOps => req[r] \in AccountsReq

LEMMA AccountsReqOp ==
  ASSUME NEW q \in AccountsReq
  PROVE  /\ q.op \in AccountsOps /\ q.op # "idle"
         /\ q.op \notin {"RotateWrite", "RotateDelete"} => q.user \in Users
         /\ q.op \in {"RotateWrite", "RotateDelete"} => q.session \in Sessions /\ q.record \in SessionRecord
         /\ q.op = "RotateUnindex" => q.session \in Sessions
         /\ q.op = "DestroyKeys" => q.sessions \in SUBSET Sessions
         /\ q.op = "ResetDelete" => q.token \in Tokens
         /\ q.op = "UpdateRoles" => q.roles \in SUBSET Roles /\ q.seen \in SUBSET Roles
BY DEF AccountsReq, AccountsOps

LEMMA UserReq ==
  ASSUME NEW op \in {"LoginClear", "LoginFailed", "LoginWindow", "CreateSession", "RefreshProfile",
                     "DestroyRead", "DestroyIndex", "Invite", "ResetSet"}, NEW u \in Users
  PROVE  [op |-> op, user |-> u] \in AccountsReq
BY DEF AccountsReq

\* A request of the accounts holds its user, or what a refresh has read.
LEMMA AccountsAt ==
  ASSUME AccountsRequests, NEW r \in Requests, req[r].op \in AccountsOps
  PROVE  /\ req[r] \in AccountsReq
         /\ req[r].op \notin {"RotateWrite", "RotateDelete"} => req[r].user \in Users
         /\ req[r].op \in {"RotateWrite", "RotateDelete"} =>
              req[r].session \in Sessions /\ req[r].record \in SessionRecord /\ req[r].record.user \in Users
BY AccountsReqOp DEF AccountsRequests, SessionRecord

LEMMA SignedInSteps ==
  ASSUME AccountsTypeOK, DOMAIN req = Requests, AccountsRequests, Moves(AccountsOps), SignedIn
  PROVE  Steps(AccountsReq)
<1>1. CASE \/ \E s \in Sessions : Logout(s)
           \/ \E u \in Users : ListSessions(u)
  BY <1>1, AtOnceSteps DEF Logout, ListSessions
<1>2. CASE Tick
  BY <1>2 DEF Tick, Steps
<1>3. ASSUME NEW r \in Requests, LoginClear(r) PROVE Steps(AccountsReq)
  <2>1. req[r] \in AccountsReq /\ req[r].user \in Users
    BY <1>3, AccountsAt DEF LoginClear, At, AccountsOps
  <2>2. PICK q : q = [op |-> "CreateSession", user |-> req[r].user]
    OBVIOUS
  <2>3. q \in AccountsReq
    BY <2>1, <2>2, UserReq
  <2> QED BY <1>3, <2>1, <2>2, <2>3, GoSteps DEF LoginClear
<1>4. ASSUME NEW r \in Requests, RotateDelete(r) PROVE Steps(AccountsReq)
  <2>1. req[r] \in AccountsReq /\ req[r].session \in Sessions /\ req[r].record.user \in Users
    BY <1>4, AccountsAt DEF RotateDelete, At, AccountsOps
  <2>2. PICK q : q = [op |-> "RotateUnindex", session |-> req[r].session, user |-> req[r].record.user]
    OBVIOUS
  <2>3. q \in AccountsReq
    BY <2>1, <2>2 DEF AccountsReq
  <2> QED BY <1>4, <2>1, <2>2, <2>3, GoSteps DEF RotateDelete
<1>5. ASSUME NEW r \in Requests, RotateUnindex(r) \/ DestroyIndex(r) \/ \E s \in Sessions : CreateSession(r, s)
      PROVE  Steps(AccountsReq)
  <2>1. req[r].op \in AccountsOps /\ Ends(r)
    BY <1>5 DEF RotateUnindex, DestroyIndex, CreateSession, At, AccountsOps
  <2> QED BY <2>1, EndSteps DEF AccountsRequests
<1>6. ASSUME NEW r \in Requests, RotateWrite(r) PROVE Steps(AccountsReq)
  <2>1. req[r] \in AccountsReq /\ req[r].record.user \in Users
    BY <1>6, AccountsAt DEF RotateWrite, At, AccountsOps
  <2>2. PICK q : q = [op |-> "RefreshProfile", user |-> req[r].record.user]
    OBVIOUS
  <2>3. q \in AccountsReq
    BY <2>1, <2>2, UserReq
  <2> QED BY <1>6, <2>1, <2>2, <2>3, GoSteps DEF RotateWrite
<1>7. ASSUME NEW r \in Requests, RefreshProfile(r) PROVE Steps(AccountsReq)
  <2>1. req[r] \in AccountsReq /\ req[r].user \in Users
    BY <1>7, AccountsAt DEF RefreshProfile, At, AccountsOps
  <2>2. CASE Ends(r)
    BY <2>1, <2>2, EndSteps
  <2>3. CASE Goes(r, [op |-> "DestroyRead", user |-> req[r].user])
    <3>1. PICK q : q = [op |-> "DestroyRead", user |-> req[r].user]
      OBVIOUS
    <3>2. q \in AccountsReq
      BY <2>1, <3>1, UserReq
    <3> QED BY <2>1, <2>3, <3>1, <3>2, GoSteps
  <2> QED BY <1>7, <2>2, <2>3 DEF RefreshProfile
<1>8. ASSUME NEW r \in Requests, DestroyRead(r) PROVE Steps(AccountsReq)
  <2>1. req[r] \in AccountsReq /\ req[r].user \in Users
    BY <1>8, AccountsAt DEF DestroyRead, At, AccountsOps
  <2>2. index[req[r].user].sessions \in SUBSET Sessions
    BY <2>1 DEF AccountsTypeOK, Index
  <2>3. PICK q : q = [op |-> "DestroyKeys", user |-> req[r].user, sessions |-> index[req[r].user].sessions]
    OBVIOUS
  <2>4. q \in AccountsReq
    BY <2>1, <2>2, <2>3 DEF AccountsReq
  <2> QED BY <1>8, <2>1, <2>3, <2>4, GoSteps DEF DestroyRead
<1>9. ASSUME NEW r \in Requests, DestroyKeys(r) PROVE Steps(AccountsReq)
  <2>1. req[r] \in AccountsReq /\ req[r].user \in Users
    BY <1>9, AccountsAt DEF DestroyKeys, At, AccountsOps
  <2>2. PICK q : q = [op |-> "DestroyIndex", user |-> req[r].user]
    OBVIOUS
  <2>3. q \in AccountsReq
    BY <2>1, <2>2, UserReq
  <2> QED BY <1>9, <2>1, <2>2, <2>3, GoSteps DEF DestroyKeys
<1>10. ASSUME NEW r \in Requests, NEW s \in Sessions, RotateRead(r, s) PROVE Steps(AccountsReq)
  <2>1. PICK op \in {"RotateWrite", "RotateDelete"} :
          Starts(r, [op |-> op, session |-> s, record |-> session[s]])
    BY <1>10 DEF RotateRead
  <2>2. PICK rec \in SessionRecord : rec = session[s]
    BY <1>10 DEF RotateRead, Live, AccountsTypeOK
  <2>3. PICK q \in AccountsReq : q = [op |-> op, session |-> s, record |-> rec]
    BY DEF AccountsReq
  <2> QED BY <2>1, <2>2, <2>3, StartSteps
<1>11. ASSUME NEW r \in Requests, NEW u \in Users, LoginRead(r, u, TRUE) \/ LogoutAll(r, u) \/ UpdateStatus(r, u)
       PROVE  Steps(AccountsReq)
  <2>1. CASE LoginRead(r, u, TRUE)
    <3>1. PICK q \in AccountsReq : q = [op |-> "LoginClear", user |-> u]
      BY UserReq
    <3>2. Starts(r, q)
      BY <2>1, <3>1 DEF LoginRead
    <3> QED BY <3>2, StartSteps
  <2>2. CASE LogoutAll(r, u)
    <3>1. PICK q \in AccountsReq : q = [op |-> "DestroyRead", user |-> u]
      BY UserReq
    <3> QED BY <2>2, <3>1, StartSteps DEF LogoutAll
  <2>3. CASE UpdateStatus(r, u)
    <3>1. PICK q \in AccountsReq : q = [op |-> "DestroyRead", user |-> u]
      BY UserReq
    <3>2. Starts(r, q) \/ Starts(r, Idle)
      BY <2>3, <3>1 DEF UpdateStatus
    <3>3. CASE Starts(r, q)
      BY <3>3, StartSteps
    <3>4. CASE Starts(r, Idle)
      BY <3>4, StartSteps
    <3> QED BY <3>2, <3>3, <3>4
  <2> QED BY <1>11, <2>1, <2>2, <2>3
<1> QED BY <1>1, <1>2, <1>3, <1>4, <1>5, <1>6, <1>7, <1>8, <1>9, <1>10, <1>11
        DEF SignedIn, Refresh, DestroyAllSessions

LEMMA LockedOutSteps ==
  ASSUME AccountsTypeOK, DOMAIN req = Requests, AccountsRequests, Moves(AccountsOps), LockedOut
  PROVE  Steps(AccountsReq)
<1>1. CASE \E u \in Users : AttemptsExpire(u)
  BY <1>1 DEF AttemptsExpire, Steps
<1>2. ASSUME NEW r \in Requests, LoginFailed(r) PROVE Steps(AccountsReq)
  <2>1. req[r] \in AccountsReq /\ req[r].user \in Users
    BY <1>2, AccountsAt DEF LoginFailed, At, AccountsOps
  <2>2. PICK q : q = [op |-> "LoginWindow", user |-> req[r].user]
    OBVIOUS
  <2>3. q \in AccountsReq
    BY <2>1, <2>2, UserReq
  <2>4. Goes(r, q) \/ Ends(r)
    BY <1>2, <2>2 DEF LoginFailed
  <2> QED BY <2>1, <2>3, <2>4, GoSteps, EndSteps
<1>3. ASSUME NEW r \in Requests, LoginWindow(r) \/ \E s \in Sessions : CreateSession(r, s)
      PROVE  Steps(AccountsReq)
  <2>1. req[r].op \in AccountsOps /\ Ends(r)
    BY <1>3 DEF LoginWindow, CreateSession, At, AccountsOps
  <2> QED BY <2>1, EndSteps DEF AccountsRequests
<1>4. ASSUME NEW r \in Requests, LoginClear(r) PROVE Steps(AccountsReq)
  <2>1. req[r] \in AccountsReq /\ req[r].user \in Users
    BY <1>4, AccountsAt DEF LoginClear, At, AccountsOps
  <2>2. PICK q : q = [op |-> "CreateSession", user |-> req[r].user]
    OBVIOUS
  <2>3. q \in AccountsReq
    BY <2>1, <2>2, UserReq
  <2> QED BY <1>4, <2>1, <2>2, <2>3, GoSteps DEF LoginClear
<1>5. ASSUME NEW r \in Requests, NEW u \in Users, NEW passwordOk \in BOOLEAN, LoginRead(r, u, passwordOk)
      PROVE  Steps(AccountsReq)
  <2>1. PICK op \in {"LoginClear", "LoginFailed"} : Starts(r, [op |-> op, user |-> u])
    BY <1>5 DEF LoginRead
  <2>2. PICK q \in AccountsReq : q = [op |-> op, user |-> u]
    BY <2>1, UserReq
  <2> QED BY <2>1, <2>2, StartSteps
<1> QED BY <1>1, <1>2, <1>3, <1>4, <1>5 DEF LockedOut

LEMMA InvitedSteps ==
  ASSUME AccountsTypeOK, DOMAIN req = Requests, AccountsRequests, Moves(AccountsOps), Invited
  PROVE  Steps(AccountsReq)
<1>1. CASE \E k \in Tokens : TokenExpires(k)
  BY <1>1 DEF TokenExpires, Steps
<1>2. CASE \E k \in Tokens, u \in Users : ForgotPassword(u, k)
  BY <1>2, AtOnceSteps DEF ForgotPassword
<1>3. ASSUME NEW r \in Requests,
             UpdateRolesCommit(r) \/ DestroyIndex(r) \/ \E k \in Tokens : IssueInviteToken(r, k)
      PROVE  Steps(AccountsReq)
  <2>1. req[r].op \in AccountsOps /\ Ends(r)
    BY <1>3 DEF UpdateRolesCommit, DestroyIndex, IssueInviteToken, At, AccountsOps
  <2> QED BY <2>1, EndSteps DEF AccountsRequests
<1>4. ASSUME NEW r \in Requests, ResetDelete(r) \/ ResetSet(r) \/ DestroyKeys(r) PROVE Steps(AccountsReq)
  <2>1. req[r] \in AccountsReq /\ req[r].user \in Users
    BY <1>4, AccountsAt DEF ResetDelete, ResetSet, DestroyKeys, At, AccountsOps
  <2>2. PICK op \in {"ResetSet", "DestroyRead", "DestroyIndex"} : Goes(r, [op |-> op, user |-> req[r].user])
    BY <1>4 DEF ResetDelete, ResetSet, DestroyKeys
  <2>3. PICK q : q = [op |-> op, user |-> req[r].user]
    OBVIOUS
  <2>4. q \in AccountsReq
    BY <2>1, <2>2, <2>3, UserReq
  <2> QED BY <2>1, <2>2, <2>3, <2>4, GoSteps
<1>5. ASSUME NEW r \in Requests, DestroyRead(r) PROVE Steps(AccountsReq)
  <2>1. req[r] \in AccountsReq /\ req[r].user \in Users
    BY <1>5, AccountsAt DEF DestroyRead, At, AccountsOps
  <2>2. index[req[r].user].sessions \in SUBSET Sessions
    BY <2>1 DEF AccountsTypeOK, Index
  <2>3. PICK q : q = [op |-> "DestroyKeys", user |-> req[r].user, sessions |-> index[req[r].user].sessions]
    OBVIOUS
  <2>4. q \in AccountsReq
    BY <2>1, <2>2, <2>3 DEF AccountsReq
  <2> QED BY <1>5, <2>1, <2>3, <2>4, GoSteps DEF DestroyRead
<1>6. ASSUME NEW r \in Requests, NEW u \in Users,
             CreateUser(r, u) \/ UpdateRolesDelete(r, u) \/ UpdateStatus(r, u)
      PROVE  Steps(AccountsReq)
  <2>1. CASE CreateUser(r, u)
    <3>1. PICK q \in AccountsReq : q = [op |-> "Invite", user |-> u]
      BY UserReq
    <3> QED BY <2>1, <3>1, StartSteps DEF CreateUser
  <2>2. CASE UpdateRolesDelete(r, u)
    <3>1. PICK roles \in RoleKeysDto :
            Starts(r, [op |-> "UpdateRoles", user |-> u, roles |-> roles, seen |-> user[u].roles])
      BY <2>2 DEF UpdateRolesDelete
    <3>2. PICK seen \in SUBSET Roles : seen = user[u].roles
      BY DEF AccountsTypeOK, UserRow
    <3>3. PICK q \in AccountsReq : q = [op |-> "UpdateRoles", user |-> u, roles |-> roles, seen |-> seen]
      BY DEF AccountsReq, RoleKeysDto
    <3> QED BY <3>1, <3>2, <3>3, StartSteps
  <2>3. CASE UpdateStatus(r, u)
    <3>1. PICK q \in AccountsReq : q = [op |-> "DestroyRead", user |-> u]
      BY UserReq
    <3>2. Starts(r, q) \/ Starts(r, Idle)
      BY <2>3, <3>1 DEF UpdateStatus
    <3>3. CASE Starts(r, q)
      BY <3>3, StartSteps
    <3>4. CASE Starts(r, Idle)
      BY <3>4, StartSteps
    <3> QED BY <3>2, <3>3, <3>4
  <2> QED BY <1>6, <2>1, <2>2, <2>3
<1>7. ASSUME NEW r \in Requests, NEW k \in Tokens, ResetRead(r, k) PROVE Steps(AccountsReq)
  <2>1. PICK u \in Users : u = token[k]
    BY <1>7 DEF ResetRead, AccountsTypeOK
  <2>2. PICK q \in AccountsReq : q = [op |-> "ResetDelete", token |-> k, user |-> u]
    BY DEF AccountsReq
  <2> QED BY <1>7, <2>1, <2>2, StartSteps DEF ResetRead
<1> QED BY <1>1, <1>2, <1>3, <1>4, <1>5, <1>6, <1>7 DEF Invited, ResetPassword, DestroyAllSessions

LEMMA AccountsSteps ==
  ASSUME AccountsTypeOK, DOMAIN req = Requests, AccountsRequests, Moves(AccountsOps), AccountsNext
  PROVE  Steps(AccountsReq)
<1>1. ASSUME NEW r \in Requests, AccountsDies(r) PROVE Steps(AccountsReq)
  BY <1>1, DiesSteps DEF AccountsDies, AccountsRequests
<1> QED BY <1>1, SignedInSteps, LockedOutSteps, InvitedSteps DEF AccountsNext

KeysTyped ==
  /\ now \in 0..MaxTime /\ cut \in BOOLEAN
  /\ user \in [Users -> UserRow]
  /\ session \in [Sessions -> SessionRecord \cup {None}]
  /\ index \in [Users -> Index]
  /\ token \in [Tokens -> Users \cup {None}]
  /\ secrets \in [Sessions -> 0..MaxSecrets]

LEMMA UntilTyped ==
  ASSUME now \in 0..MaxTime
  PROVE  now + Ttl \in 0..(MaxTime + Ttl) /\ 0 \in 0..(MaxTime + Ttl) /\ NoIndex \in Index
<1>1. now + Ttl \in 0..(MaxTime + Ttl) /\ 0 \in 0..(MaxTime + Ttl)
  BY AccountsAssumption
<1> QED BY <1>1 DEF NoIndex, Index

LEMMA TickTyped == ASSUME KeysTyped, Tick PROVE KeysTyped'
<1>1. now + 1 \in 0..MaxTime
  BY AccountsAssumption DEF KeysTyped, Tick
<1>2. session' \in [Sessions -> SessionRecord \cup {None}]
  <2>1. \A s \in Sessions : session[s] \in SessionRecord \cup {None}
    BY DEF KeysTyped
  <2> QED BY <2>1 DEF Tick
<1>3. index' \in [Users -> Index]
  <2>1. (\A u \in Users : index[u] \in Index) /\ NoIndex \in Index
    BY UntilTyped DEF KeysTyped
  <2> QED BY <2>1 DEF Tick
<1> QED BY <1>1, <1>2, <1>3 DEF KeysTyped, Tick

LEMMA SessionsTyped ==
  ASSUME KeysTyped, AccountsRequests, NEW r \in Requests,
         \/ \E s \in Sessions : CreateSession(r, s)
         \/ RotateDelete(r) \/ RotateWrite(r) \/ DestroyKeys(r)
  PROVE  KeysTyped'
<1>1. req[r].op \in {"CreateSession", "RotateDelete", "RotateWrite", "DestroyKeys"}
  BY DEF CreateSession, RotateDelete, RotateWrite, DestroyKeys, At
<1>2. /\ req[r].op \in {"CreateSession", "DestroyKeys"} => req[r].user \in Users
      /\ req[r].op \in {"RotateDelete", "RotateWrite"} => req[r].session \in Sessions /\ req[r].record \in SessionRecord
  <2>1. req[r].op \in AccountsOps
    BY <1>1 DEF AccountsOps
  <2> QED BY <2>1, AccountsAt
<1>3. ASSUME NEW s \in Sessions, CreateSession(r, s) PROVE KeysTyped'
  <2>1. PICK u \in Users : u = req[r].user
    BY <1>2, <1>3 DEF CreateSession, At
  <2>2. PICK until : until = now + Ttl
    OBVIOUS
  <2>3. until \in 0..(MaxTime + Ttl)
    BY <2>2, UntilTyped DEF KeysTyped
  <2>4. PICK x : x = [user |-> u, createdAt |-> now, secret |-> 1, until |-> until]
    OBVIOUS
  <2>5. x \in SessionRecord
    <3>1. 1 \in 1..MaxSecrets
      BY AccountsAssumption
    <3> QED BY <2>3, <2>4, <3>1 DEF SessionRecord, KeysTyped
  <2>6. PICK y : y = [index[u] EXCEPT !.sessions = @ \cup {s}, !.until = until]
    OBVIOUS
  <2>7. y \in Index
    <3>1. index[u] \in Index
      BY DEF KeysTyped
    <3> QED BY <2>3, <2>6, <3>1 DEF Index
  <2>8. /\ session' = [session EXCEPT ![s] = x] /\ index' = [index EXCEPT ![u] = y]
        /\ secrets' = [secrets EXCEPT ![s] = 1] /\ UNCHANGED <<now, user, token, cut>>
    BY <1>3, <2>1, <2>2, <2>4, <2>6 DEF CreateSession
  <2>9. 1 \in 0..MaxSecrets
    BY AccountsAssumption
  <2> QED BY <2>5, <2>7, <2>8, <2>9 DEF KeysTyped
<1>4. CASE RotateDelete(r)
  BY <1>4 DEF RotateDelete, KeysTyped
<1>5. CASE RotateWrite(r)
  <2>1. PICK s \in Sessions, rec \in SessionRecord : s = req[r].session /\ rec = req[r].record
    BY <1>2, <1>5 DEF RotateWrite, At
  <2>2. PICK n : n = secrets[s] + 1
    OBVIOUS
  <2>3. n \in 1..MaxSecrets /\ n \in 0..MaxSecrets
    <3>1. secrets[s] \in 0..MaxSecrets /\ secrets[s] < MaxSecrets
      BY <1>5, <2>1 DEF RotateWrite, KeysTyped
    <3> QED BY <2>2, <3>1, AccountsAssumption
  <2>4. PICK until : until = now + Ttl
    OBVIOUS
  <2>5. until \in 0..(MaxTime + Ttl)
    BY <2>4, UntilTyped DEF KeysTyped
  <2>6. PICK x : x = [rec EXCEPT !.secret = n, !.until = until]
    OBVIOUS
  <2>7. x \in SessionRecord
    BY <2>3, <2>5, <2>6 DEF SessionRecord
  <2>8. /\ session' = [session EXCEPT ![s] = x] /\ secrets' = [secrets EXCEPT ![s] = n]
        /\ UNCHANGED <<now, user, index, token, cut>>
    BY <1>5, <2>1, <2>2, <2>4, <2>6 DEF RotateWrite
  <2> QED BY <2>3, <2>7, <2>8 DEF KeysTyped
<1>6. CASE DestroyKeys(r)
  <2>1. \A s \in Sessions : session[s] \in SessionRecord \cup {None}
    BY DEF KeysTyped
  <2>2. session' \in [Sessions -> SessionRecord \cup {None}]
    BY <1>6, <2>1 DEF DestroyKeys
  <2> QED BY <1>6, <2>2 DEF DestroyKeys, KeysTyped
<1> QED BY <1>3, <1>4, <1>5, <1>6

LEMMA IndexTyped ==
  ASSUME KeysTyped, NEW u \in Users, NEW gone,
         index' \in {[index EXCEPT ![u].sessions = @ \ gone], [index EXCEPT ![u] = NoIndex]}
  PROVE  index' \in [Users -> Index]
<1>1. PICK y : y = [index[u] EXCEPT !.sessions = @ \ gone]
  OBVIOUS
<1>2. index[u] \in Index /\ NoIndex \in Index
  BY UntilTyped DEF KeysTyped
<1>3. y \in Index
  BY <1>1, <1>2 DEF Index
<1>4. index' = [index EXCEPT ![u] = y] \/ index' = [index EXCEPT ![u] = NoIndex]
  BY <1>1
<1> QED BY <1>2, <1>3, <1>4 DEF KeysTyped

LEMMA EndsTyped ==
  ASSUME KeysTyped, AccountsRequests,
         \/ \E r \in Requests : RotateUnindex(r) \/ DestroyIndex(r)
         \/ \E s \in Sessions : Logout(s)
         \/ \E u \in Users : ListSessions(u)
  PROVE  KeysTyped'
<1>1. ASSUME NEW r \in Requests, RotateUnindex(r) \/ DestroyIndex(r) PROVE KeysTyped'
  <2>1. PICK u \in Users : u = req[r].user
    <3>1. req[r].op \in {"RotateUnindex", "DestroyIndex"}
      BY <1>1 DEF RotateUnindex, DestroyIndex, At
    <3>2. req[r].op \in AccountsOps
      BY <3>1 DEF AccountsOps
    <3> QED BY <3>1, <3>2, AccountsAt
  <2>2. PICK gone : gone = {req[r].session}
    OBVIOUS
  <2>3. index' \in {[index EXCEPT ![u].sessions = @ \ gone], [index EXCEPT ![u] = NoIndex]}
    BY <1>1, <2>1, <2>2 DEF RotateUnindex, DestroyIndex
  <2>4. index' \in [Users -> Index]
    BY <2>3, IndexTyped
  <2>5. UNCHANGED <<now, user, session, token, secrets, cut>>
    BY <1>1 DEF RotateUnindex, DestroyIndex
  <2> QED BY <2>4, <2>5 DEF KeysTyped
<1>2. ASSUME NEW s \in Sessions, Logout(s) PROVE KeysTyped'
  <2>1. PICK u \in Users : u = session[s].user
    BY <1>2 DEF Logout, Live, KeysTyped, SessionRecord
  <2>2. PICK gone : gone = {s}
    OBVIOUS
  <2>3. index' \in {[index EXCEPT ![u].sessions = @ \ gone], [index EXCEPT ![u] = NoIndex]}
    BY <1>2, <2>1, <2>2 DEF Logout
  <2>4. index' \in [Users -> Index]
    BY <2>3, IndexTyped
  <2> QED BY <1>2, <2>4 DEF Logout, KeysTyped
<1>3. ASSUME NEW u \in Users, ListSessions(u) PROVE KeysTyped'
  <2>1. PICK y : y = [index[u] EXCEPT !.sessions = {s \in @ : Live(s)}]
    OBVIOUS
  <2>2. index[u] \in Index
    BY DEF KeysTyped
  <2>3. y \in Index
    BY <2>1, <2>2 DEF Index
  <2>4. index' = [index EXCEPT ![u] = y]
    BY <1>3, <2>1 DEF ListSessions
  <2> QED BY <1>3, <2>3, <2>4 DEF ListSessions, KeysTyped
<1> QED BY <1>1, <1>2, <1>3

LEMMA UsersTyped ==
  ASSUME KeysTyped, AccountsRequests, NEW r \in Requests,
         \/ ResetSet(r) \/ UpdateRolesCommit(r)
         \/ \E u \in Users : CreateUser(r, u) \/ UpdateStatus(r, u)
  PROVE  KeysTyped'
<1>1. ASSUME NEW u \in Users, NEW x \in UserRow, user' = [user EXCEPT ![u] = x],
             UNCHANGED <<now, session, index, token, secrets, cut>>
      PROVE  KeysTyped'
  BY <1>1 DEF KeysTyped
<1>2. \A u \in Users : user[u] \in UserRow
  BY DEF KeysTyped
<1>3. CASE ResetSet(r)
  <2>1. PICK u \in Users : u = req[r].user
    BY <1>3, AccountsAt DEF ResetSet, At, AccountsOps
  <2>2. PICK x : x = [user[u] EXCEPT !.password = TRUE, !.status = "ACTIVE"]
    OBVIOUS
  <2>3. x \in UserRow
    BY <1>2, <2>2 DEF UserRow, UserStatus
  <2>4. user' = [user EXCEPT ![u] = x]
    BY <1>3, <2>1, <2>2 DEF ResetSet
  <2> QED BY <1>1, <1>3, <2>3, <2>4 DEF ResetSet
<1>4. CASE UpdateRolesCommit(r)
  <2>1. PICK u \in Users, roles \in SUBSET Roles : u = req[r].user /\ roles = req[r].roles
    BY <1>4, AccountsReqOp DEF UpdateRolesCommit, At, AccountsOps, AccountsRequests
  <2>2. PICK x : x = [user[u] EXCEPT !.roles = Replaced(@, req[r].seen, roles)]
    OBVIOUS
  <2>3. x \in UserRow
    BY <1>2, <2>2 DEF UserRow, Replaced
  <2>4. user' = [user EXCEPT ![u] = x]
    BY <1>4, <2>1, <2>2 DEF UpdateRolesCommit
  <2> QED BY <1>1, <1>4, <2>3, <2>4 DEF UpdateRolesCommit
<1>5. ASSUME NEW u \in Users, CreateUser(r, u) PROVE KeysTyped'
  <2>1. PICK roles \in RoleKeysDto :
          user' = [user EXCEPT ![u] = [status |-> "INVITED", password |-> FALSE, roles |-> roles]]
    BY <1>5 DEF CreateUser
  <2>2. PICK x : x = [status |-> "INVITED", password |-> FALSE, roles |-> roles]
    OBVIOUS
  <2>3. x \in UserRow
    BY <2>2 DEF UserRow, UserStatus, RoleKeysDto
  <2> QED BY <1>1, <1>5, <2>1, <2>2, <2>3 DEF CreateUser
<1>6. ASSUME NEW u \in Users, UpdateStatus(r, u) PROVE KeysTyped'
  <2>1. PICK dto \in UpdateUserStatusDto : user' = [user EXCEPT ![u].status = dto]
    BY <1>6 DEF UpdateStatus
  <2>2. PICK x : x = [user[u] EXCEPT !.status = dto]
    OBVIOUS
  <2>3. x \in UserRow
    BY <1>2, <2>2 DEF UserRow, UserStatus, UpdateUserStatusDto
  <2> QED BY <1>1, <1>6, <2>1, <2>2, <2>3 DEF UpdateStatus
<1> QED BY <1>3, <1>4, <1>5, <1>6

LEMMA TokensTyped ==
  ASSUME KeysTyped, AccountsRequests,
         \/ \E k \in Tokens : TokenExpires(k) \/ \E u \in Users : ForgotPassword(u, k)
         \/ \E r \in Requests : ResetDelete(r) \/ \E k \in Tokens : IssueInviteToken(r, k)
  PROVE  KeysTyped'
<1>1. ASSUME NEW k \in Tokens, TokenExpires(k) \/ \E u \in Users : ForgotPassword(u, k) PROVE KeysTyped'
  BY <1>1 DEF TokenExpires, ForgotPassword, KeysTyped
<1>2. ASSUME NEW r \in Requests, ResetDelete(r) PROVE KeysTyped'
  BY <1>2 DEF ResetDelete, KeysTyped
<1>3. ASSUME NEW r \in Requests, NEW k \in Tokens, IssueInviteToken(r, k) PROVE KeysTyped'
  <2>1. req[r].user \in Users
    BY <1>3, AccountsAt DEF IssueInviteToken, At, AccountsOps
  <2> QED BY <1>3, <2>1 DEF IssueInviteToken, KeysTyped
<1> QED BY <1>1, <1>2, <1>3

LEMMA AccountsTyped ==
  ASSUME KeysTyped, AccountsRequests, AccountsNext
  PROVE  KeysTyped'
<1>1. ASSUME UNCHANGED <<now, user, session, index, token, secrets>>, cut' \in BOOLEAN PROVE KeysTyped'
  BY <1>1 DEF KeysTyped
<1>2. cut \in BOOLEAN
  BY DEF KeysTyped
<1>3. ASSUME NEW r \in Requests,
             \/ LoginClear(r) \/ RefreshProfile(r) \/ DestroyRead(r) \/ LoginFailed(r) \/ LoginWindow(r)
             \/ \E s \in Sessions : RotateRead(r, s)
             \/ \E u \in Users : LogoutAll(r, u) \/ UpdateRolesDelete(r, u)
             \/ \E u \in Users, passwordOk \in BOOLEAN : LoginRead(r, u, passwordOk)
             \/ \E k \in Tokens : ResetRead(r, k)
             \/ AccountsDies(r)
      PROVE  KeysTyped'
  <2>1. UNCHANGED <<now, user, session, index, token, secrets>> /\ cut' \in {cut, TRUE}
    BY <1>3 DEF LoginClear, RefreshProfile, DestroyRead, LoginFailed, LoginWindow, RotateRead, LogoutAll,
                UpdateRolesDelete, LoginRead, ResetRead, AccountsDies, accountTables
  <2> QED BY <1>1, <1>2, <2>1
<1>4. CASE \E u \in Users : AttemptsExpire(u)
  BY <1>1, <1>2, <1>4 DEF AttemptsExpire
<1>5. TRUE \in BOOLEAN
  OBVIOUS
<1> QED BY <1>3, <1>4, <1>5, TickTyped, SessionsTyped, EndsTyped, UsersTyped, TokensTyped
        DEF AccountsNext, SignedIn, LockedOut, Invited, Refresh, DestroyAllSessions, ResetPassword

\* Logins that have found the wrong password of user u, not yet counted.
Failing(u) == {r \in Requests : req[r].op = "LoginFailed" /\ req[r].user = u}

AttemptsInv ==
  /\ attempts \in [Users -> [count : Nat, expires : BOOLEAN]]
  /\ \A u \in Users : attempts[u].count + Cardinality(Failing(u)) <= AttemptLimit + Cardinality(Requests)

LEMMA FailingFinite ==
  /\ \A u : IsFiniteSet(Failing(u)) /\ Cardinality(Failing(u)) \in Nat
            /\ Cardinality(Failing(u)) <= Cardinality(Requests)
  /\ Cardinality(Requests) \in Nat
<1>1. \A u : Failing(u) \subseteq Requests
  BY DEF Failing
<1>2. Cardinality(Requests) \in Nat /\ IsFiniteSet(Requests)
  BY AccountsAssumption, FS_CardinalityType
<1>3. \A u : IsFiniteSet(Failing(u)) /\ Cardinality(Failing(u)) <= Cardinality(Requests)
  BY <1>1, <1>2, FS_Subset
<1> QED BY <1>2, <1>3, FS_CardinalityType

LEMMA FailingLess ==
  ASSUME NEW u, Failing(u)' \subseteq Failing(u)
  PROVE  Cardinality(Failing(u)') \in Nat /\ Cardinality(Failing(u)') <= Cardinality(Failing(u))
<1>1. PICK S, T : S = Failing(u) /\ T = Failing(u)'
  OBVIOUS
<1>2. IsFiniteSet(S) /\ T \subseteq S
  BY <1>1, FailingFinite
<1>3. IsFiniteSet(T) /\ Cardinality(T) <= Cardinality(S)
  BY <1>2, FS_Subset
<1>4. Cardinality(T) \in Nat
  BY <1>3, FS_CardinalityType
<1> QED BY <1>1, <1>3, <1>4

\* Counters are as they were, or cleared; no login comes to be counted.
LEMMA AttemptsElse ==
  ASSUME AttemptsInv, UNCHANGED attempts,
         \A r \in Requests : req'[r] = req[r] \/ req'[r].op # "LoginFailed"
  PROVE  AttemptsInv'
<1>1. ASSUME NEW u \in Users
      PROVE  attempts'[u].count + Cardinality(Failing(u)') <= AttemptLimit + Cardinality(Requests)
  <2>1. Failing(u)' \subseteq Failing(u)
    BY DEF Failing
  <2>2. Cardinality(Failing(u)') \in Nat /\ Cardinality(Failing(u)') <= Cardinality(Failing(u))
    BY <2>1, FailingLess
  <2>3. Cardinality(Failing(u)) \in Nat /\ Cardinality(Requests) \in Nat /\ AttemptLimit \in Nat
    BY FailingFinite, AccountsAssumption
  <2>4. /\ attempts'[u].count = attempts[u].count /\ attempts[u].count \in Nat
        /\ attempts[u].count + Cardinality(Failing(u)) <= AttemptLimit + Cardinality(Requests)
    BY DEF AttemptsInv
  <2> QED BY <2>2, <2>3, <2>4
<1> QED BY <1>1 DEF AttemptsInv

LEMMA ClearedOK ==
  ASSUME AttemptsInv, NEW u \in Users, attempts' = [attempts EXCEPT ![u] = NoAttempts],
         \A r \in Requests : req'[r] = req[r] \/ req'[r].op # "LoginFailed"
  PROVE  AttemptsInv'
<1>1. attempts' \in [Users -> [count : Nat, expires : BOOLEAN]]
  BY DEF AttemptsInv, NoAttempts
<1>2. ASSUME NEW v \in Users
      PROVE  attempts'[v].count + Cardinality(Failing(v)') <= AttemptLimit + Cardinality(Requests)
  <2>1. Failing(v)' \subseteq Failing(v)
    BY DEF Failing
  <2>2. Cardinality(Failing(v)') \in Nat /\ Cardinality(Failing(v)') <= Cardinality(Failing(v))
    BY <2>1, FailingLess
  <2>3. /\ Cardinality(Failing(v)) \in Nat /\ Cardinality(Requests) \in Nat /\ AttemptLimit \in Nat
        /\ Cardinality(Failing(v)) <= Cardinality(Requests)
    BY FailingFinite, AccountsAssumption
  <2>4. /\ attempts[v].count \in Nat /\ attempts'[v].count \in {0, attempts[v].count}
        /\ attempts[v].count + Cardinality(Failing(v)) <= AttemptLimit + Cardinality(Requests)
    BY DEF AttemptsInv, NoAttempts
  <2> QED BY <2>2, <2>3, <2>4
<1> QED BY <1>1, <1>2 DEF AttemptsInv

LEMMA LoginFailedOK ==
  ASSUME AttemptsInv, InFlightOK, AccountsRequests, NEW r \in Requests, LoginFailed(r)
  PROVE  AttemptsInv'
<1>1. PICK u \in Users : u = req[r].user /\ req[r].op = "LoginFailed"
  BY AccountsAt DEF LoginFailed, At, AccountsOps
<1>2. attempts' = [attempts EXCEPT ![u].count = @ + 1]
  BY <1>1 DEF LoginFailed
<1>3. (\A x \in Requests \ {r} : req'[x] = req[x]) /\ req'[r].op # "LoginFailed"
  <2>1. PICK q : q = [op |-> "LoginWindow", user |-> req[r].user]
    OBVIOUS
  <2>2. q.op = "LoginWindow" /\ Idle.op = "idle"
    BY <2>1 DEF Idle
  <2>3. req' = [req EXCEPT ![r] = q] \/ req' = [req EXCEPT ![r] = Idle]
    BY <2>1 DEF LoginFailed, Goes, Ends
  <2> QED BY <2>2, <2>3 DEF InFlightOK
<1>4. PICK n : n = attempts[u].count + 1
  OBVIOUS
<1>5. n \in Nat /\ attempts[u].count \in Nat
  BY <1>4 DEF AttemptsInv
<1>6. PICK x : x = [attempts[u] EXCEPT !.count = n]
  OBVIOUS
<1>7. x \in [count : Nat, expires : BOOLEAN] /\ x.count = n
  BY <1>5, <1>6 DEF AttemptsInv
<1>8. attempts' = [attempts EXCEPT ![u] = x]
  BY <1>2, <1>4, <1>6
<1>9. attempts' \in [Users -> [count : Nat, expires : BOOLEAN]]
  BY <1>7, <1>8 DEF AttemptsInv
<1>10. ASSUME NEW v \in Users
       PROVE  attempts'[v].count + Cardinality(Failing(v)') <= AttemptLimit + Cardinality(Requests)
  <2>1. /\ attempts[v].count \in Nat
        /\ attempts[v].count + Cardinality(Failing(v)) <= AttemptLimit + Cardinality(Requests)
    BY DEF AttemptsInv
  <2>2. /\ Cardinality(Failing(v)) \in Nat /\ Cardinality(Requests) \in Nat /\ AttemptLimit \in Nat
        /\ IsFiniteSet(Failing(v))
    BY FailingFinite, AccountsAssumption
  <2>3. CASE v = u
    <3>1. Failing(v)' = Failing(v) \ {r} /\ r \in Failing(v)
      BY <1>1, <1>3, <2>3 DEF Failing
    <3>2. Cardinality(Failing(v)') = Cardinality(Failing(v)) - 1
      BY <2>2, <3>1, FS_RemoveElement
    <3>3. attempts'[v].count = attempts[v].count + 1
      BY <1>4, <1>7, <1>8, <2>3 DEF AttemptsInv
    <3> QED BY <2>1, <2>2, <3>2, <3>3
  <2>4. CASE v # u
    <3>1. Failing(v)' \subseteq Failing(v)
      BY <1>3 DEF Failing
    <3>2. Cardinality(Failing(v)') \in Nat /\ Cardinality(Failing(v)') <= Cardinality(Failing(v))
      BY <3>1, FailingLess
    <3>3. attempts'[v].count = attempts[v].count
      BY <1>8, <2>4 DEF AttemptsInv
    <3> QED BY <2>1, <2>2, <3>2, <3>3
  <2> QED BY <2>3, <2>4
<1> QED BY <1>9, <1>10 DEF AttemptsInv

LEMMA LoginReadOK ==
  ASSUME AttemptsInv, InFlightOK, NEW r \in Requests, NEW u \in Users, NEW passwordOk \in BOOLEAN,
         LoginRead(r, u, passwordOk)
  PROVE  AttemptsInv'
<1>1. PICK q, op : /\ q = [op |-> op, user |-> u] /\ op \in {"LoginClear", "LoginFailed"} /\ Starts(r, q)
  BY DEF LoginRead
<1>2. q.user = u
  BY <1>1
<1>3. req'[r] = q /\ (\A x \in Requests \ {r} : req'[x] = req[x]) /\ UNCHANGED attempts
  BY <1>1 DEF Starts, InFlightOK, LoginRead, accountTables
<1>4. ASSUME NEW v \in Users
      PROVE  attempts'[v].count + Cardinality(Failing(v)') <= AttemptLimit + Cardinality(Requests)
  <2>1. /\ attempts[v].count \in Nat /\ attempts'[v].count = attempts[v].count
        /\ attempts[v].count + Cardinality(Failing(v)) <= AttemptLimit + Cardinality(Requests)
    BY <1>3 DEF AttemptsInv
  <2>2. /\ Cardinality(Failing(v)) \in Nat /\ Cardinality(Requests) \in Nat /\ AttemptLimit \in Nat
    BY FailingFinite, AccountsAssumption
  <2>3. CASE v = u
    <3>1. attempts[v].count < AttemptLimit
      BY <2>3 DEF LoginRead
    <3>2. PICK T : T = Failing(v)'
      OBVIOUS
    <3>3. T \subseteq Requests
      BY <3>2 DEF Failing
    <3>4. IsFiniteSet(T) /\ Cardinality(T) <= Cardinality(Requests)
      BY <3>3, AccountsAssumption, FS_Subset
    <3>5. Cardinality(T) \in Nat
      BY <3>4, FS_CardinalityType
    <3> QED BY <2>1, <2>2, <3>1, <3>2, <3>4, <3>5
  <2>4. CASE v # u
    <3>1. Failing(v)' \subseteq Failing(v)
      BY <1>2, <1>3, <2>4 DEF Failing
    <3>2. Cardinality(Failing(v)') \in Nat /\ Cardinality(Failing(v)') <= Cardinality(Failing(v))
      BY <3>1, FailingLess
    <3> QED BY <2>1, <2>2, <3>2
  <2> QED BY <2>3, <2>4
<1> QED BY <1>3, <1>4 DEF AttemptsInv

LEMMA LoginWindowOK ==
  ASSUME AttemptsInv, InFlightOK, AccountsRequests, NEW r \in Requests, LoginWindow(r)
  PROVE  AttemptsInv'
<1>1. PICK u \in Users : u = req[r].user
  BY AccountsAt DEF LoginWindow, At, AccountsOps
<1>3. PICK x : x = [attempts[u] EXCEPT !.expires = (attempts[u].count > 0)]
  OBVIOUS
<1>4. x \in [count : Nat, expires : BOOLEAN] /\ x.count = attempts[u].count
  <2>1. attempts[u] \in [count : Nat, expires : BOOLEAN]
    BY DEF AttemptsInv
  <2>2. (attempts[u].count > 0) \in BOOLEAN
    OBVIOUS
  <2> QED BY <1>3, <2>1, <2>2
<1>5. attempts' = [attempts EXCEPT ![u] = x]
  BY <1>1, <1>3 DEF LoginWindow
<1>6. attempts' \in [Users -> [count : Nat, expires : BOOLEAN]]
  BY <1>4, <1>5 DEF AttemptsInv
<1>7. \A v \in Users : attempts'[v].count = attempts[v].count
  BY <1>4, <1>5 DEF AttemptsInv
<1>8. \A y \in Requests : req'[y] = req[y] \/ req'[y].op # "LoginFailed"
  BY DEF LoginWindow, Ends, Idle, InFlightOK
<1>9. ASSUME NEW v \in Users
      PROVE  attempts'[v].count + Cardinality(Failing(v)') <= AttemptLimit + Cardinality(Requests)
  <2>1. Failing(v)' \subseteq Failing(v)
    BY <1>8 DEF Failing
  <2>2. Cardinality(Failing(v)') \in Nat /\ Cardinality(Failing(v)') <= Cardinality(Failing(v))
    BY <2>1, FailingLess
  <2>3. Cardinality(Failing(v)) \in Nat /\ Cardinality(Requests) \in Nat /\ AttemptLimit \in Nat
    BY FailingFinite, AccountsAssumption
  <2>4. /\ attempts'[v].count = attempts[v].count /\ attempts[v].count \in Nat
        /\ attempts[v].count + Cardinality(Failing(v)) <= AttemptLimit + Cardinality(Requests)
    BY <1>7 DEF AttemptsInv
  <2> QED BY <2>2, <2>3, <2>4
<1> QED BY <1>6, <1>9 DEF AttemptsInv

-----------------------------------------------------------------------------
(* Accounts: the ends of sessions, one request at a time                    *)

\* Whatever the index says of a session that has lived for the lifetime of an index.
Overdue(rec) == now >= rec.createdAt + Ttl

Reached(s, rec) ==
  \/ Overdue(rec)
  \/ s \in index[rec.user].sessions /\ index[rec.user].until >= rec.createdAt + Ttl

Suspended(u) == user[u].status = "SUSPENDED"

\* q is about to end the sessions of user u.
Ending(q, u) == q.op \in {"DestroyRead", "DestroyKeys"} /\ q.user = u

\* A session, where q is the request in flight.
SessionOK(s, q) ==
  Live(s) =>
    /\ session[s].createdAt <= now /\ Reached(s, session[s])
    /\ Suspended(session[s].user) => Overdue(session[s]) \/ Ending(q, session[s].user)

\* What the request in flight has found.
FoundOK(q) ==
  /\ q.op = "RotateWrite" =>
       /\ q.record.createdAt <= now /\ Reached(q.session, q.record)
       /\ Suspended(q.record.user) => Overdue(q.record)
  /\ q.op = "RotateUnindex" => ~Live(q.session)
  /\ q.op = "DestroyKeys" => \A s \in Sessions : Live(s) /\ session[s].user = q.user =>
       s \in q.sessions \/ Overdue(session[s])
  /\ q.op = "DestroyIndex" => \A s \in Sessions : Live(s) /\ session[s].user = q.user =>
       Overdue(session[s])
  /\ q.op \in {"LoginClear", "CreateSession"} => user[q.user].status = "ACTIVE"

OthersIdle(r) == \A x \in Requests \ {r} : req[x].op = "idle"

SessionsInv ==
  ~overlap /\ ~cut =>
    /\ \A r \in Requests : FoundOK(req[r])
    /\ \A s \in Sessions : \E r \in Requests : SessionOK(s, req[r])

LEMMA IdleFound ==
  ASSUME NEW q, q.op = "idle"
  PROVE  FoundOK(q) /\ \A u : ~Ending(q, u)
BY DEF FoundOK, Ending

\* What request r knows when it is alone, or when there is none.
LEMMA AloneKnows ==
  ASSUME SessionsInv, ~overlap, ~cut, NEW r \in Requests, OthersIdle(r)
  PROVE  FoundOK(req[r]) /\ \A s \in Sessions : SessionOK(s, req[r])
<1>1. ASSUME NEW s \in Sessions PROVE SessionOK(s, req[r])
  <2>1. PICK x \in Requests : SessionOK(s, req[x])
    BY DEF SessionsInv
  <2>2. x = r \/ req[x].op = "idle"
    BY DEF OthersIdle
  <2> QED BY <2>1, <2>2 DEF SessionOK, Ending
<1> QED BY <1>1 DEF SessionsInv

\* A step of request r, alone, to q.
LEMMA AloneStep ==
  ASSUME InFlightOK, NEW r \in Requests, OthersIdle(r), NEW q, req' = [req EXCEPT ![r] = q],
         FoundOK(q)', \A s \in Sessions : SessionOK(s, q)'
  PROVE  SessionsInv'
<1>1. req'[r] = q /\ \A x \in Requests \ {r} : req'[x] = req[x] /\ req'[x].op = "idle"
  BY DEF InFlightOK, OthersIdle
<1>2. ASSUME NEW x \in Requests PROVE FoundOK(req[x])'
  <2>1. CASE x = r
    BY <1>1, <2>1
  <2>2. CASE x # r
    <3>1. req'[x].op = "idle"
      BY <1>1, <2>2
    <3> QED BY <3>1 DEF FoundOK
  <2> QED BY <2>1, <2>2
<1>3. ASSUME NEW s \in Sessions PROVE (\E x \in Requests : SessionOK(s, req[x]))'
  BY <1>1
<1> QED BY <1>2, <1>3 DEF SessionsInv

LEMMA Alone ==
  ASSUME InFlightOK, ~overlap, NEW r \in Requests, MayStart \/ req[r].op # "idle"
  PROVE  OthersIdle(r)
BY DEF InFlightOK, OneAtATime, OthersIdle, MayStart

\* A session as it was, of a user who is not suspended just now.
LEMMA SameSession ==
  ASSUME KeysTyped, UNCHANGED <<now, session, index>>,
         \A u \in Users : user'[u].status = "SUSPENDED" => user[u].status = "SUSPENDED",
         NEW q, NEW p, \A u \in Users : Ending(q, u) => Ending(p, u),
         NEW s \in Sessions, SessionOK(s, q)
  PROVE  SessionOK(s, p)'
<1> SUFFICES ASSUME Live(s)' PROVE SessionOK(s, p)'
  BY DEF SessionOK
<1>1. Live(s) /\ session[s].user \in Users /\ session'[s] = session[s]
  BY DEF Live, KeysTyped, SessionRecord
<1>2. session[s].createdAt <= now /\ Reached(s, session[s])
      /\ (Suspended(session[s].user) => Overdue(session[s]) \/ Ending(q, session[s].user))
  BY <1>1 DEF SessionOK
<1>3. session'[s].createdAt <= now' /\ Reached(s, session[s])'
  BY <1>1, <1>2 DEF Reached, Overdue
<1>4. Suspended(session[s].user)' => Overdue(session[s])' \/ Ending(p, session[s].user)'
  <2>1. ASSUME Suspended(session[s].user)' PROVE Overdue(session[s]) \/ Ending(p, session[s].user)
    <3>1. Suspended(session[s].user)
      BY <1>1, <2>1 DEF Suspended
    <3> QED BY <1>1, <1>2, <3>1
  <2>2. (Overdue(session[s]) => Overdue(session[s])') /\ (Ending(p, session[s].user) => Ending(p, session[s].user)')
    BY <1>1 DEF Overdue, Ending
  <2> QED BY <2>1, <2>2
<1> QED BY <1>1, <1>3, <1>4 DEF SessionOK

\* A step of the request in flight that leaves the sessions and their index.
LEMMA QuietStep ==
  ASSUME SessionsInv, InFlightOK, KeysTyped, ~overlap, ~cut, NEW r \in Requests, NEW q,
         MayStart \/ req[r].op # "idle", req' = [req EXCEPT ![r] = q],
         UNCHANGED <<now, session, index>>,
         \A u \in Users : user'[u].status = "SUSPENDED" => user[u].status = "SUSPENDED",
         \A u \in Users : Ending(req[r], u) => Ending(q, u),
         FoundOK(req[r]) /\ (\A s \in Sessions : SessionOK(s, req[r])) => FoundOK(q)'
  PROVE  SessionsInv'
<1>1. OthersIdle(r)
  BY Alone
<1>2. FoundOK(req[r]) /\ \A s \in Sessions : SessionOK(s, req[r])
  BY <1>1, AloneKnows
<1>3. \A s \in Sessions : SessionOK(s, q)'
  BY <1>2, SameSession
<1> QED BY <1>1, <1>2, <1>3, AloneStep

\* Statements that rely on what an earlier one has found.
Relies == {"RotateWrite", "RotateUnindex", "DestroyKeys", "DestroyIndex", "LoginClear", "CreateSession"}

LEMMA PlainStep ==
  ASSUME SessionsInv, InFlightOK, KeysTyped, ~overlap, ~cut, NEW r \in Requests, NEW q,
         Starts(r, q) \/ (Goes(r, q) /\ req[r].op \notin {"idle", "DestroyRead", "DestroyKeys"}),
         q.op \notin Relies, UNCHANGED <<now, session, index>>,
         \A u \in Users : user'[u].status = "SUSPENDED" => user[u].status = "SUSPENDED"
  PROVE  SessionsInv'
<1>1. MayStart \/ req[r].op # "idle"
  BY DEF Starts
<1>2. req' = [req EXCEPT ![r] = q]
  BY DEF Starts, Goes
<1>3. \A u \in Users : Ending(req[r], u) => Ending(q, u)
  BY DEF Starts, Ending
<1>4. FoundOK(q)'
  BY DEF FoundOK, Relies
<1> QED BY <1>1, <1>2, <1>3, <1>4, QuietStep

LEMMA PlainOK ==
  ASSUME SessionsInv, InFlightOK, KeysTyped, AccountsRequests, ~overlap, ~cut, NEW r \in Requests,
         \/ LoginFailed(r) \/ LoginWindow(r) \/ RefreshProfile(r) \/ ResetDelete(r) \/ ResetSet(r)
         \/ UpdateRolesCommit(r)
         \/ \E u \in Users : LogoutAll(r, u) \/ CreateUser(r, u) \/ UpdateRolesDelete(r, u)
         \/ \E k \in Tokens : IssueInviteToken(r, k) \/ ResetRead(r, k)
  PROVE  SessionsInv'
<1>1. ASSUME UNCHANGED <<now, session, index, user>>, NEW q, q.op \notin Relies,
             Starts(r, q) \/ (Goes(r, q) /\ req[r].op \notin {"idle", "DestroyRead", "DestroyKeys"})
      PROVE  SessionsInv'
  BY <1>1, PlainStep
<1>2. Idle.op \notin Relies /\ \A x : Ends(x) <=> Goes(x, Idle)
  BY DEF Idle, Relies, Ends, Goes
<1>3. CASE LoginFailed(r) \/ LoginWindow(r) \/ RefreshProfile(r) \/ ResetDelete(r)
  <2>1. /\ UNCHANGED <<now, session, index, user>>
        /\ req[r].op \notin {"idle", "DestroyRead", "DestroyKeys"}
    BY <1>3 DEF LoginFailed, LoginWindow, RefreshProfile, ResetDelete, At, accountTables
  <2>2. \/ Goes(r, Idle)
        \/ \E op \in {"LoginWindow", "DestroyRead", "ResetSet"} : Goes(r, [op |-> op, user |-> req[r].user])
    BY <1>2, <1>3 DEF LoginFailed, LoginWindow, RefreshProfile, ResetDelete
  <2>3. CASE Goes(r, Idle)
    BY <1>1, <1>2, <2>1, <2>3
  <2>4. ASSUME NEW op \in {"LoginWindow", "DestroyRead", "ResetSet"}, Goes(r, [op |-> op, user |-> req[r].user])
        PROVE  SessionsInv'
    <3>1. PICK q : q = [op |-> op, user |-> req[r].user]
      OBVIOUS
    <3>2. q.op \notin Relies
      BY <3>1 DEF Relies
    <3> QED BY <1>1, <2>1, <2>4, <3>1, <3>2
  <2> QED BY <2>2, <2>3, <2>4
<1>4. CASE \E u \in Users : LogoutAll(r, u) \/ UpdateRolesDelete(r, u)
  <2>1. PICK u \in Users : LogoutAll(r, u) \/ UpdateRolesDelete(r, u)
    BY <1>4
  <2>2. UNCHANGED <<now, session, index, user>>
    BY <2>1 DEF LogoutAll, UpdateRolesDelete, accountTables
  <2>3. CASE LogoutAll(r, u)
    <3>1. PICK q : q = [op |-> "DestroyRead", user |-> u]
      OBVIOUS
    <3>2. q.op \notin Relies /\ Starts(r, q)
      BY <2>3, <3>1 DEF Relies, LogoutAll
    <3> QED BY <1>1, <2>2, <3>2
  <2>4. CASE UpdateRolesDelete(r, u)
    <3>1. PICK q, roles : /\ q = [op |-> "UpdateRoles", user |-> u, roles |-> roles, seen |-> user[u].roles]
                          /\ Starts(r, q)
      BY <2>4 DEF UpdateRolesDelete
    <3>2. q.op \notin Relies
      BY <3>1 DEF Relies
    <3> QED BY <1>1, <2>2, <3>1, <3>2
  <2> QED BY <2>1, <2>3, <2>4
<1>5. ASSUME NEW k \in Tokens, IssueInviteToken(r, k) \/ ResetRead(r, k) PROVE SessionsInv'
  <2>1. UNCHANGED <<now, session, index, user>>
    BY <1>5 DEF IssueInviteToken, ResetRead, accountTables
  <2>2. CASE IssueInviteToken(r, k)
    <3>1. Goes(r, Idle) /\ req[r].op \notin {"idle", "DestroyRead", "DestroyKeys"}
      BY <1>2, <2>2 DEF IssueInviteToken, At
    <3> QED BY <1>1, <1>2, <2>1, <3>1
  <2>3. CASE ResetRead(r, k)
    <3>1. PICK q : q = [op |-> "ResetDelete", token |-> k, user |-> token[k]]
      OBVIOUS
    <3>2. Starts(r, q) /\ q.op \notin Relies
      BY <2>3, <3>1 DEF ResetRead, Relies
    <3> QED BY <1>1, <2>1, <3>2
  <2> QED BY <1>5, <2>2, <2>3
<1>6. CASE ResetSet(r)
  <2>1. \A v \in Users : user'[v].status = "SUSPENDED" => user[v].status = "SUSPENDED"
    <3>1. PICK u : u = req[r].user
      OBVIOUS
    <3>2. PICK x : x = [user[u] EXCEPT !.password = TRUE, !.status = "ACTIVE"]
      OBVIOUS
    <3>3. user' = [user EXCEPT ![u] = x]
      BY <1>6, <3>1, <3>2 DEF ResetSet
    <3>4. u \in Users => x.status = "ACTIVE"
      BY <3>2 DEF KeysTyped, UserRow
    <3>5. \A v \in Users : user'[v] = IF v = u THEN x ELSE user[v]
      BY <3>3 DEF KeysTyped
    <3> QED BY <3>4, <3>5
  <2>2. PICK q : q = [op |-> "DestroyRead", user |-> req[r].user]
    OBVIOUS
  <2>3. /\ Goes(r, q) /\ q.op \notin Relies /\ UNCHANGED <<now, session, index>>
        /\ req[r].op \notin {"idle", "DestroyRead", "DestroyKeys"}
    BY <1>6, <2>2 DEF ResetSet, Relies, At
  <2> QED BY <2>1, <2>3, PlainStep
<1>7. CASE UpdateRolesCommit(r)
  <2>1. \A v \in Users : user'[v].status = "SUSPENDED" => user[v].status = "SUSPENDED"
    <3>1. PICK u, new : u = req[r].user /\ new = Replaced(user[u].roles, req[r].seen, req[r].roles)
      OBVIOUS
    <3>2. PICK x : x = [user[u] EXCEPT !.roles = new]
      OBVIOUS
    <3>3. user' = [user EXCEPT ![u] = x]
      BY <1>7, <3>1, <3>2 DEF UpdateRolesCommit
    <3>4. u \in Users => x.status = user[u].status
      BY <3>2 DEF KeysTyped, UserRow
    <3>5. \A v \in Users : user'[v] = IF v = u THEN x ELSE user[v]
      BY <3>3 DEF KeysTyped
    <3> QED BY <3>4, <3>5
  <2>2. /\ Goes(r, Idle) /\ UNCHANGED <<now, session, index>>
        /\ req[r].op \notin {"idle", "DestroyRead", "DestroyKeys"}
    BY <1>2, <1>7 DEF UpdateRolesCommit, At
  <2> QED BY <1>2, <2>1, <2>2, PlainStep
<1>8. ASSUME NEW u \in Users, CreateUser(r, u) PROVE SessionsInv'
  <2>1. PICK x : x.status = "INVITED" /\ user' = [user EXCEPT ![u] = x]
    <3>1. PICK roles : user' = [user EXCEPT ![u] = [status |-> "INVITED", password |-> FALSE, roles |-> roles]]
      BY <1>8 DEF CreateUser
    <3>2. PICK x : x = [status |-> "INVITED", password |-> FALSE, roles |-> roles]
      OBVIOUS
    <3>3. x.status = "INVITED"
      BY <3>2
    <3> QED BY <3>1, <3>2, <3>3
  <2>2. \A v \in Users : user'[v].status = "SUSPENDED" => user[v].status = "SUSPENDED"
    BY <2>1 DEF KeysTyped
  <2>3. PICK q : q = [op |-> "Invite", user |-> u]
    OBVIOUS
  <2>4. Starts(r, q) /\ q.op \notin Relies /\ UNCHANGED <<now, session, index>>
    BY <1>8, <2>3 DEF CreateUser, Relies
  <2> QED BY <2>2, <2>4, PlainStep
<1> QED BY <1>3, <1>4, <1>5, <1>6, <1>7, <1>8

\* Statements that find what later ones rely on.
LEMMA FindsOK ==
  ASSUME SessionsInv, InFlightOK, KeysTyped, AccountsRequests, ~overlap, ~cut, NEW r \in Requests,
         \/ LoginClear(r) \/ DestroyRead(r) \/ \E s \in Sessions : RotateRead(r, s)
         \/ \E u \in Users, passwordOk \in BOOLEAN : LoginRead(r, u, passwordOk)
  PROVE  SessionsInv'
<1>1. UNCHANGED <<now, session, index, user>>
  BY DEF LoginClear, DestroyRead, RotateRead, LoginRead, accountTables
<1>2. ASSUME NEW q, MayStart \/ req[r].op # "idle", req' = [req EXCEPT ![r] = q],
             \A u \in Users : Ending(req[r], u) => Ending(q, u),
             FoundOK(req[r]) /\ (\A s \in Sessions : SessionOK(s, req[r])) => FoundOK(q)
      PROVE  SessionsInv'
  <2>1. FoundOK(q) => FoundOK(q)'
    BY <1>1 DEF FoundOK, Reached, Overdue, Suspended, Live
  <2> QED BY <1>1, <1>2, <2>1, QuietStep
<1>3. CASE LoginClear(r)
  <2>1. PICK q : q = [op |-> "CreateSession", user |-> req[r].user]
    OBVIOUS
  <2>2. q.op = "CreateSession" /\ q.user = req[r].user /\ req' = [req EXCEPT ![r] = q] /\ req[r].op = "LoginClear"
    BY <1>3, <2>1 DEF LoginClear, Goes, At
  <2>3. FoundOK(req[r]) => FoundOK(q)
    BY <2>2 DEF FoundOK
  <2>4. \A u \in Users : Ending(req[r], u) => Ending(q, u)
    BY <2>2 DEF Ending
  <2> QED BY <1>2, <2>2, <2>3, <2>4
<1>4. CASE DestroyRead(r)
  <2>1. PICK q, u : /\ q = [op |-> "DestroyKeys", user |-> req[r].user, sessions |-> index[req[r].user].sessions]
                    /\ u = req[r].user
    OBVIOUS
  <2>2. /\ q.op = "DestroyKeys" /\ q.user = u /\ q.sessions = index[u].sessions
        /\ req' = [req EXCEPT ![r] = q] /\ req[r].op = "DestroyRead"
    BY <1>4, <2>1 DEF DestroyRead, Goes, At
  <2>3. (\A s \in Sessions : SessionOK(s, req[r])) => FoundOK(q)
    BY <2>2 DEF FoundOK, SessionOK, Reached
  <2>4. \A v \in Users : Ending(req[r], v) => Ending(q, v)
    BY <2>1, <2>2 DEF Ending
  <2> QED BY <1>2, <2>2, <2>3, <2>4
<1>5. ASSUME NEW s \in Sessions, RotateRead(r, s) PROVE SessionsInv'
  <2>1. PICK op \in {"RotateWrite", "RotateDelete"} :
          Starts(r, [op |-> op, session |-> s, record |-> session[s]])
    BY <1>5 DEF RotateRead
  <2>2. PICK q : q = [op |-> op, session |-> s, record |-> session[s]]
    OBVIOUS
  <2>3. /\ q.op \in {"RotateWrite", "RotateDelete"} /\ q.session = s /\ q.record = session[s]
        /\ req' = [req EXCEPT ![r] = q] /\ req[r].op = "idle" /\ MayStart /\ Live(s)
    BY <1>5, <2>1, <2>2 DEF Starts, RotateRead
  <2>4. \A u \in Users : ~Ending(req[r], u)
    BY <2>3 DEF Ending
  <2>5. session[s].user \in Users
    BY <2>3 DEF KeysTyped, SessionRecord, Live
  <2>6. SessionOK(s, req[r]) => FoundOK(q)
    BY <2>3, <2>4, <2>5 DEF FoundOK, SessionOK
  <2> QED BY <1>2, <2>3, <2>4, <2>6
<1>6. ASSUME NEW u \in Users, NEW passwordOk \in BOOLEAN, LoginRead(r, u, passwordOk) PROVE SessionsInv'
  <2>1. PICK op : /\ op \in {"LoginClear", "LoginFailed"} /\ Starts(r, [op |-> op, user |-> u])
                  /\ op = "LoginClear" => user[u].status = "ACTIVE"
    BY <1>6 DEF LoginRead
  <2>2. PICK q : q = [op |-> op, user |-> u]
    OBVIOUS
  <2>3. q.op = op /\ q.user = u /\ req' = [req EXCEPT ![r] = q] /\ MayStart /\ req[r].op = "idle"
    BY <2>1, <2>2 DEF Starts
  <2>4. FoundOK(q)
    BY <2>1, <2>3 DEF FoundOK
  <2>5. \A v \in Users : Ending(req[r], v) => Ending(q, v)
    BY <2>3 DEF Ending
  <2> QED BY <1>2, <2>3, <2>4, <2>5
<1> QED BY <1>3, <1>4, <1>5, <1>6

\* A record that outlived its index is overdue.
LEMMA ReachedTick ==
  ASSUME KeysTyped, Tick, NEW s, NEW rec, rec.user \in Users, rec.createdAt \in Nat
  PROVE  /\ Overdue(rec) => Overdue(rec)'
         /\ Reached(s, rec) => Reached(s, rec)'
         /\ rec.createdAt <= now => rec.createdAt <= now'
<1>1. now \in Nat /\ now' = now + 1 /\ Ttl \in Nat
  BY AccountsAssumption DEF KeysTyped, Tick
<1>2. Overdue(rec) => Overdue(rec)'
  BY <1>1 DEF Overdue
<1>3. CASE index[rec.user].until <= now + 1
  <2>1. index[rec.user].until \in Nat
    BY AccountsAssumption DEF KeysTyped, Index
  <2>2. index[rec.user].until >= rec.createdAt + Ttl => Overdue(rec)'
    BY <1>1, <1>3, <2>1 DEF Overdue
  <2> QED BY <1>1, <1>2, <2>2 DEF Reached
<1>4. CASE ~(index[rec.user].until <= now + 1)
  <2>1. index'[rec.user] = index[rec.user]
    BY <1>4 DEF Tick
  <2> QED BY <1>1, <1>2, <2>1 DEF Reached
<1> QED BY <1>3, <1>4

LEMMA TickOK ==
  ASSUME SessionsInv, KeysTyped, AccountsRequests, ~overlap, ~cut, Tick
  PROVE  SessionsInv'
<1>1. UNCHANGED <<user, req>>
  BY DEF Tick
<1>2. ASSUME NEW s \in Sessions, session'[s] # None
      PROVE  /\ session[s] # None /\ session'[s] = session[s]
             /\ session[s].user \in Users /\ session[s].createdAt \in Nat
  BY <1>2, AccountsAssumption DEF Tick, Live, KeysTyped, SessionRecord
<1>3. ASSUME NEW s \in Sessions PROVE (\E x \in Requests : SessionOK(s, req[x]))'
  <2>1. PICK x \in Requests : SessionOK(s, req[x])
    BY DEF SessionsInv
  <2>2. PICK q : q = req[x]
    OBVIOUS
  <2>3. SessionOK(s, q)'
    <3> SUFFICES ASSUME Live(s)' PROVE SessionOK(s, q)'
      BY DEF SessionOK
    <3>1. Live(s) /\ session'[s] = session[s] /\ session[s].user \in Users /\ session[s].createdAt \in Nat
      BY <1>2 DEF Live
    <3>2. PICK rec : rec = session[s]
      OBVIOUS
    <3>3. rec.createdAt <= now /\ Reached(s, rec)
          /\ (Suspended(rec.user) => Overdue(rec) \/ Ending(q, rec.user))
      BY <2>1, <2>2, <3>1, <3>2 DEF SessionOK
    <3>4. rec.createdAt <= now' /\ Reached(s, rec)' /\ (Overdue(rec) => Overdue(rec)')
      BY <3>1, <3>2, <3>3, ReachedTick
    <3>5. Suspended(rec.user)' => Overdue(rec)' \/ Ending(q, rec.user)
      BY <1>1, <3>3, <3>4 DEF Suspended
    <3> QED BY <3>1, <3>2, <3>4, <3>5 DEF SessionOK, Ending
  <2>4. req'[x] = q
    BY <1>1, <2>2
  <2> QED BY <2>3, <2>4
<1>4. ASSUME NEW x \in Requests PROVE FoundOK(req[x])'
  <2>1. PICK q : q = req[x]
    OBVIOUS
  <2>2. FoundOK(q)
    BY <2>1 DEF SessionsInv
  <2>3. ASSUME NEW s \in Sessions, Live(s)', Overdue(session[s])
        PROVE  Overdue(session[s])'
    <3>1. session'[s] = session[s] /\ session[s].user \in Users /\ session[s].createdAt \in Nat
      BY <1>2, <2>3 DEF Live
    <3>2. PICK rec : rec = session[s]
      OBVIOUS
    <3>3. Overdue(rec)'
      BY <2>3, <3>1, <3>2, ReachedTick
    <3> QED BY <3>1, <3>2, <3>3
  <2>4. \A s \in Sessions : Live(s)' => Live(s) /\ session'[s].user = session[s].user
    BY <1>2 DEF Live
  <2>5. q.op = "RotateWrite" => q.record.user \in Users /\ q.record.createdAt \in Nat
    <3>1. q.op = "RotateWrite" => q.record \in SessionRecord
      BY <2>1, AccountsAt DEF AccountsOps
    <3> QED BY <3>1 DEF SessionRecord
  <2>6. q.op = "RotateWrite" =>
          /\ q.record.createdAt <= now' /\ Reached(q.session, q.record)'
          /\ Suspended(q.record.user)' => Overdue(q.record)'
    <3>1. ASSUME q.op = "RotateWrite"
          PROVE  /\ q.record.createdAt <= now' /\ Reached(q.session, q.record)'
                 /\ Suspended(q.record.user)' => Overdue(q.record)'
      <4>1. PICK s, rec : s = q.session /\ rec = q.record
        OBVIOUS
      <4>2. rec.createdAt <= now /\ Reached(s, rec) /\ (Suspended(rec.user) => Overdue(rec))
            /\ rec.user \in Users /\ rec.createdAt \in Nat
        BY <2>2, <2>5, <3>1, <4>1 DEF FoundOK
      <4>3. rec.createdAt <= now' /\ Reached(s, rec)' /\ (Overdue(rec) => Overdue(rec)')
        BY <4>2, ReachedTick
      <4>4. Suspended(rec.user)' => Overdue(rec)'
        BY <1>1, <4>2, <4>3 DEF Suspended
      <4> QED BY <4>1, <4>3, <4>4
    <3> QED BY <3>1
  <2>7. q.op = "RotateUnindex" => ~Live(q.session)'
    <3>1. q.op = "RotateUnindex" => q.session \in Sessions
      BY <2>1, AccountsReqOp, AccountsAt DEF AccountsOps
    <3> QED BY <2>2, <2>4, <3>1 DEF FoundOK
  <2>8. /\ q.op = "DestroyKeys" => \A s \in Sessions : Live(s)' /\ session'[s].user = q.user =>
             s \in q.sessions \/ Overdue(session[s])'
        /\ q.op = "DestroyIndex" => \A s \in Sessions : Live(s)' /\ session'[s].user = q.user =>
             Overdue(session[s])'
    BY <2>2, <2>3, <2>4 DEF FoundOK
  <2>9. q.op \in {"LoginClear", "CreateSession"} => user'[q.user].status = "ACTIVE"
    BY <1>1, <2>2 DEF FoundOK
  <2>10. FoundOK(q)'
    BY <2>6, <2>7, <2>8, <2>9 DEF FoundOK
  <2>11. req'[x] = q
    BY <1>1, <2>1
  <2> QED BY <2>10, <2>11
<1> QED BY <1>3, <1>4 DEF SessionsInv

LEMMA CreateOK ==
  ASSUME SessionsInv, InFlightOK, KeysTyped, AccountsRequests, ~overlap, ~cut,
         NEW r \in Requests, NEW n \in Sessions, CreateSession(r, n)
  PROVE  SessionsInv'
<1>1. PICK u \in Users : u = req[r].user /\ req[r].op = "CreateSession"
  BY AccountsAt DEF CreateSession, At, AccountsOps
<1>2. OthersIdle(r) /\ FoundOK(req[r]) /\ \A s \in Sessions : SessionOK(s, req[r])
  <2>1. OthersIdle(r)
    BY <1>1, Alone
  <2> QED BY <2>1, AloneKnows
<1>3. PICK x, y, until : /\ x = [user |-> u, createdAt |-> now, secret |-> 1, until |-> until]
                         /\ y = [index[u] EXCEPT !.sessions = @ \cup {n}, !.until = until]
                         /\ until = now + Ttl
  OBVIOUS
<1>4. /\ session' = [session EXCEPT ![n] = x] /\ index' = [index EXCEPT ![u] = y]
      /\ UNCHANGED <<now, user>> /\ req' = [req EXCEPT ![r] = Idle]
  BY <1>1, <1>3 DEF CreateSession, Ends
<1>5. /\ x.user = u /\ x.createdAt = now /\ y.sessions = index[u].sessions \cup {n} /\ y.until = now + Ttl
      /\ index'[u] = y /\ \A v \in Users \ {u} : index'[v] = index[v]
  BY <1>3, <1>4 DEF KeysTyped, Index
<1>6. now \in Nat /\ Ttl \in Nat
  BY AccountsAssumption DEF KeysTyped
<1>7. ASSUME NEW s \in Sessions PROVE SessionOK(s, Idle)'
  <2>1. CASE s = n
    <3>1. session'[s] = x
      BY <1>4, <2>1 DEF KeysTyped
    <3>2. ~Suspended(u)'
      BY <1>1, <1>2, <1>4 DEF FoundOK, Suspended
    <3>3. Reached(s, x)'
      BY <1>5, <1>6, <2>1 DEF Reached
    <3> QED BY <1>4, <1>5, <1>6, <3>1, <3>2, <3>3 DEF SessionOK
  <2>2. CASE s # n
    <3> SUFFICES ASSUME Live(s)' PROVE SessionOK(s, Idle)'
      BY DEF SessionOK
    <3>1. session'[s] = session[s] /\ Live(s) /\ session[s].user \in Users /\ session[s].createdAt \in Nat
      BY <1>4, <2>2, AccountsAssumption DEF KeysTyped, Live, SessionRecord
    <3>2. PICK rec : rec = session[s]
      OBVIOUS
    <3>3. rec.createdAt <= now /\ Reached(s, rec) /\ (Suspended(rec.user) => Overdue(rec))
      BY <1>1, <1>2, <3>1, <3>2 DEF SessionOK, Ending
    <3>4. Reached(s, rec)'
      <4>1. CASE rec.user = u
        BY <1>4, <1>5, <1>6, <3>1, <3>2, <3>3, <4>1 DEF Reached, Overdue
      <4>2. CASE rec.user # u
        BY <1>4, <1>5, <3>1, <3>2, <3>3, <4>2 DEF Reached, Overdue
      <4> QED BY <4>1, <4>2
    <3>5. Suspended(rec.user)' => Overdue(rec)'
      BY <1>4, <3>3 DEF Suspended, Overdue
    <3> QED BY <1>4, <3>1, <3>2, <3>3, <3>4, <3>5 DEF SessionOK
  <2> QED BY <2>1, <2>2
<1>8. FoundOK(Idle)'
  BY DEF FoundOK, Idle
<1> QED BY <1>2, <1>4, <1>7, <1>8, AloneStep

LEMMA RotateDeleteFound ==
  ASSUME SessionsInv, InFlightOK, KeysTyped, AccountsRequests, ~overlap, ~cut,
         NEW r \in Requests, RotateDelete(r)
  PROVE  SessionsInv'
<1>1. PICK n \in Sessions : n = req[r].session /\ req[r].op = "RotateDelete"
  BY AccountsAt DEF RotateDelete, At, AccountsOps
<1>2. OthersIdle(r) /\ \A s \in Sessions : SessionOK(s, req[r])
  <2>1. OthersIdle(r)
    BY <1>1, Alone
  <2> QED BY <2>1, AloneKnows
<1>3. PICK q : q = [op |-> "RotateUnindex", session |-> req[r].session, user |-> req[r].record.user]
  OBVIOUS
<1>4. /\ q.op = "RotateUnindex" /\ q.session = n /\ req' = [req EXCEPT ![r] = q]
      /\ session' = [session EXCEPT ![n] = None] /\ UNCHANGED <<now, user, index>>
  BY <1>1, <1>3 DEF RotateDelete, Goes
<1>5. FoundOK(q)'
  BY <1>4 DEF FoundOK, Live, KeysTyped
<1>6. ASSUME NEW s \in Sessions PROVE SessionOK(s, q)'
  <2>1. session'[s] = None \/ session'[s] = session[s]
    BY <1>4 DEF KeysTyped
  <2>2. \A u : ~Ending(req[r], u)
    BY <1>1 DEF Ending
  <2> QED BY <1>2, <1>4, <2>1, <2>2 DEF SessionOK, Live, Reached, Overdue, Suspended
<1> QED BY <1>2, <1>4, <1>5, <1>6, AloneStep

LEMMA RotateUnindexOK ==
  ASSUME SessionsInv, InFlightOK, KeysTyped, AccountsRequests, ~overlap, ~cut,
         NEW r \in Requests, RotateUnindex(r)
  PROVE  SessionsInv'
<1>1. PICK u \in Users : u = req[r].user /\ req[r].op = "RotateUnindex"
  BY AccountsAt DEF RotateUnindex, At, AccountsOps
<1>2. OthersIdle(r) /\ FoundOK(req[r]) /\ \A s \in Sessions : SessionOK(s, req[r])
  <2>1. OthersIdle(r)
    BY <1>1, Alone
  <2> QED BY <2>1, AloneKnows
<1>3. PICK n, y : n = req[r].session /\ y = [index[u] EXCEPT !.sessions = @ \ {n}]
  OBVIOUS
<1>4. /\ index' = [index EXCEPT ![u] = y] /\ UNCHANGED <<now, user, session>> /\ req' = [req EXCEPT ![r] = Idle]
  BY <1>1, <1>3 DEF RotateUnindex, Ends
<1>5. /\ y.sessions = index[u].sessions \ {n} /\ y.until = index[u].until
      /\ index'[u] = y /\ \A v \in Users \ {u} : index'[v] = index[v]
  BY <1>3, <1>4 DEF KeysTyped, Index
<1>6. ~Live(n)
  BY <1>1, <1>2, <1>3 DEF FoundOK
<1>7. ASSUME NEW s \in Sessions PROVE SessionOK(s, Idle)'
  <2> SUFFICES ASSUME Live(s)' PROVE SessionOK(s, Idle)'
    BY DEF SessionOK
  <2>1. session'[s] = session[s] /\ Live(s) /\ s # n /\ session[s].user \in Users
    BY <1>4, <1>6 DEF KeysTyped, Live, SessionRecord
  <2>2. PICK rec : rec = session[s]
    OBVIOUS
  <2>3. rec.createdAt <= now /\ Reached(s, rec) /\ (Suspended(rec.user) => Overdue(rec))
    BY <1>1, <1>2, <2>1, <2>2 DEF SessionOK, Ending
  <2>4. Reached(s, rec)'
    BY <1>4, <1>5, <2>1, <2>2, <2>3 DEF Reached, Overdue
  <2>5. Suspended(rec.user)' => Overdue(rec)'
    BY <1>4, <2>3 DEF Suspended, Overdue
  <2> QED BY <1>4, <2>1, <2>2, <2>3, <2>4, <2>5 DEF SessionOK
<1>8. FoundOK(Idle)'
  BY DEF FoundOK, Idle
<1> QED BY <1>2, <1>4, <1>7, <1>8, AloneStep

LEMMA RotateWriteFound ==
  ASSUME SessionsInv, InFlightOK, KeysTyped, AccountsRequests, ~overlap, ~cut,
         NEW r \in Requests, RotateWrite(r)
  PROVE  SessionsInv'
<1>1. PICK n \in Sessions, rec \in SessionRecord :
        n = req[r].session /\ rec = req[r].record /\ req[r].op = "RotateWrite"
  BY AccountsAt DEF RotateWrite, At, AccountsOps
<1>2. OthersIdle(r) /\ FoundOK(req[r]) /\ \A s \in Sessions : SessionOK(s, req[r])
  <2>1. OthersIdle(r)
    BY <1>1, Alone
  <2> QED BY <2>1, AloneKnows
<1>3. PICK q, x : /\ q = [op |-> "RefreshProfile", user |-> req[r].record.user]
                  /\ x = [rec EXCEPT !.secret = secrets[n] + 1, !.until = now + Ttl]
  OBVIOUS
<1>4. /\ q.op = "RefreshProfile" /\ req' = [req EXCEPT ![r] = q]
      /\ session' = [session EXCEPT ![n] = x] /\ UNCHANGED <<now, user, index>>
  BY <1>1, <1>3 DEF RotateWrite, Goes
<1>5. x.user = rec.user /\ x.createdAt = rec.createdAt
  BY <1>3 DEF SessionRecord
<1>6. rec.createdAt <= now /\ Reached(n, rec) /\ (Suspended(rec.user) => Overdue(rec))
  BY <1>1, <1>2 DEF FoundOK
<1>7. ASSUME NEW s \in Sessions PROVE SessionOK(s, q)'
  <2>1. CASE s = n
    <3>1. session'[s] = x
      BY <1>4, <2>1 DEF KeysTyped
    <3>2. Reached(s, x)' /\ x.createdAt <= now' /\ (Suspended(x.user)' => Overdue(x)')
      BY <1>4, <1>5, <1>6, <2>1 DEF Reached, Overdue, Suspended
    <3> QED BY <3>1, <3>2 DEF SessionOK
  <2>2. CASE s # n
    <3>1. session'[s] = session[s]
      BY <1>4, <2>2 DEF KeysTyped
    <3>2. \A u : ~Ending(req[r], u)
      BY <1>1 DEF Ending
    <3> QED BY <1>2, <1>4, <3>1, <3>2 DEF SessionOK, Live, Reached, Overdue, Suspended
  <2> QED BY <2>1, <2>2
<1>8. FoundOK(q)'
  BY <1>4 DEF FoundOK
<1> QED BY <1>2, <1>4, <1>7, <1>8, AloneStep

LEMMA UpdateStatusOK ==
  ASSUME SessionsInv, InFlightOK, KeysTyped, ~overlap, ~cut,
         NEW r \in Requests, NEW u \in Users, UpdateStatus(r, u)
  PROVE  SessionsInv'
<1>1. PICK dto \in UpdateUserStatusDto :
        /\ user' = [user EXCEPT ![u].status = dto]
        /\ Starts(r, IF dto = "SUSPENDED" THEN [op |-> "DestroyRead", user |-> u] ELSE Idle)
  BY DEF UpdateStatus
<1>2. UNCHANGED <<now, session, index>>
  BY DEF UpdateStatus
<1>3. PICK x : x = [user[u] EXCEPT !.status = dto]
  OBVIOUS
<1>4. x.status = dto /\ user' = [user EXCEPT ![u] = x]
  <2>1. user[u] \in UserRow
    BY DEF KeysTyped
  <2> QED BY <1>1, <1>3, <2>1 DEF UserRow
<1>5. user'[u].status = dto /\ \A v \in Users \ {u} : user'[v] = user[v]
  BY <1>4 DEF KeysTyped
<1>6. CASE dto = "SUSPENDED"
  <2>1. PICK q : q = [op |-> "DestroyRead", user |-> u]
    OBVIOUS
  <2>2. q.op = "DestroyRead" /\ q.user = u /\ req' = [req EXCEPT ![r] = q] /\ MayStart /\ req[r].op = "idle"
    BY <1>1, <1>6, <2>1 DEF Starts
  <2>3. OthersIdle(r)
    BY <2>2, Alone
  <2>4. \A s \in Sessions : SessionOK(s, req[r])
    BY <2>3, AloneKnows
  <2>5. ASSUME NEW s \in Sessions PROVE SessionOK(s, q)'
    <3> SUFFICES ASSUME Live(s)' PROVE SessionOK(s, q)'
      BY DEF SessionOK
    <3>1. session'[s] = session[s] /\ Live(s) /\ session[s].user \in Users
      BY <1>2 DEF KeysTyped, Live, SessionRecord
    <3>2. /\ session[s].createdAt <= now /\ Reached(s, session[s])
          /\ Suspended(session[s].user) => Overdue(session[s])
      BY <2>2, <2>4, <3>1 DEF SessionOK, Ending
    <3>3. session'[s].createdAt <= now' /\ Reached(s, session[s])'
      BY <1>2, <3>1, <3>2 DEF Reached, Overdue
    <3>4. CASE session[s].user = u
      <4>1. Ending(q, session'[s].user)
        BY <2>2, <3>1, <3>4 DEF Ending
      <4> QED BY <3>1, <3>3, <4>1 DEF SessionOK, Ending
    <3>5. CASE session[s].user # u
      <4>1. Suspended(session[s].user)' => Overdue(session[s])'
        BY <1>2, <1>5, <3>1, <3>2, <3>5 DEF Suspended, Overdue
      <4> QED BY <3>1, <3>3, <4>1 DEF SessionOK
    <3> QED BY <3>4, <3>5
  <2>6. FoundOK(q)'
    BY <2>2 DEF FoundOK
  <2> QED BY <2>2, <2>3, <2>5, <2>6, AloneStep
<1>7. CASE dto = "ACTIVE"
  <2>1. Idle.op \notin Relies /\ Starts(r, Idle)
    BY <1>1, <1>7 DEF Idle, Relies
  <2>2. \A v \in Users : user'[v].status = "SUSPENDED" => user[v].status = "SUSPENDED"
    BY <1>5, <1>7
  <2> QED BY <1>2, <2>1, <2>2, PlainStep
<1> QED BY <1>6, <1>7 DEF UpdateUserStatusDto

LEMMA DestroyKeysFound ==
  ASSUME SessionsInv, InFlightOK, KeysTyped, AccountsRequests, ~overlap, ~cut,
         NEW r \in Requests, DestroyKeys(r)
  PROVE  SessionsInv'
<1>1. PICK u \in Users : u = req[r].user /\ req[r].op = "DestroyKeys"
  BY AccountsAt DEF DestroyKeys, At, AccountsOps
<1>2. OthersIdle(r) /\ FoundOK(req[r]) /\ \A s \in Sessions : SessionOK(s, req[r])
  <2>1. OthersIdle(r)
    BY <1>1, Alone
  <2> QED BY <2>1, AloneKnows
<1>3. PICK q, gone : q = [op |-> "DestroyIndex", user |-> u] /\ gone = req[r].sessions
  OBVIOUS
<1>4. /\ q.op = "DestroyIndex" /\ q.user = u /\ req' = [req EXCEPT ![r] = q]
      /\ session' = [s \in Sessions |-> IF s \in gone THEN None ELSE session[s]]
      /\ UNCHANGED <<now, user, index>>
  BY <1>1, <1>3 DEF DestroyKeys, Goes
<1>5. ASSUME NEW s \in Sessions, Live(s)'
      PROVE  /\ session'[s] = session[s] /\ Live(s) /\ s \notin gone
             /\ session[s].user = u => Overdue(session[s])
  <2>1. session'[s] = session[s] /\ Live(s) /\ s \notin gone
    BY <1>4, <1>5 DEF Live
  <2>2. session[s].user = u => Overdue(session[s])
    BY <1>1, <1>2, <1>3, <2>1 DEF FoundOK
  <2> QED BY <2>1, <2>2
<1>6. FoundOK(q)'
  <2>1. \A s \in Sessions : Live(s)' /\ session'[s].user = u => Overdue(session[s])'
    BY <1>4, <1>5 DEF Overdue
  <2> QED BY <1>4, <2>1 DEF FoundOK
<1>7. ASSUME NEW s \in Sessions PROVE SessionOK(s, q)'
  <2> SUFFICES ASSUME Live(s)' PROVE SessionOK(s, q)'
    BY DEF SessionOK
  <2>1. /\ session'[s] = session[s] /\ Live(s)
        /\ session[s].user = u => Overdue(session[s])
    BY <1>5
  <2>2. session[s].createdAt <= now /\ Reached(s, session[s])
        /\ (Suspended(session[s].user) => Overdue(session[s]))
    BY <1>1, <1>2, <2>1 DEF SessionOK, Ending
  <2>3. /\ session'[s].createdAt <= now' /\ Reached(s, session[s])'
        /\ Suspended(session[s].user)' => Overdue(session[s])'
    BY <1>4, <2>1, <2>2 DEF Reached, Overdue, Suspended
  <2> QED BY <2>1, <2>3 DEF SessionOK
<1> QED BY <1>2, <1>4, <1>6, <1>7, AloneStep

LEMMA DestroyIndexFound ==
  ASSUME SessionsInv, InFlightOK, KeysTyped, AccountsRequests, ~overlap, ~cut,
         NEW r \in Requests, DestroyIndex(r)
  PROVE  SessionsInv'
<1>1. PICK u \in Users : u = req[r].user /\ req[r].op = "DestroyIndex"
  BY AccountsAt DEF DestroyIndex, At, AccountsOps
<1>2. OthersIdle(r) /\ FoundOK(req[r]) /\ \A s \in Sessions : SessionOK(s, req[r])
  <2>1. OthersIdle(r)
    BY <1>1, Alone
  <2> QED BY <2>1, AloneKnows
<1>3. /\ index' = [index EXCEPT ![u] = NoIndex] /\ UNCHANGED <<now, user, session>>
      /\ req' = [req EXCEPT ![r] = Idle]
  BY <1>1 DEF DestroyIndex, Ends
<1>4. \A v \in Users \ {u} : index'[v] = index[v]
  BY <1>3 DEF KeysTyped
<1>5. ASSUME NEW s \in Sessions PROVE SessionOK(s, Idle)'
  <2> SUFFICES ASSUME Live(s)' PROVE SessionOK(s, Idle)'
    BY DEF SessionOK
  <2>1. session'[s] = session[s] /\ Live(s) /\ session[s].user \in Users
    BY <1>3 DEF KeysTyped, Live, SessionRecord
  <2>2. /\ session[s].createdAt <= now /\ Reached(s, session[s])
        /\ Suspended(session[s].user) => Overdue(session[s])
        /\ session[s].user = u => Overdue(session[s])
    BY <1>1, <1>2, <2>1 DEF SessionOK, Ending, FoundOK
  <2>3. Reached(s, session[s])'
    BY <1>3, <1>4, <2>1, <2>2 DEF Reached, Overdue
  <2>4. session'[s].createdAt <= now' /\ (Suspended(session[s].user)' => Overdue(session[s])')
    BY <1>3, <2>1, <2>2 DEF Overdue, Suspended
  <2> QED BY <2>1, <2>3, <2>4 DEF SessionOK
<1>6. FoundOK(Idle)'
  BY DEF FoundOK, Idle
<1> QED BY <1>2, <1>3, <1>5, <1>6, AloneStep

\* A handler that is done at once, with no other in flight.
LEMMA AtOnceKeeps ==
  ASSUME InFlightOK, ~overlap, AtOnce, \A s \in Sessions : SessionOK(s, Idle) => SessionOK(s, Idle)',
         SessionsInv, ~cut
  PROVE  SessionsInv'
<1>1. \A x \in Requests : req[x].op = "idle" /\ req'[x] = req[x]
  BY DEF AtOnce, MayStart
<1>2. ASSUME NEW x \in Requests PROVE FoundOK(req[x])'
  BY <1>1 DEF FoundOK
<1>3. ASSUME NEW s \in Sessions PROVE (\E x \in Requests : SessionOK(s, req[x]))'
  <2>1. PICK x \in Requests : SessionOK(s, req[x])
    BY DEF SessionsInv
  <2>2. SessionOK(s, Idle)
    BY <1>1, <2>1 DEF SessionOK, Ending
  <2>3. SessionOK(s, Idle)'
    BY <2>2
  <2>4. SessionOK(s, req[x])'
    BY <1>1, <2>3 DEF SessionOK, Ending, Idle
  <2> QED BY <2>4
<1> QED BY <1>2, <1>3 DEF SessionsInv

LEMMA AtOnceOK ==
  ASSUME SessionsInv, InFlightOK, KeysTyped, ~overlap, ~cut,
         \/ \E s \in Sessions : Logout(s)
         \/ \E u \in Users : ListSessions(u) \/ \E k \in Tokens : ForgotPassword(u, k)
  PROVE  SessionsInv'
<1>1. ASSUME NEW n \in Sessions, Logout(n) PROVE SessionsInv'
  <2>1. PICK u \in Users : u = session[n].user
    BY <1>1 DEF Logout, Live, KeysTyped, SessionRecord
  <2>2. PICK y : y = [index[u] EXCEPT !.sessions = @ \ {n}]
    OBVIOUS
  <2>3. /\ index' = [index EXCEPT ![u] = y] /\ session' = [session EXCEPT ![n] = None]
        /\ UNCHANGED <<now, user>> /\ AtOnce
    BY <1>1, <2>1, <2>2 DEF Logout
  <2>4. /\ index'[u] = y /\ y.sessions = index[u].sessions \ {n} /\ y.until = index[u].until
        /\ \A v \in Users \ {u} : index'[v] = index[v]
    BY <2>2, <2>3 DEF KeysTyped, Index
  <2>5. ASSUME NEW s \in Sessions, SessionOK(s, Idle), Live(s)' PROVE SessionOK(s, Idle)'
    <3>1. session'[s] = session[s] /\ Live(s) /\ s # n /\ session[s].user \in Users
      BY <2>3, <2>5 DEF KeysTyped, Live, SessionRecord
    <3>2. /\ session[s].createdAt <= now /\ Reached(s, session[s])
          /\ Suspended(session[s].user) => Overdue(session[s])
      BY <2>5, <3>1 DEF SessionOK, Ending, Idle
    <3>3. Reached(s, session[s])'
      BY <2>3, <2>4, <3>1, <3>2 DEF Reached, Overdue
    <3>4. session'[s].createdAt <= now' /\ (Suspended(session[s].user)' => Overdue(session[s])')
      BY <2>3, <3>1, <3>2 DEF Overdue, Suspended
    <3> QED BY <3>1, <3>3, <3>4 DEF SessionOK
  <2>6. \A s \in Sessions : SessionOK(s, Idle) => SessionOK(s, Idle)'
    BY <2>5 DEF SessionOK
  <2> QED BY <2>3, <2>6, AtOnceKeeps
<1>2. ASSUME NEW u \in Users, ListSessions(u) PROVE SessionsInv'
  <2>1. PICK gone : gone = {s \in index[u].sessions : ~Live(s)}
    OBVIOUS
  <2>2. PICK y : y = [index[u] EXCEPT !.sessions = @ \ gone]
    OBVIOUS
  <2>3. {s \in index[u].sessions : Live(s)} = index[u].sessions \ gone
    BY <2>1
  <2>4. /\ index' = [index EXCEPT ![u] = y] /\ UNCHANGED <<now, user, session>> /\ AtOnce
    BY <1>2, <2>2, <2>3 DEF ListSessions
  <2>5. /\ index'[u] = y /\ y.sessions = index[u].sessions \ gone /\ y.until = index[u].until
        /\ \A v \in Users \ {u} : index'[v] = index[v]
    BY <2>2, <2>4 DEF KeysTyped, Index
  <2>6. ASSUME NEW s \in Sessions, SessionOK(s, Idle), Live(s)' PROVE SessionOK(s, Idle)'
    <3>1. session'[s] = session[s] /\ Live(s) /\ s \notin gone /\ session[s].user \in Users
      BY <2>1, <2>4, <2>6 DEF KeysTyped, Live, SessionRecord
    <3>2. /\ session[s].createdAt <= now /\ Reached(s, session[s])
          /\ Suspended(session[s].user) => Overdue(session[s])
      BY <2>6, <3>1 DEF SessionOK, Ending, Idle
    <3>3. Reached(s, session[s])'
      BY <2>4, <2>5, <3>1, <3>2 DEF Reached, Overdue
    <3>4. session'[s].createdAt <= now' /\ (Suspended(session[s].user)' => Overdue(session[s])')
      BY <2>4, <3>1, <3>2 DEF Overdue, Suspended
    <3> QED BY <3>1, <3>3, <3>4 DEF SessionOK
  <2>7. \A s \in Sessions : SessionOK(s, Idle) => SessionOK(s, Idle)'
    BY <2>6 DEF SessionOK
  <2> QED BY <2>4, <2>7, AtOnceKeeps
<1>3. ASSUME NEW u \in Users, NEW k \in Tokens, ForgotPassword(u, k) PROVE SessionsInv'
  <2>1. UNCHANGED <<now, user, session, index>> /\ AtOnce
    BY <1>3 DEF ForgotPassword
  <2>2. \A s \in Sessions : SessionOK(s, Idle) => SessionOK(s, Idle)'
    BY <2>1 DEF SessionOK, Live, Reached, Overdue, Suspended
  <2> QED BY <2>1, <2>2, AtOnceKeeps
<1> QED BY <1>1, <1>2, <1>3

\* What the counters of failed logins see of a step of the accounts.
Uncounted ==
  /\ UNCHANGED attempts
  /\ \A x \in Requests : \/ req'[x] = req[x]
                         \/ req[x].op # "LoginWindow" /\ req'[x].op # "LoginFailed"

Counts ==
  \/ \E r \in Requests :
       \/ LoginFailed(r) \/ LoginWindow(r) \/ LoginClear(r)
       \/ \E u \in Users, passwordOk \in BOOLEAN : LoginRead(r, u, passwordOk)
  \/ \E u \in Users : AttemptsExpire(u)

LEMMA AccountsFrame ==
  ASSUME InFlightOK, AccountsNext
  PROVE  /\ UNCHANGED overlap /\ (cut' = cut \/ cut')
         /\ Uncounted \/ Counts \/ \E r \in Requests : AccountsDies(r)
<1> DEFINE Frame == UNCHANGED overlap /\ cut' = cut
           Goal == Frame /\ (Uncounted \/ Counts)
<1>1. ASSUME Counts PROVE Goal
  BY <1>1 DEF Counts, LoginFailed, LoginWindow, LoginClear, LoginRead, AttemptsExpire, Starts, Goes, Ends,
              accountTables
<1>2. ASSUME NEW r \in Requests,
             \/ RotateUnindex(r) \/ DestroyIndex(r) \/ UpdateRolesCommit(r)
             \/ (\E s \in Sessions : CreateSession(r, s)) \/ (\E k \in Tokens : IssueInviteToken(r, k))
      PROVE  Goal
  <2>1. /\ Ends(r) /\ UNCHANGED <<attempts, cut>> /\ req[r].op # "LoginWindow"
    BY <1>2 DEF RotateUnindex, DestroyIndex, UpdateRolesCommit, CreateSession, IssueInviteToken, At
  <2> QED BY <2>1 DEF Ends, Idle, Uncounted, InFlightOK
<1>3. ASSUME NEW r \in Requests,
             RotateDelete(r) \/ RotateWrite(r) \/ RefreshProfile(r) \/ DestroyRead(r) \/ DestroyKeys(r)
             \/ ResetDelete(r) \/ ResetSet(r)
      PROVE  Goal
  <2>1. UNCHANGED <<attempts, cut, overlap>> /\ req[r].op # "LoginWindow"
    BY <1>3 DEF RotateDelete, RotateWrite, RefreshProfile, DestroyRead, DestroyKeys, ResetDelete, ResetSet,
                At, Goes, Ends, accountTables
  <2>2. (\A x \in Requests \ {r} : req'[x] = req[x]) /\ req'[r].op # "LoginFailed"
    <3>1. CASE RotateDelete(r) \/ RotateWrite(r)
      BY <3>1 DEF RotateDelete, RotateWrite, Goes, InFlightOK
    <3>2. CASE RefreshProfile(r)
      BY <3>2 DEF RefreshProfile, Goes, Ends, Idle, InFlightOK
    <3>3. CASE DestroyRead(r) \/ DestroyKeys(r)
      BY <3>3 DEF DestroyRead, DestroyKeys, Goes, InFlightOK
    <3>4. CASE ResetDelete(r) \/ ResetSet(r)
      BY <3>4 DEF ResetDelete, ResetSet, Goes, InFlightOK
    <3> QED BY <1>3, <3>1, <3>2, <3>3, <3>4
  <2> QED BY <2>1, <2>2 DEF Uncounted
<1>4. ASSUME NEW r \in Requests,
             \/ \E s \in Sessions : RotateRead(r, s)
             \/ \E u \in Users : LogoutAll(r, u) \/ UpdateStatus(r, u) \/ CreateUser(r, u) \/ UpdateRolesDelete(r, u)
             \/ \E k \in Tokens : ResetRead(r, k)
      PROVE  Goal
  <2>1. UNCHANGED <<attempts, cut, overlap>> /\ req[r].op # "LoginWindow"
    BY <1>4 DEF RotateRead, LogoutAll, UpdateStatus, CreateUser, UpdateRolesDelete, ResetRead, Starts, accountTables
  <2>2. (\A x \in Requests \ {r} : req'[x] = req[x]) /\ req'[r].op # "LoginFailed"
    <3>1. ASSUME NEW s \in Sessions, RotateRead(r, s)
          PROVE  (\A x \in Requests \ {r} : req'[x] = req[x]) /\ req'[r].op # "LoginFailed"
      BY <3>1 DEF RotateRead, Starts, InFlightOK
    <3>2. ASSUME NEW u \in Users, LogoutAll(r, u) \/ CreateUser(r, u)
          PROVE  (\A x \in Requests \ {r} : req'[x] = req[x]) /\ req'[r].op # "LoginFailed"
      BY <3>2 DEF LogoutAll, CreateUser, Starts, InFlightOK
    <3>3. ASSUME NEW u \in Users, UpdateRolesDelete(r, u)
          PROVE  (\A x \in Requests \ {r} : req'[x] = req[x]) /\ req'[r].op # "LoginFailed"
      BY <3>3 DEF UpdateRolesDelete, Starts, InFlightOK
    <3>4. ASSUME NEW u \in Users, UpdateStatus(r, u)
          PROVE  (\A x \in Requests \ {r} : req'[x] = req[x]) /\ req'[r].op # "LoginFailed"
      BY <3>4 DEF UpdateStatus, Starts, Idle, InFlightOK
    <3>5. ASSUME NEW k \in Tokens, ResetRead(r, k)
          PROVE  (\A x \in Requests \ {r} : req'[x] = req[x]) /\ req'[r].op # "LoginFailed"
      BY <3>5 DEF ResetRead, Starts, InFlightOK
    <3> QED BY <1>4, <3>1, <3>2, <3>3, <3>4, <3>5
  <2> QED BY <2>1, <2>2 DEF Uncounted
<1>5. ASSUME \/ \E s \in Sessions : Logout(s)
             \/ \E u \in Users : ListSessions(u) \/ \E k \in Tokens : ForgotPassword(u, k)
             \/ \E k \in Tokens : TokenExpires(k)
             \/ Tick
      PROVE  Goal
  BY <1>5 DEF Logout, ListSessions, ForgotPassword, TokenExpires, Tick, AtOnce, Uncounted
<1>6. ASSUME NEW r \in Requests, AccountsDies(r) PROVE UNCHANGED overlap /\ cut' = TRUE
  BY <1>6 DEF AccountsDies, Dies, Ends
<1>7. Goal \/ \E r \in Requests : AccountsDies(r)
  <2> HIDE DEF Goal
  <2>1. CASE SignedIn
    <3>1. TRUE \in BOOLEAN
      OBVIOUS
    <3> QED BY <1>1, <1>2, <1>3, <1>4, <1>5, <2>1, <3>1 DEF SignedIn, Refresh, DestroyAllSessions, Counts
  <2>2. CASE LockedOut
    BY <1>1, <1>2, <2>2 DEF LockedOut, Counts
  <2>3. CASE Invited
    BY <1>2, <1>3, <1>4, <1>5, <2>3 DEF Invited, ResetPassword, DestroyAllSessions
  <2> QED BY <2>1, <2>2, <2>3 DEF AccountsNext
<1> QED BY <1>6, <1>7

LEMMA SessionsElsewhere ==
  ASSUME SessionsInv, UNCHANGED <<now, user, session, index, overlap>>, (cut' = cut \/ cut'),
         \A x \in Requests : req'[x] = req[x] \/ (req[x].op \notin AccountsOps /\ req'[x].op \notin AccountsOps)
  PROVE  SessionsInv'
<1> SUFFICES ASSUME ~overlap', ~cut' PROVE SessionsInv'
  BY DEF SessionsInv
<1>0. ~overlap /\ ~cut
  OBVIOUS
<1>1. ASSUME NEW x \in Requests PROVE FoundOK(req[x])'
  <2>1. PICK q : q = req'[x]
    OBVIOUS
  <2>2. FoundOK(q)
    <3>1. CASE q = req[x]
      BY <1>0, <3>1 DEF SessionsInv
    <3>2. CASE q.op \notin AccountsOps
      BY <3>2 DEF FoundOK, AccountsOps
    <3> QED BY <2>1, <3>1, <3>2
  <2>3. FoundOK(q)'
    BY <2>2 DEF FoundOK, Reached, Overdue, Suspended, Live
  <2> QED BY <2>1, <2>3
<1>2. ASSUME NEW s \in Sessions PROVE (\E x \in Requests : SessionOK(s, req[x]))'
  <2>1. PICK x \in Requests : SessionOK(s, req[x])
    BY <1>0 DEF SessionsInv
  <2>2. PICK q : q = req'[x]
    OBVIOUS
  <2>3. SessionOK(s, q)
    BY <2>1, <2>2 DEF SessionOK, Ending, AccountsOps
  <2>4. SessionOK(s, q)'
    BY <2>3 DEF SessionOK, Reached, Overdue, Suspended, Live, Ending
  <2> QED BY <2>2, <2>4
<1> QED BY <1>1, <1>2 DEF SessionsInv

LEMMA SessionsKeeps ==
  ASSUME SessionsInv, InFlightOK, KeysTyped, AccountsRequests, AccountsNext
  PROVE  SessionsInv'
<1>1. UNCHANGED overlap /\ (cut' = cut \/ cut')
  BY AccountsFrame
<1>2. CASE overlap \/ cut'
  BY <1>1, <1>2 DEF SessionsInv
<1>3. CASE ~overlap /\ ~cut'
  <2>1. ~overlap /\ ~cut
    BY <1>1, <1>3
  <2>2. ~\E r \in Requests : AccountsDies(r)
    BY <1>3 DEF AccountsDies
  <2>3. ASSUME (\E k \in Tokens : TokenExpires(k)) \/ \E u \in Users : AttemptsExpire(u) PROVE SessionsInv'
    <3>1. UNCHANGED <<now, user, session, index, overlap, cut, req>>
      BY <2>3 DEF TokenExpires, AttemptsExpire
    <3> QED BY <3>1, SessionsElsewhere
  <2>4. CASE SignedIn
    <3>1. TRUE \in BOOLEAN
      OBVIOUS
    <3> QED BY <2>1, <2>4, <3>1, PlainOK, FindsOK, TickOK, CreateOK, RotateDeleteFound, RotateUnindexOK, RotateWriteFound,
               UpdateStatusOK, DestroyKeysFound, DestroyIndexFound, AtOnceOK
            DEF SignedIn, Refresh, DestroyAllSessions
  <2>5. CASE LockedOut
    BY <2>1, <2>3, <2>5, PlainOK, FindsOK, CreateOK DEF LockedOut
  <2>6. CASE Invited
    BY <2>1, <2>3, <2>6, PlainOK, FindsOK, UpdateStatusOK, DestroyKeysFound, DestroyIndexFound, AtOnceOK
       DEF Invited, ResetPassword, DestroyAllSessions
  <2> QED BY <2>2, <2>4, <2>5, <2>6 DEF AccountsNext
<1> QED BY <1>2, <1>3, <1>1 DEF KeysTyped, InFlightOK

LEMMA AttemptsKeeps ==
  ASSUME AttemptsInv, InFlightOK, AccountsRequests, AccountsNext
  PROVE  AttemptsInv'
<1>1. CASE Uncounted
  BY <1>1, AttemptsElse DEF Uncounted
<1>2. ASSUME NEW r \in Requests, LoginClear(r) PROVE AttemptsInv'
  <2>0. PICK u \in Users : u = req[r].user
    BY <1>2, AccountsAt DEF LoginClear, At, AccountsOps
  <2>1. PICK q : q = [op |-> "CreateSession", user |-> u]
    OBVIOUS
  <2>2. attempts' = [attempts EXCEPT ![u] = NoAttempts] /\ q.op = "CreateSession"
        /\ req' = [req EXCEPT ![r] = q]
    BY <1>2, <2>0, <2>1 DEF LoginClear, Goes
  <2>3. \A x \in Requests : req'[x] = req[x] \/ req'[x].op # "LoginFailed"
    BY <2>2 DEF InFlightOK
  <2> QED BY <2>2, <2>3, ClearedOK
<1>3. ASSUME NEW u \in Users, AttemptsExpire(u) PROVE AttemptsInv'
  <2>1. attempts' = [attempts EXCEPT ![u] = NoAttempts] /\ req' = req
    BY <1>3 DEF AttemptsExpire
  <2> QED BY <2>1, ClearedOK
<1>4. ASSUME NEW r \in Requests, AccountsDies(r) PROVE AttemptsInv'
  <2>1. UNCHANGED attempts /\ req' = [req EXCEPT ![r] = Idle]
    BY <1>4 DEF AccountsDies, Dies, Ends
  <2>2. \A x \in Requests : req'[x] = req[x] \/ req'[x].op # "LoginFailed"
    BY <2>1 DEF InFlightOK, Idle
  <2> QED BY <2>1, <2>2, AttemptsElse
<1> QED BY <1>1, <1>2, <1>3, <1>4, AccountsFrame, LoginFailedOK, LoginReadOK, LoginWindowOK DEF Counts

\* The failed logins of a user, one request at a time: the counter that they leave
\* is given its lifetime by the one that began it.
CountersInv ==
  ~overlap /\ ~cut => \A u \in Users : attempts[u].count > 0 =>
    attempts[u].expires \/ \E r \in Requests : req[r].op = "LoginWindow" /\ req[r].user = u

LEMMA CountersElse ==
  ASSUME CountersInv, UNCHANGED <<attempts, overlap>>, cut' = cut \/ cut',
         \A x \in Requests : req'[x] = req[x] \/ req[x].op # "LoginWindow"
  PROVE  CountersInv'
<1> SUFFICES ASSUME ~overlap', ~cut', NEW u \in Users, attempts'[u].count > 0
             PROVE  attempts'[u].expires \/ \E r \in Requests : req'[r].op = "LoginWindow" /\ req'[r].user = u
  BY DEF CountersInv
<1>1. ~overlap /\ ~cut
  OBVIOUS
<1> QED BY <1>1 DEF CountersInv

LEMMA CountersKeeps ==
  ASSUME CountersInv, AttemptsInv, InFlightOK, AccountsRequests, AccountsNext
  PROVE  CountersInv'
<1> SUFFICES ASSUME ~overlap', ~cut' PROVE CountersInv'
  BY DEF CountersInv
<1>1. UNCHANGED overlap /\ (cut' = cut \/ cut')
  BY AccountsFrame
<1>2. ~overlap /\ ~cut
  BY <1>1
<1>3. CASE Uncounted
  BY <1>1, <1>3, CountersElse DEF Uncounted
<1>4. ASSUME NEW u \in Users, attempts' = [attempts EXCEPT ![u] = NoAttempts],
             \A x \in Requests : req'[x] = req[x] \/ req[x].op # "LoginWindow"
      PROVE  CountersInv'
  <2>1. ASSUME NEW v \in Users, attempts'[v].count > 0
        PROVE  attempts'[v].expires \/ \E r \in Requests : req'[r].op = "LoginWindow" /\ req'[r].user = v
    <3>1. CASE v = u
      <4>1. attempts'[v].count = 0
        BY <1>4, <3>1 DEF AttemptsInv, NoAttempts
      <4> QED BY <2>1, <4>1
    <3>2. CASE v # u
      <4>1. attempts'[v] = attempts[v]
        BY <1>4, <3>2 DEF AttemptsInv
      <4> QED BY <1>2, <1>4, <2>1, <4>1 DEF CountersInv
    <3> QED BY <3>1, <3>2
  <2> QED BY <2>1 DEF CountersInv
<1>5. ASSUME NEW r \in Requests, LoginClear(r) PROVE CountersInv'
  <2>1. PICK u \in Users : u = req[r].user
    BY <1>5, AccountsAt DEF LoginClear, At, AccountsOps
  <2>2. attempts' = [attempts EXCEPT ![u] = NoAttempts] /\ req[r].op # "LoginWindow"
        /\ \A x \in Requests \ {r} : req'[x] = req[x]
    BY <1>5, <2>1 DEF LoginClear, Goes, At, InFlightOK
  <2> QED BY <1>4, <2>2
<1>6. ASSUME NEW u \in Users, AttemptsExpire(u) PROVE CountersInv'
  BY <1>4, <1>6 DEF AttemptsExpire
<1>7. ASSUME NEW r \in Requests, NEW u \in Users, NEW passwordOk \in BOOLEAN, LoginRead(r, u, passwordOk)
      PROVE  CountersInv'
  <2>1. UNCHANGED attempts /\ req[r].op # "LoginWindow" /\ \A x \in Requests \ {r} : req'[x] = req[x]
    BY <1>7 DEF LoginRead, Starts, InFlightOK, accountTables
  <2> QED BY <1>1, <2>1, CountersElse
<1>8. ASSUME NEW r \in Requests, req[r].op \in {"LoginFailed", "LoginWindow"}, NEW u \in Users
      PROVE  \/ attempts[u].count = 0 \/ attempts[u].expires
             \/ req[r].op = "LoginWindow" /\ req[r].user = u
  <2>1. \A x \in Requests \ {r} : req[x].op # "LoginWindow"
    BY <1>2, <1>8, Alone DEF OthersIdle
  <2>2. attempts[u].count \in Nat
    BY DEF AttemptsInv
  <2> QED BY <1>2, <2>1, <2>2 DEF CountersInv
<1>9. ASSUME NEW r \in Requests, LoginFailed(r) PROVE CountersInv'
  <2>1. PICK u \in Users : u = req[r].user /\ req[r].op = "LoginFailed"
    BY <1>9, AccountsAt DEF LoginFailed, At, AccountsOps
  <2>2. PICK n : n = attempts[u].count + 1
    OBVIOUS
  <2>3. PICK x : x = [attempts[u] EXCEPT !.count = n]
    OBVIOUS
  <2>4. attempts' = [attempts EXCEPT ![u] = x] /\ x.expires = attempts[u].expires
    BY <1>9, <2>1, <2>2, <2>3 DEF LoginFailed, AttemptsInv
  <2>5. ASSUME NEW v \in Users, attempts'[v].count > 0
        PROVE  attempts'[v].expires \/ \E y \in Requests : req'[y].op = "LoginWindow" /\ req'[y].user = v
    <3>1. CASE v # u
      <4>1. attempts'[v] = attempts[v]
        BY <2>4, <3>1 DEF AttemptsInv
      <4> QED BY <1>8, <2>1, <2>5, <4>1
    <3>2. CASE v = u /\ attempts[u].count # 0
      <4>1. attempts[u].expires
        BY <1>8, <2>1, <3>2
      <4>2. attempts'[v] = x
        BY <2>4, <3>2 DEF AttemptsInv
      <4> QED BY <2>4, <4>1, <4>2
    <3>3. CASE v = u /\ attempts[u].count = 0
      <4>1. PICK q : q = [op |-> "LoginWindow", user |-> u]
        OBVIOUS
      <4>2. req' = [req EXCEPT ![r] = q] /\ q.op = "LoginWindow" /\ q.user = u
        BY <1>9, <2>1, <3>3, <4>1 DEF LoginFailed, Goes
      <4>3. req'[r] = q
        BY <4>2 DEF InFlightOK
      <4> QED BY <3>3, <4>2, <4>3
    <3> QED BY <3>1, <3>2, <3>3
  <2> QED BY <2>5 DEF CountersInv
<1>10. ASSUME NEW r \in Requests, LoginWindow(r) PROVE CountersInv'
  <2>1. PICK u \in Users : u = req[r].user /\ req[r].op = "LoginWindow"
    BY <1>10, AccountsAt DEF LoginWindow, At, AccountsOps
  <2>2. PICK b \in BOOLEAN : b <=> attempts[u].count > 0
    OBVIOUS
  <2>3. PICK x : x = [attempts[u] EXCEPT !.expires = b]
    OBVIOUS
  <2>4. x.expires = b /\ x.count = attempts[u].count
    BY <2>3 DEF AttemptsInv
  <2>5. (attempts[u].count > 0) = b
    BY <2>2
  <2>6. attempts' = [attempts EXCEPT ![u] = x]
    BY <1>10, <2>1, <2>3, <2>5 DEF LoginWindow
  <2>7. ASSUME NEW v \in Users, attempts'[v].count > 0 PROVE attempts'[v].expires
    <3>1. CASE v # u
      <4>1. attempts'[v] = attempts[v]
        BY <2>6, <3>1 DEF AttemptsInv
      <4> QED BY <1>8, <2>1, <2>7, <3>1, <4>1
    <3>2. CASE v = u
      <4>1. attempts'[v] = x
        BY <2>6, <3>2 DEF AttemptsInv
      <4> QED BY <2>2, <2>4, <2>7, <4>1
    <3> QED BY <3>1, <3>2
  <2> QED BY <2>7 DEF CountersInv
<1>11. ASSUME NEW r \in Requests, AccountsDies(r) PROVE CountersInv'
  BY <1>11 DEF AccountsDies
<1> QED BY <1>3, <1>5, <1>6, <1>7, <1>9, <1>10, <1>11, AccountsFrame DEF Counts

-----------------------------------------------------------------------------
\* All that the accounts keep.
AccountsInv == KeysTyped /\ AttemptsInv /\ CountersInv /\ SessionsInv /\ AnswersInv

LEMMA AccountsTypes == AccountsInv => AccountsTypeOK
<1> SUFFICES ASSUME AccountsInv PROVE AccountsTypeOK
  OBVIOUS
<1>1. Cardinality(Requests) \in Nat /\ AttemptLimit \in Nat
  BY FailingFinite, AccountsAssumption
<1>2. ASSUME NEW u \in Users
      PROVE attempts[u] \in [count : 0..(AttemptLimit + Cardinality(Requests)), expires : BOOLEAN]
  <2>1. attempts[u] \in [count : Nat, expires : BOOLEAN]
        /\ attempts[u].count + Cardinality(Failing(u)) <= AttemptLimit + Cardinality(Requests)
    BY DEF AccountsInv, AttemptsInv
  <2>2. Cardinality(Failing(u)) \in Nat
    BY FailingFinite
  <2>3. attempts[u].count \in 0..(AttemptLimit + Cardinality(Requests))
    BY <1>1, <2>1, <2>2
  <2> QED BY <2>1, <2>3
<1>3. attempts \in [Users -> [count : 0..(AttemptLimit + Cardinality(Requests)), expires : BOOLEAN]]
  BY <1>2 DEF AccountsInv, AttemptsInv
<1>4. AtOnceAtMost <= Cardinality(Requests) /\ AtOnceAtMost \in Nat
  <2>1. Cardinality(Requests) >= 1
    <3>1. PICK r \in Requests : TRUE
      BY AccountsAssumption
    <3>2. Cardinality({r}) <= Cardinality(Requests) /\ Cardinality({r}) = 1
      BY <3>1, AccountsAssumption, FS_Subset, FS_Singleton
    <3> QED BY <1>1, <3>2
  <2> QED BY <1>1, <2>1 DEF AtOnceAtMost
<1>5. ASSUME NEW s \in Sessions, NEW k \in 1..MaxSecrets
      PROVE  answers[s][k] \in 0..Cardinality(Requests)
  <2>1. answers[s][k] <= AtOnceAtMost
    BY AccountsImplies DEF AccountsInv, OneAnswerPerSecret
  <2>2. answers[s][k] \in Nat
    BY DEF AccountsInv, AnswersInv, Tables
  <2> QED BY <1>1, <1>4, <2>1, <2>2
<1>6. answers \in [Sessions -> [1..MaxSecrets -> 0..Cardinality(Requests)]]
  <2>1. answers \in [Sessions -> [1..MaxSecrets -> Nat]]
    BY DEF AccountsInv, AnswersInv, Tables
  <2> QED BY <1>5, <2>1
<1> QED BY <1>3, <1>6 DEF AccountsInv, KeysTyped, AccountsTypeOK

LEMMA AccountsEnds == AccountsInv => NothingOutlives
<1> SUFFICES ASSUME AccountsInv, Quiet PROVE NothingOutlives
  BY DEF NothingOutlives
<1>1. ~overlap /\ ~cut /\ \A r \in Requests : req[r].op = "idle"
  BY DEF Quiet, Idle
<1>2. ASSUME NEW s \in Sessions, Live(s), user[session[s].user].status = "SUSPENDED"
      PROVE  now >= session[s].createdAt + Ttl
  <2>1. PICK r \in Requests : SessionOK(s, req[r])
    BY <1>1 DEF AccountsInv, SessionsInv
  <2> QED BY <1>1, <1>2, <2>1 DEF SessionOK, Ending, Suspended, Overdue
<1>3. ASSUME NEW u \in Users, attempts[u].count > 0 PROVE attempts[u].expires
  BY <1>1, <1>3 DEF AccountsInv, CountersInv
<1> QED BY <1>2, <1>3 DEF NothingOutlives

LEMMA AccountsKeeps ==
  ASSUME AccountsInv, AccountsRequests, InFlightOK, AccountsNext
  PROVE  AccountsInv'
BY AccountsTyped, AttemptsKeeps, CountersKeeps, SessionsKeeps, AccountsNextOK DEF AccountsInv

\* A step of another desk; one that is cut short is known of everywhere.
LEMMA AccountsElsewhere ==
  ASSUME AccountsInv, InFlightOK,
         UNCHANGED <<now, user, session, index, token, attempts, secrets, answers>>,
         UNCHANGED cut \/ cut' = TRUE,
         NEW Q, \A q \in Q : q.op \notin AccountsOps \cup {"idle"}, Steps(Q)
  PROVE  AccountsInv'
<1>1. \A q \in Q \cup {Idle} : q.op \notin AccountsOps
  BY DEF Idle, AccountsOps
<1>2. UNCHANGED overlap /\ (UNCHANGED req \/ \E r \in Requests :
          /\ req' = [req EXCEPT ![r] = req'[r]] /\ req'[r].op \notin AccountsOps
          /\ req[r].op \notin AccountsOps /\ (req[r].op # "idle" \/ MayStart \/ req'[r].op = "idle"))
  <2>1. CASE UNCHANGED req
    BY <2>1 DEF Steps
  <2>2. CASE ~UNCHANGED req
    <3>1. PICK r \in Requests :
             /\ req' = [req EXCEPT ![r] = req'[r]] /\ req'[r] \in Q \cup {Idle}
             /\ req[r] \in Q \/ (MayStart /\ req[r].op = "idle")
      BY <2>2 DEF Steps
    <3>2. req[r].op \notin AccountsOps
      <4>1. "idle" \notin AccountsOps
        BY DEF AccountsOps
      <4> QED BY <3>1, <4>1
    <3>3. req'[r].op \notin AccountsOps
      BY <1>1, <3>1
    <3>4. req[r].op # "idle" \/ MayStart
      BY <3>1
    <3> QED BY <3>1, <3>2, <3>3, <3>4 DEF Steps
  <2> QED BY <2>1, <2>2
<1>3. \A x \in Requests : req'[x] = req[x] \/ (req[x].op \notin AccountsOps /\ req'[x].op \notin AccountsOps)
  BY <1>2 DEF InFlightOK
<1>4. cut' \in BOOLEAN /\ (cut' = cut \/ cut')
  BY DEF AccountsInv, KeysTyped
<1>5. KeysTyped'
  BY <1>4 DEF AccountsInv, KeysTyped
<1>6. SessionsInv'
  BY <1>2, <1>3, <1>4, SessionsElsewhere DEF AccountsInv
<1>7. \A x \in Requests : req'[x] = req[x] \/ (req[x].op # "LoginWindow" /\ req'[x].op # "LoginFailed")
  BY <1>3 DEF AccountsOps
<1>8. AttemptsInv' /\ CountersInv'
  BY <1>2, <1>4, <1>7, AttemptsElse, CountersElse DEF AccountsInv
<1>9. AnswersInv'
  <2>1. CASE UNCHANGED req
    BY <1>2, <2>1, SilentIf, NoRequestOK DEF AccountsInv
  <2>2. CASE ~UNCHANGED req
    <3>1. PICK r, q : r \in Requests
          /\ q = req'[r] /\ req' = [req EXCEPT ![r] = q] /\ q.op \notin AccountsOps
          /\ (req[r].op # "idle" \/ MayStart \/ q.op = "idle")
      BY <1>2, <2>2
    <3>2. q.op \notin {"RotateWrite", "LoginClear", "CreateSession"}
      BY <3>1 DEF AccountsOps
    <3> QED BY <1>2, <3>1, <3>2, ElsewhereOK DEF AccountsInv
  <2> QED BY <2>1, <2>2
<1> QED BY <1>5, <1>6, <1>8, <1>9 DEF AccountsInv

LEMMA AccountsBegins == AccountsInit /\ HandlersInit => AccountsInv
<1> SUFFICES ASSUME AccountsInit, HandlersInit PROVE AccountsInv
  OBVIOUS
<1>1. KeysTyped
  <2>1. 0 \in 0..MaxTime /\ 0 \in 0..(MaxTime + Ttl) /\ 0 \in 0..MaxSecrets
    BY AccountsAssumption
  <2>2. NoUser \in UserRow /\ [status |-> "ACTIVE", password |-> TRUE, roles |-> Roles] \in UserRow
    BY DEF NoUser, UserRow, UserStatus
  <2>3. NoIndex \in Index
    BY <2>1 DEF NoIndex, Index
  <2> QED BY <2>1, <2>2, <2>3 DEF AccountsInit, KeysTyped
<1>2. \A r \in Requests : req[r].op = "idle"
  BY DEF HandlersInit, Idle
<1>3. \A u \in Users : attempts[u].count = 0
  BY DEF AccountsInit, NoAttempts
<1>4. AttemptsInv
  <2>1. attempts \in [Users -> [count : Nat, expires : BOOLEAN]]
    BY DEF AccountsInit, NoAttempts
  <2>2. ASSUME NEW u \in Users
        PROVE  attempts[u].count + Cardinality(Failing(u)) <= AttemptLimit + Cardinality(Requests)
    <3>1. Cardinality(Failing(u)) \in Nat /\ Cardinality(Failing(u)) <= Cardinality(Requests)
          /\ Cardinality(Requests) \in Nat
      BY FailingFinite
    <3> QED BY <1>3, <3>1, AccountsAssumption
  <2> QED BY <2>1, <2>2 DEF AttemptsInv
<1>5. CountersInv
  BY <1>3 DEF CountersInv
<1>6. SessionsInv
  <2>1. \A r \in Requests : FoundOK(req[r])
    BY <1>2 DEF FoundOK
  <2>2. \A s \in Sessions : ~Live(s)
    BY DEF AccountsInit, Live
  <2>3. \A s \in Sessions : \E r \in Requests : SessionOK(s, req[r])
    BY <2>2, AccountsAssumption DEF SessionOK
  <2> QED BY <2>1, <2>3 DEF SessionsInv
<1> QED BY <1>1, <1>4, <1>5, <1>6, AccountsInitOK DEF AccountsInv

-----------------------------------------------------------------------------
(* The platform: requests                                                   *)

SeededRoles == {SuperAdmin} \cup SchoolAdmins

ConsoleReq ==
  [op : {"Record", "SeedPermission"}]
  \cup [op : {"UpdatePermissions"}, role : RoleKeys \ {SuperAdmin}, requested : SUBSET SchoolPermissions,
        seen : SUBSET Grant]
  \cup [op : {"SeedGrants"}, left : SUBSET SeededRoles]
  \cup [op : {"SeedFlag"}, left : SUBSET Flags]
  \cup [op : {"SeedFlagWrite"}, left : SUBSET Flags, key : Flags, found : BOOLEAN]
  \cup [op : {"SeedAccount"}, row : 1..3]
  \cup [op : {"Sign"}, member : Members, permissions : SUBSET Permissions]

ContextReq ==
  {q \in [op : {"Guard", "Handle", "Audit"}, member : Members \cup {None}, tenant : Tenants \cup {None},
          permissions : SUBSET Permissions, at : 0..MaxTime, read : SUBSET Tenants] :
     q.tenant # None => q.member \in Members}

PlatformReq == ConsoleReq \cup ContextReq

PlatformRequests == \A r \in Requests : req[r].op \in PlatformOps => req[r] \in PlatformReq

LEMMA AccountRowsAre == Len(AccountRows) = 3
BY DEF AccountRows

LEMMA PlatformReqOp ==
  ASSUME NEW q \in PlatformReq
  PROVE  /\ q.op \in PlatformOps /\ q.op # "idle"
         /\ q.op = "UpdatePermissions" =>
              /\ q.role \in RoleKeys \ {SuperAdmin} /\ q.requested \in SUBSET SchoolPermissions
              /\ q.seen \in SUBSET Grant
         /\ q.op = "SeedGrants" => q.left \in SUBSET SeededRoles
         /\ q.op \in {"SeedFlag", "SeedFlagWrite"} => q.left \in SUBSET Flags
         /\ q.op = "SeedFlagWrite" => q.key \in Flags /\ q.found \in BOOLEAN
         /\ q.op = "SeedAccount" => q = [op |-> "SeedAccount", row |-> q.row] /\ q.row \in 1..3
         /\ q.op = "Sign" => q.member \in Members /\ q.permissions \in SUBSET Permissions
         /\ q.op \in {"Guard", "Handle", "Audit"} => q \in ContextReq
<1>1. CASE q \in ConsoleReq
  BY <1>1 DEF ConsoleReq, PlatformOps
<1>2. CASE q \in ContextReq
  BY <1>2 DEF ContextReq, PlatformOps
<1> QED BY <1>1, <1>2 DEF PlatformReq

LEMMA PlatformAt ==
  ASSUME PlatformRequests, NEW r \in Requests, req[r].op \in PlatformOps
  PROVE  req[r] \in PlatformReq
BY DEF PlatformRequests

\* The console and its seed.
LEMMA ConsoleSteps ==
  ASSUME ConsoleTypeOK, DOMAIN req = Requests, PlatformRequests, Moves(PlatformOps),
         \/ RolesController \/ FlagsController \/ SeedNext
         \/ \E r \in Requests : UpdatePermissionsDelete(r, MemberRole) \/ AccountsDies(r)
  PROVE  Steps(PlatformReq)
<1>1. ASSUME NEW r \in Requests, NEW op \in {"Record", "SeedPermission"}, Starts(r, [op |-> op])
      PROVE  Steps(PlatformReq)
  <2>1. PICK q \in PlatformReq : q = [op |-> op]
    BY DEF PlatformReq, ConsoleReq
  <2> QED BY <1>1, <2>1, StartSteps
<1>2. ASSUME NEW r \in Requests, Record(r) PROVE Steps(PlatformReq)
  BY <1>2, PlatformAt, EndSteps DEF Record, At, PlatformOps
<1>3. ASSUME NEW r \in Requests, UpdatePermissionsCommit(r) PROVE Steps(PlatformReq)
  <2>1. PICK q \in PlatformReq : q = [op |-> "Record"]
    BY DEF PlatformReq, ConsoleReq
  <2>2. req[r] \in PlatformReq
    BY <1>3, PlatformAt DEF UpdatePermissionsCommit, At, PlatformOps
  <2> QED BY <1>3, <2>1, <2>2, GoSteps DEF UpdatePermissionsCommit
<1>4. ASSUME NEW r \in Requests, NEW k \in RoleKeys, UpdatePermissionsDelete(r, k) PROVE Steps(PlatformReq)
  <2>1. PICK requested \in SUBSET SchoolPermissions :
          Starts(r, [op |-> "UpdatePermissions", role |-> k, requested |-> requested, seen |-> grants[k]])
    BY <1>4 DEF UpdatePermissionsDelete
  <2>2. k # SuperAdmin
    BY <1>4 DEF UpdatePermissionsDelete
  <2>3. PICK seen \in SUBSET Grant : seen = grants[k]
    BY DEF ConsoleTypeOK, MayHold
  <2>4. PICK q \in PlatformReq : q = [op |-> "UpdatePermissions", role |-> k, requested |-> requested, seen |-> seen]
    BY <2>2 DEF PlatformReq, ConsoleReq
  <2> QED BY <2>1, <2>3, <2>4, StartSteps
<1>5. ASSUME NEW r \in Requests, SeedPermission(r) PROVE Steps(PlatformReq)
  <2>1. PICK q \in PlatformReq : q = [op |-> "SeedGrants", left |-> {SuperAdmin} \cup SchoolAdmins]
    BY DEF PlatformReq, ConsoleReq, SeededRoles
  <2>2. req[r] \in PlatformReq
    BY <1>5, PlatformAt DEF SeedPermission, At, PlatformOps
  <2>3. Goes(r, q) \/ UNCHANGED <<req, overlap>>
    BY <1>5, <2>1 DEF SeedPermission
  <2>4. CASE Goes(r, q)
    BY <2>2, <2>4, GoSteps
  <2>5. CASE UNCHANGED <<req, overlap>>
    BY <2>5 DEF Steps
  <2> QED BY <2>3, <2>4, <2>5
<1>6. ASSUME NEW r \in Requests, SeedGrants(r) PROVE Steps(PlatformReq)
  <2>1. req[r] \in PlatformReq /\ req[r].left \in SUBSET SeededRoles
    BY <1>6, PlatformAt, PlatformReqOp DEF SeedGrants, At, PlatformOps
  <2>2. PICK k : Goes(r, IF req[r].left = {k} THEN [op |-> "SeedFlag", left |-> Flags]
                         ELSE [op |-> "SeedGrants", left |-> req[r].left \ {k}])
    BY <1>6 DEF SeedGrants
  <2>3. PICK p \in PlatformReq : p = [op |-> "SeedFlag", left |-> Flags]
    BY DEF PlatformReq, ConsoleReq
  <2>4. PICK left \in SUBSET SeededRoles : left = req[r].left \ {k}
    BY <2>1
  <2>5. PICK q \in PlatformReq : q = [op |-> "SeedGrants", left |-> left]
    BY DEF PlatformReq, ConsoleReq
  <2>6. Goes(r, p) \/ Goes(r, q)
    BY <2>2, <2>3, <2>4, <2>5
  <2> QED BY <2>1, <2>6, GoSteps
<1>7. ASSUME NEW r \in Requests, SeedFlagFind(r) PROVE Steps(PlatformReq)
  <2>1. req[r] \in PlatformReq /\ req[r].left \in SUBSET Flags
    BY <1>7, PlatformAt, PlatformReqOp DEF SeedFlagFind, At, PlatformOps
  <2>2. PICK f \in req[r].left :
          Goes(r, [op |-> "SeedFlagWrite", left |-> req[r].left \ {f}, key |-> f, found |-> flag[f] > 0])
    BY <1>7 DEF SeedFlagFind
  <2>3. PICK left \in SUBSET Flags : left = req[r].left \ {f}
    BY <2>1
  <2>4. PICK found \in BOOLEAN : found = (flag[f] > 0)
    <3>1. (flag[f] > 0) \in BOOLEAN
      OBVIOUS
    <3> QED BY <3>1, Zenon
  <2>5. PICK q \in PlatformReq : q = [op |-> "SeedFlagWrite", left |-> left, key |-> f, found |-> found]
    BY <2>1, <2>2 DEF PlatformReq, ConsoleReq
  <2>6. Goes(r, q)
    BY <2>2, <2>3, <2>4, <2>5
  <2> QED BY <2>1, <2>6, GoSteps
<1>8. ASSUME NEW r \in Requests, SeedFlagWrite(r) PROVE Steps(PlatformReq)
  <2>1. req[r] \in PlatformReq /\ req[r].left \in SUBSET Flags
    BY <1>8, PlatformAt, PlatformReqOp DEF SeedFlagWrite, At, PlatformOps
  <2>2. PICK p \in PlatformReq : p = [op |-> "SeedAccount", row |-> 1]
    <3>1. 1 \in 1..3
      OBVIOUS
    <3> QED BY <3>1 DEF PlatformReq, ConsoleReq
  <2>3. PICK q \in PlatformReq : q = [op |-> "SeedFlag", left |-> req[r].left]
    BY <2>1 DEF PlatformReq, ConsoleReq
  <2>4. Goes(r, p) \/ Goes(r, q)
    BY <1>8, <2>2, <2>3 DEF SeedFlagWrite
  <2> QED BY <2>1, <2>4, GoSteps
<1>9. ASSUME NEW r \in Requests, SeedAccount(r) PROVE Steps(PlatformReq)
  <2>1. req[r] \in PlatformReq /\ req[r] = [op |-> "SeedAccount", row |-> req[r].row] /\ req[r].row \in 1..3
    BY <1>9, PlatformAt, PlatformReqOp DEF SeedAccount, At, PlatformOps
  <2>2. CASE Ends(r)
    BY <2>1, <2>2, EndSteps
  <2>3. CASE Goes(r, [req[r] EXCEPT !.row = @ + 1]) /\ req[r].row # 3
    <3>1. PICK n : n = req[r].row + 1
      OBVIOUS
    <3>2. PICK q : q = [req[r] EXCEPT !.row = n]
      OBVIOUS
    <3>3. q = [op |-> "SeedAccount", row |-> n] /\ n \in 1..3
      BY <2>1, <2>3, <3>1, <3>2
    <3>4. q \in PlatformReq
      BY <3>3 DEF PlatformReq, ConsoleReq
    <3>5. Goes(r, q)
      BY <2>3, <3>1, <3>2
    <3> QED BY <2>1, <3>4, <3>5, GoSteps
  <2> QED BY <1>9, <2>2, <2>3, AccountRowsAre DEF SeedAccount
<1>10. ASSUME NEW r \in Requests, AccountsDies(r) PROVE Steps(PlatformReq)
  BY <1>10, DiesSteps DEF AccountsDies, PlatformRequests
<1>11. ASSUME NEW r \in Requests, NEW f \in Flags, UpdateFlag(r, f) PROVE Steps(PlatformReq)
  BY <1>1, <1>11 DEF UpdateFlag
<1>12. ASSUME NEW r \in Requests, SeedStarts(r) PROVE Steps(PlatformReq)
  BY <1>1, <1>12 DEF SeedStarts
<1> QED BY <1>2, <1>3, <1>4, <1>5, <1>6, <1>7, <1>8, <1>9, <1>10, <1>11, <1>12, TenancyAssumption
        DEF RolesController, FlagsController, SeedNext, Seed

LEMMA ContextAt ==
  ASSUME PlatformRequests, NEW r \in Requests, req[r].op \in {"Guard", "Handle", "Audit"}
  PROVE  /\ req[r] \in ContextReq /\ req[r] \in PlatformReq
         /\ req[r] = [op |-> req[r].op, member |-> req[r].member, tenant |-> req[r].tenant,
                      permissions |-> req[r].permissions, at |-> req[r].at, read |-> req[r].read]
         /\ req[r].member \in Members \cup {None} /\ req[r].tenant \in Tenants \cup {None}
         /\ req[r].permissions \in SUBSET Permissions /\ req[r].at \in 0..MaxTime
         /\ req[r].read \in SUBSET Tenants
         /\ req[r].tenant # None => req[r].tenant \in Tenants /\ req[r].member \in Members
<1>1. req[r] \in PlatformReq
  BY PlatformAt DEF PlatformOps
<1>2. req[r] \in ContextReq
  BY <1>1, PlatformReqOp
<1> QED BY <1>1, <1>2 DEF ContextReq

LEMMA ContextIs ==
  ASSUME NEW op \in {"Guard", "Handle", "Audit"}, NEW m \in Members \cup {None}, NEW t \in Tenants \cup {None},
         NEW ps \in SUBSET Permissions, NEW n \in 0..MaxTime, NEW read \in SUBSET Tenants,
         t # None => m \in Members
  PROVE  [op |-> op, member |-> m, tenant |-> t, permissions |-> ps, at |-> n, read |-> read] \in PlatformReq
<1>1. PICK q : q = [op |-> op, member |-> m, tenant |-> t, permissions |-> ps, at |-> n, read |-> read]
  OBVIOUS
<1>2. q \in ContextReq
  BY <1>1 DEF ContextReq
<1> QED BY <1>1, <1>2 DEF PlatformReq

\* The requests of the schools.
LEMMA RoutedSteps ==
  ASSUME ConsoleTypeOK, TenancyTypeOK, now \in 0..MaxTime, DOMAIN req = Requests, PlatformRequests,
         LetIn(Members) \/ \E r \in Requests :
           Public(r) \/ Query(r) \/ Answers(r) \/ AnswersMutation(r) \/ WriteAuditRow(r)
  PROVE  Steps(PlatformReq)
<1>1. ASSUME NEW r \in Requests, SignAccessToken(r) \/ Answers(r) \/ WriteAuditRow(r) PROVE Steps(PlatformReq)
  BY <1>1, PlatformAt, EndSteps DEF SignAccessToken, Answers, WriteAuditRow, At, PlatformOps
<1>2. ASSUME NEW r \in Requests, Arrives(r) PROVE Steps(PlatformReq)
  <2>1. 0 \in 0..MaxTime
    BY AccountsAssumption
  <2>2. PICK q \in PlatformReq : q = [op |-> "Guard", member |-> None, tenant |-> None, permissions |-> {},
                                      at |-> 0, read |-> {}]
    BY <2>1, ContextIs
  <2> QED BY <1>2, <2>2, StartSteps DEF Arrives
<1>3. ASSUME NEW r \in Requests, NEW m \in Members, ReadProfile(r, m) PROVE Steps(PlatformReq)
  <2>1. PICK ps \in SUBSET Permissions : ps = Granted(MemberRole)
    <3>1. grants[MemberRole] \subseteq Grant
      BY TenancyAssumption DEF ConsoleTypeOK, MayHold
    <3>2. Granted(MemberRole) \in SUBSET Permissions
      BY <3>1 DEF Granted, Grant
    <3> QED BY <3>2
  <2>2. PICK q \in PlatformReq : q = [op |-> "Sign", member |-> m, permissions |-> ps]
    BY DEF PlatformReq, ConsoleReq
  <2> QED BY <1>3, <2>1, <2>2, StartSteps DEF ReadProfile
<1>4. ASSUME NEW r \in Requests, Authenticated(r) PROVE Steps(PlatformReq)
  <2>1. PICK t \in AccessToken : Goes(r, [op |-> "Handle", member |-> t.member, tenant |-> t.tenant,
                                          permissions |-> t.permissions, at |-> now, read |-> {}])
    BY <1>4 DEF Authenticated, TenancyTypeOK
  <2>2. t.member \in Members /\ t.tenant \in Tenants /\ t.permissions \in SUBSET Permissions
    BY DEF AccessToken
  <2>3. PICK n \in 0..MaxTime : n = now
    OBVIOUS
  <2>4. PICK q \in PlatformReq : q = [op |-> "Handle", member |-> t.member, tenant |-> t.tenant,
                                      permissions |-> t.permissions, at |-> n, read |-> {}]
    BY <2>2, ContextIs
  <2>5. req[r] \in PlatformReq
    BY <1>4, ContextAt DEF Authenticated, At
  <2> QED BY <2>1, <2>3, <2>4, <2>5, GoSteps
<1>5. ASSUME NEW r \in Requests, Public(r) \/ AnswersMutation(r) PROVE Steps(PlatformReq)
  <2>1. PICK op \in {"Handle", "Audit"} : Goes(r, [req[r] EXCEPT !.op = op])
    BY <1>5 DEF Public, AnswersMutation
  <2>2. req[r].op \in {"Guard", "Handle"}
    BY <1>5 DEF Public, AnswersMutation, At
  <2>3. PICK q : q = [req[r] EXCEPT !.op = op]
    OBVIOUS
  <2>4. q = [op |-> op, member |-> req[r].member, tenant |-> req[r].tenant,
             permissions |-> req[r].permissions, at |-> req[r].at, read |-> req[r].read]
    BY <2>2, <2>3, ContextAt
  <2>5. q \in PlatformReq
    BY <2>2, <2>4, ContextAt, ContextIs
  <2>6. req[r] \in PlatformReq
    BY <2>2, ContextAt
  <2> QED BY <2>1, <2>3, <2>5, <2>6, GoSteps
<1>6. ASSUME NEW r \in Requests, FindRows(r) PROVE Steps(PlatformReq)
  <2>1. PICK found : /\ Goes(r, [req[r] EXCEPT !.read = @ \cup found])
                     /\ found \subseteq Tenants
    <3>0. PICK op \in Finds : \E where \in Where(op) :
            Goes(r, [req[r] EXCEPT !.read = @ \cup
              {row[w].tenant : w \in Matching(ScopedWhere(op, where, req[r].tenant))}])
      BY <1>6 DEF FindRows
    <3>1. PICK where \in Where(op) :
            Goes(r, [req[r] EXCEPT !.read = @ \cup
              {row[w].tenant : w \in Matching(ScopedWhere(op, where, req[r].tenant))}])
      BY <3>0
    <3>2. PICK x : x = ScopedWhere(op, where, req[r].tenant)
      OBVIOUS
    <3>3. x.ids \subseteq Rows
      <4>1. where.ids = where.ids /\ where \in [ids : IF op \in UniqueWhereOperations THEN {{w} : w \in Rows} ELSE SUBSET Rows, tenants : SUBSET Tenants]
        BY DEF Where
      <4>2. where.ids \subseteq Rows
        BY <4>1
      <4> QED BY <3>2, <4>1, <4>2 DEF ScopedWhere
    <3>4. {row[w].tenant : w \in Matching(x)} \subseteq Tenants
      BY <3>3 DEF Matching, TenancyTypeOK, Row
    <3> QED BY <3>1, <3>2, <3>4
  <2>2. req[r].op = "Handle"
    BY <1>6 DEF FindRows, Queries, At
  <2>4. PICK read \in SUBSET Tenants : read = req[r].read \cup found
    BY <2>1, <2>2, ContextAt
  <2>3. PICK q : q = [req[r] EXCEPT !.read = read]
    OBVIOUS
  <2>5. q = [op |-> "Handle", member |-> req[r].member, tenant |-> req[r].tenant,
             permissions |-> req[r].permissions, at |-> req[r].at, read |-> read]
    <3>1. req[r] = [op |-> "Handle", member |-> req[r].member, tenant |-> req[r].tenant,
                    permissions |-> req[r].permissions, at |-> req[r].at, read |-> req[r].read]
      BY <2>2, ContextAt
    <3> QED BY <2>3, <3>1
  <2>6. q \in PlatformReq
    BY <2>2, <2>5, ContextAt, ContextIs
  <2>7. req[r] \in PlatformReq
    BY <2>2, ContextAt
  <2>8. Goes(r, q)
    BY <2>1, <2>3, <2>4
  <2> QED BY <2>6, <2>7, <2>8, GoSteps
<1>7. ASSUME NEW r \in Requests, CreateRow(r) \/ UpdateRows(r) \/ UpsertRow(r) \/ DeleteRows(r)
      PROVE  Steps(PlatformReq)
  BY <1>7 DEF CreateRow, UpdateRows, UpsertRow, DeleteRows, Steps
<1> QED BY <1>1, <1>2, <1>3, <1>4, <1>5, <1>6, <1>7 DEF LetIn, Query

LEMMA PlatformSteps ==
  ASSUME ConsoleTypeOK, TenancyTypeOK, now \in 0..MaxTime, DOMAIN req = Requests, PlatformRequests,
         NEW d, PlatformDesk(d)
  PROVE  Steps(PlatformReq)
<1>1. Moves(PlatformOps)
  BY DEF PlatformDesk
<1>2. CASE ConsoleNext
  BY <1>1, <1>2, ConsoleSteps DEF ConsoleNext, ConsoleDies
<1>3. CASE Routed
  BY <1>3, RoutedSteps DEF Routed
<1>4. CASE Guarded
  <2>1. CASE LetIn({CHOOSE m \in Members : TRUE}) \/ \E r \in Requests : Answers(r)
    <3>1. (CHOOSE m \in Members : TRUE) \in Members
      BY TenancyAssumption
    <3>2. LetIn(Members) \/ \E r \in Requests : Answers(r)
      BY <2>1, <3>1, Zenon DEF LetIn
    <3> QED BY <3>2, RoutedSteps
  <2>2. CASE TokensAge
    BY <2>2 DEF TokensAge, Tick, Steps
  <2>3. CASE \E r \in Requests :
          \/ UpdatePermissionsDelete(r, MemberRole) \/ UpdatePermissionsCommit(r) \/ Record(r)
    BY <1>1, <2>3, ConsoleSteps DEF RolesController
  <2> QED BY <1>4, <2>1, <2>2, <2>3 DEF Guarded
<1>5. CASE \E r \in Requests : TenancyDies(r)
  BY <1>1, <1>5, ConsoleSteps DEF TenancyDies, ConsoleDies
<1> QED BY <1>2, <1>3, <1>4, <1>5 DEF PlatformDesk

-----------------------------------------------------------------------------
(* Console: its log                                                         *)

\* Changes that were made and are not in the log yet.
Recording == {r \in Requests : req[r].op = "Record"}

LogInv ==
  /\ changes \in 0..MaxEdits /\ logged \in Nat
  /\ logged + Cardinality(Recording) <= changes
  /\ ~cut => changes = logged + Cardinality(Recording)

LEMMA LogTells == LogInv => ConsoleLogged /\ logged \in 0..MaxEdits
<1> SUFFICES ASSUME LogInv PROVE ConsoleLogged /\ logged \in 0..MaxEdits
  OBVIOUS
<1>1. Recording = {r \in Requests : At(r, "Record")}
  BY DEF Recording, At
<1>2. Cardinality(Recording) \in Nat
  <2>1. IsFiniteSet(Recording)
    BY AccountsAssumption, FS_Subset DEF Recording
  <2> QED BY <2>1, FS_CardinalityType
<1>3. logged <= changes /\ logged \in 0..MaxEdits
  BY <1>2, CatalogAssumption DEF LogInv
<1> QED BY <1>1, <1>3 DEF LogInv, ConsoleLogged

LEMMA LogElse ==
  ASSUME LogInv, UNCHANGED <<changes, logged>>, cut' = cut \/ cut',
         \A x \in Requests : req'[x] = req[x] \/ (req'[x].op # "Record" /\ (req[x].op # "Record" \/ cut'))
  PROVE  LogInv'
<1>1. PICK R, R2 : R = Recording /\ R2 = Recording'
  OBVIOUS
<1>2. IsFiniteSet(R) /\ R2 \subseteq R
  BY <1>1, AccountsAssumption, FS_Subset DEF Recording
<1>3. IsFiniteSet(R2) /\ Cardinality(R2) <= Cardinality(R)
  BY <1>2, FS_Subset
<1>4. Cardinality(R) \in Nat /\ Cardinality(R2) \in Nat
  BY <1>2, <1>3, FS_CardinalityType
<1>5. logged' + Cardinality(R2) <= changes'
  BY <1>1, <1>3, <1>4 DEF LogInv
<1>6. ~cut' => changes' = logged' + Cardinality(R2)
  <2>1. ASSUME ~cut' PROVE R2 = R /\ ~cut
    BY <1>1, <2>1 DEF Recording
  <2> QED BY <1>1, <2>1 DEF LogInv
<1> QED BY <1>1, <1>5, <1>6 DEF LogInv

\* A change, which goes on to the log.
LEMMA LogChange ==
  ASSUME LogInv, changes < MaxEdits, changes' = changes + 1, UNCHANGED <<logged, cut>>,
         NEW r \in Requests, req[r].op # "Record", req'[r].op = "Record",
         \A x \in Requests \ {r} : req'[x] = req[x]
  PROVE  LogInv'
<1>1. PICK R, R2 : R = Recording /\ R2 = Recording'
  OBVIOUS
<1>2. IsFiniteSet(R) /\ R2 = R \cup {r} /\ r \notin R
  BY <1>1, AccountsAssumption, FS_Subset DEF Recording
<1>3. Cardinality(R) \in Nat /\ Cardinality(R2) = Cardinality(R) + 1
  BY <1>2, FS_CardinalityType, FS_AddElement
<1>4. changes' \in 0..MaxEdits
  BY CatalogAssumption DEF LogInv
<1>5. /\ logged' + Cardinality(R2) <= changes'
      /\ ~cut' => changes' = logged' + Cardinality(R2)
  BY <1>1, <1>3 DEF LogInv
<1> QED BY <1>1, <1>4, <1>5 DEF LogInv

LEMMA LogRecord ==
  ASSUME LogInv, InFlightOK, NEW r \in Requests, Record(r), UNCHANGED cut
  PROVE  LogInv'
<1>1. PICK R, R2 : R = Recording /\ R2 = Recording'
  OBVIOUS
<1>2. req[r].op = "Record" /\ logged' = logged + 1 /\ changes' = changes
      /\ req'[r].op = "idle" /\ \A x \in Requests \ {r} : req'[x] = req[x]
  BY DEF Record, At, Ends, Idle, InFlightOK
<1>3. IsFiniteSet(R) /\ R2 = R \ {r} /\ r \in R
  BY <1>1, <1>2, AccountsAssumption, FS_Subset DEF Recording
<1>4. Cardinality(R) \in Nat /\ Cardinality(R2) \in Nat /\ Cardinality(R2) = Cardinality(R) - 1
  <2>1. Cardinality(R) \in Nat /\ Cardinality(R2) = Cardinality(R) - 1
    BY <1>3, FS_CardinalityType, FS_RemoveElement
  <2>2. IsFiniteSet(R2)
    BY <1>3, FS_RemoveElement
  <2> QED BY <2>1, <2>2, FS_CardinalityType
<1>5. /\ logged' + Cardinality(R2) <= changes'
      /\ ~cut' => changes' = logged' + Cardinality(R2)
  BY <1>1, <1>2, <1>4 DEF LogInv
<1> QED BY <1>1, <1>2, <1>5 DEF LogInv

\* How the statements of the console move their request.
LEMMA ChangeMoves ==
  ASSUME InFlightOK, NEW r \in Requests, UpdatePermissionsCommit(r) \/ \E f \in Flags : UpdateFlag(r, f)
  PROVE  /\ UNCHANGED overlap /\ \A x \in Requests \ {r} : req'[x] = req[x]
         /\ req[r].op \in {"idle", "UpdatePermissions"} /\ req'[r].op = "Record"
<1>1. req' = [req EXCEPT ![r] = [op |-> "Record"]] /\ UNCHANGED overlap
      /\ req[r].op \in {"idle", "UpdatePermissions"}
  BY DEF UpdatePermissionsCommit, UpdateFlag, Starts, Goes, At
<1> QED BY <1>1 DEF InFlightOK

LEMMA DeleteMoves ==
  ASSUME InFlightOK, NEW r \in Requests, NEW k, UpdatePermissionsDelete(r, k)
  PROVE  /\ UNCHANGED overlap /\ \A x \in Requests \ {r} : req'[x] = req[x]
         /\ req[r].op = "idle" /\ req'[r].op = "UpdatePermissions"
         /\ req'[r].role = k /\ req'[r].seen = grants[k]
BY DEF UpdatePermissionsDelete, Starts, InFlightOK

SeedPlain == {"idle", "SeedPermission", "SeedGrants", "SeedFlag", "SeedAccount"}

LEMMA SeedMoves ==
  ASSUME InFlightOK, NEW r \in Requests, SeedStarts(r) \/ Seed(r)
  PROVE  /\ UNCHANGED overlap /\ \A x \in Requests \ {r} : req'[x] = req[x]
         /\ \/ req'[r] = req[r]
            \/ req[r].op \in SeedPlain /\ req'[r].op \in SeedPlain
            \/ req[r].op = "SeedFlag" /\ SeedFlagFind(r)
            \/ req'[r].op \in SeedPlain /\ SeedFlagWrite(r)
<1>1. CASE SeedStarts(r)
  BY <1>1 DEF SeedStarts, Starts, InFlightOK, SeedPlain
<1>2. CASE SeedPermission(r)
  <2>1. CASE UNCHANGED <<req, overlap>>
    BY <2>1
  <2>2. CASE Goes(r, [op |-> "SeedGrants", left |-> {SuperAdmin} \cup SchoolAdmins])
    BY <1>2, <2>2 DEF SeedPermission, At, Goes, InFlightOK, SeedPlain
  <2> QED BY <1>2, <2>1, <2>2 DEF SeedPermission
<1>3. CASE SeedGrants(r)
  <2>1. PICK k : Goes(r, IF req[r].left = {k} THEN [op |-> "SeedFlag", left |-> Flags]
                         ELSE [op |-> "SeedGrants", left |-> req[r].left \ {k}])
    BY <1>3 DEF SeedGrants
  <2>2. req[r].op = "SeedGrants"
    BY <1>3 DEF SeedGrants, At
  <2> QED BY <2>1, <2>2 DEF Goes, InFlightOK, SeedPlain
<1>4. CASE SeedFlagFind(r)
  <2>1. PICK f : Goes(r, [op |-> "SeedFlagWrite", left |-> req[r].left \ {f}, key |-> f, found |-> flag[f] > 0])
    BY <1>4 DEF SeedFlagFind
  <2>2. req[r].op = "SeedFlag"
    BY <1>4 DEF SeedFlagFind, At
  <2> QED BY <1>4, <2>1, <2>2 DEF Goes, InFlightOK
<1>5. CASE SeedFlagWrite(r)
  BY <1>5 DEF SeedFlagWrite, Goes, InFlightOK, SeedPlain
<1>6. CASE SeedAccount(r)
  <2>1. PICK q : q = [req[r] EXCEPT !.row = @ + 1]
    OBVIOUS
  <2>2. /\ req' = [req EXCEPT ![r] = Idle] \/ req' = [req EXCEPT ![r] = q]
        /\ UNCHANGED overlap /\ req[r].op = "SeedAccount"
    BY <1>6, <2>1 DEF SeedAccount, Goes, Ends, At
  <2>3. req' = [req EXCEPT ![r] = q] => req'[r] = q /\ UNCHANGED overlap
    BY <2>2 DEF InFlightOK
  <2>4. q.op = "SeedAccount"
    BY <2>1, <2>2
  <2>5. \A x \in Requests \ {r} : req'[x] = req[x]
    BY <2>2 DEF InFlightOK
  <2>6. req'[r].op \in {"idle", "SeedAccount"}
    BY <2>2, <2>3, <2>4 DEF InFlightOK, Idle
  <2> QED BY <2>2, <2>5, <2>6 DEF SeedPlain
<1> QED BY <1>1, <1>2, <1>3, <1>4, <1>5, <1>6 DEF Seed

-----------------------------------------------------------------------------
(* Console: the rows of a flag                                              *)

\* Seeds that have found no row of flag f, and are about to insert one.
Inserting(f) == {r \in Requests : req[r].op = "SeedFlagWrite" /\ req[r].key = f /\ ~req[r].found}

FlagsInv ==
  /\ flag \in [Flags -> Nat]
  /\ \A f \in Flags : flag[f] + Cardinality(Inserting(f)) <= AtOnceAtMost

LEMMA InsertingFinite ==
  ASSUME NEW f
  PROVE  IsFiniteSet(Inserting(f)) /\ Cardinality(Inserting(f)) \in Nat
<1>1. Inserting(f) \subseteq Requests
  BY DEF Inserting
<1>2. IsFiniteSet(Inserting(f))
  BY <1>1, AccountsAssumption, FS_Subset
<1> QED BY <1>2, FS_CardinalityType

LEMMA AtOnceNat == AtOnceAtMost \in Nat /\ AtOnceAtMost >= 1
<1>1. Cardinality(Requests) \in Nat
  BY AccountsAssumption, FS_CardinalityType
<1>2. PICK r \in Requests : TRUE
  BY AccountsAssumption
<1>3. Cardinality({r}) <= Cardinality(Requests) /\ Cardinality({r}) = 1
  BY AccountsAssumption, FS_Subset, FS_Singleton
<1> QED BY <1>1, <1>3 DEF AtOnceAtMost

\* No seed comes that has found no row of f.
LEMMA FlagKept ==
  ASSUME FlagsInv, UNCHANGED overlap, NEW f \in Flags, flag'[f] = flag[f],
         Inserting(f)' \subseteq Inserting(f)
  PROVE  flag'[f] + Cardinality(Inserting(f)') <= AtOnceAtMost'
<1>1. PICK S, T : S = Inserting(f) /\ T = Inserting(f)'
  OBVIOUS
<1>2. IsFiniteSet(S) /\ Cardinality(S) \in Nat /\ T \subseteq S
  BY <1>1, InsertingFinite
<1>3. IsFiniteSet(T) /\ Cardinality(T) <= Cardinality(S)
  BY <1>2, FS_Subset
<1>4. Cardinality(T) \in Nat
  BY <1>3, FS_CardinalityType
<1>5. flag[f] \in Nat /\ flag[f] + Cardinality(S) <= AtOnceAtMost /\ AtOnceAtMost' = AtOnceAtMost
  BY <1>1 DEF FlagsInv, AtOnceAtMost
<1>6. AtOnceAtMost \in Nat
  BY AtOnceNat
<1> QED BY <1>1, <1>2, <1>3, <1>4, <1>5, <1>6

LEMMA FlagsElse ==
  ASSUME FlagsInv, UNCHANGED <<flag, overlap>>,
         \A x \in Requests : req'[x] = req[x] \/ req'[x].op # "SeedFlagWrite"
  PROVE  FlagsInv'
<1>1. ASSUME NEW f \in Flags PROVE flag'[f] + Cardinality(Inserting(f)') <= AtOnceAtMost'
  <2>1. Inserting(f)' \subseteq Inserting(f)
    BY DEF Inserting
  <2> QED BY <2>1, FlagKept
<1> QED BY <1>1 DEF FlagsInv

LEMMA FlagFindOK ==
  ASSUME FlagsInv, InFlightOK, InFlightOK', NEW r \in Requests, SeedFlagFind(r)
  PROVE  FlagsInv'
<1>1. PICK f \in req[r].left :
        Goes(r, [op |-> "SeedFlagWrite", left |-> req[r].left \ {f}, key |-> f, found |-> flag[f] > 0])
  BY DEF SeedFlagFind
<1>2. PICK found \in BOOLEAN : found = (flag[f] > 0)
  <2>1. (flag[f] > 0) \in BOOLEAN
    OBVIOUS
  <2> QED BY <2>1, Zenon
<1>3. PICK q : q = [op |-> "SeedFlagWrite", left |-> req[r].left \ {f}, key |-> f, found |-> found]
  OBVIOUS
<1>4. q.op = "SeedFlagWrite" /\ q.key = f /\ (q.found <=> found) /\ req' = [req EXCEPT ![r] = q]
  BY <1>1, <1>2, <1>3 DEF Goes
<1>5. /\ req'[r] = q /\ (\A x \in Requests \ {r} : req'[x] = req[x])
      /\ UNCHANGED <<flag, overlap>>
  BY <1>1, <1>4 DEF Goes, InFlightOK, SeedFlagFind, consoleTables
<1>6. found <=> flag[f] > 0
  BY <1>2
<1>7. ASSUME NEW g \in Flags PROVE flag'[g] + Cardinality(Inserting(g)') <= AtOnceAtMost'
  <2>1. CASE g # f \/ found
    <3>1. Inserting(g)' \subseteq Inserting(g)
      BY <1>4, <1>5, <2>1 DEF Inserting
    <3> QED BY <1>5, <3>1, FlagKept
  <2>2. CASE g = f /\ ~found
    <3>1. flag[g] = 0
      BY <1>6, <2>2 DEF FlagsInv
    <3>2. PICK T : T = Inserting(g)'
      OBVIOUS
    <3>3. T \in SUBSET Requests /\ (~overlap => \A x, y \in T : x = y)
      <4>1. T \in SUBSET Requests /\ \A x \in T : req'[x].op # "idle"
        BY <3>2 DEF Inserting
      <4>2. ~overlap => \A x, y \in Requests : req'[x].op # "idle" /\ req'[y].op # "idle" => x = y
        BY <1>5 DEF InFlightOK, OneAtATime
      <4> QED BY <4>1, <4>2
    <3>4. Cardinality(T) \in Nat /\ AtOnceAtMost \in Nat /\ Cardinality(T) <= AtOnceAtMost
      BY <3>3, InFlight
    <3> QED BY <1>5, <3>1, <3>2, <3>4 DEF AtOnceAtMost
  <2> QED BY <2>1, <2>2
<1> QED BY <1>5, <1>7 DEF FlagsInv

LEMMA FlagWriteOK ==
  ASSUME FlagsInv, InFlightOK, PlatformRequests, NEW r \in Requests, SeedFlagWrite(r)
  PROVE  FlagsInv'
<1>1. req[r].op = "SeedFlagWrite" /\ req[r].key \in Flags /\ req[r].found \in BOOLEAN
  <2>1. req[r].op = "SeedFlagWrite"
    BY DEF SeedFlagWrite, At
  <2>2. req[r] \in PlatformReq
    BY <2>1, PlatformAt DEF PlatformOps
  <2> QED BY <2>1, <2>2, PlatformReqOp
<1>2. PICK f \in Flags : f = req[r].key
  BY <1>1
<1>3. (\A x \in Requests \ {r} : req'[x] = req[x]) /\ req'[r].op # "SeedFlagWrite" /\ UNCHANGED overlap
  BY DEF SeedFlagWrite, Goes, InFlightOK
<1>4. CASE req[r].found
  <2>1. flag' = [flag EXCEPT ![f] = @]
    BY <1>2, <1>4 DEF SeedFlagWrite
  <2>2. flag' = flag
    BY <2>1 DEF FlagsInv
  <2> QED BY <1>3, <2>2, FlagsElse
<1>5. CASE ~req[r].found
  <2>1. PICK n : n = flag[f] + 1
    OBVIOUS
  <2>2. n \in Nat /\ flag' = [flag EXCEPT ![f] = n]
    BY <1>2, <1>5, <2>1 DEF SeedFlagWrite, FlagsInv
  <2>3. flag' \in [Flags -> Nat]
    BY <2>2 DEF FlagsInv
  <2>4. ASSUME NEW g \in Flags PROVE flag'[g] + Cardinality(Inserting(g)') <= AtOnceAtMost'
    <3>1. CASE g # f
      <4>1. Inserting(g)' \subseteq Inserting(g) /\ flag'[g] = flag[g]
        BY <1>3, <2>2, <3>1 DEF Inserting, FlagsInv
      <4> QED BY <1>3, <4>1, FlagKept
    <3>2. CASE g = f
      <4>1. PICK S, T : S = Inserting(g) /\ T = Inserting(g)'
        OBVIOUS
      <4>2. T = S \ {r} /\ r \in S
        BY <1>1, <1>2, <1>3, <1>5, <3>2, <4>1 DEF Inserting
      <4>3. IsFiniteSet(S) /\ Cardinality(S) \in Nat
        BY <4>1, InsertingFinite
      <4>4. Cardinality(T) = Cardinality(S) - 1
        BY <4>2, <4>3, FS_RemoveElement
      <4>5. flag'[g] = flag[g] + 1 /\ flag[g] \in Nat
        BY <2>1, <2>2, <3>2 DEF FlagsInv
      <4>6. flag[g] + Cardinality(S) <= AtOnceAtMost /\ AtOnceAtMost \in Nat /\ AtOnceAtMost' = AtOnceAtMost
        BY <1>3, <4>1, AtOnceNat DEF FlagsInv, AtOnceAtMost
      <4> QED BY <4>1, <4>3, <4>4, <4>5, <4>6
    <3> QED BY <3>1, <3>2
  <2> QED BY <2>3, <2>4 DEF FlagsInv
<1> QED BY <1>1, <1>4, <1>5

LEMMA FlagsTyped == FlagsInv => flag \in [Flags -> 0..AtOnceAtMost]
<1> SUFFICES ASSUME FlagsInv PROVE flag \in [Flags -> 0..AtOnceAtMost]
  OBVIOUS
<1>1. ASSUME NEW f \in Flags PROVE flag[f] \in 0..AtOnceAtMost
  <2>1. flag[f] \in Nat /\ flag[f] + Cardinality(Inserting(f)) <= AtOnceAtMost
    BY DEF FlagsInv
  <2>2. Cardinality(Inserting(f)) \in Nat /\ AtOnceAtMost \in Nat
    BY InsertingFinite, AtOnceNat
  <2> QED BY <2>1, <2>2
<1> QED BY <1>1 DEF FlagsInv

-----------------------------------------------------------------------------
(* Console: what a role is granted                                          *)

\* Rows that role k may have after n changes: each permission once.
GrantSet(k, G, n) ==
  /\ G \subseteq Grant
  /\ \A g, h \in G : g.permission = h.permission => g = h
  /\ \A g \in G : g.edit <= n
  /\ k # SuperAdmin => \A g \in G : g.permission \in SchoolPermissions

GrantsInv ==
  /\ catalog \in SUBSET Permissions /\ changes \in 0..MaxEdits /\ seeded \in BOOLEAN
  /\ DOMAIN grants = RoleKeys /\ \A k \in RoleKeys : GrantSet(k, grants[k], changes)
  /\ \A r \in Requests : req[r].op = "SeedGrants" => catalog = Permissions
  /\ seeded => catalog = Permissions /\ Permissions \subseteq Granted(SuperAdmin)

LEMMA GrantCount ==
  ASSUME NEW k, NEW G, NEW n, GrantSet(k, G, n)
  PROVE  Cardinality({g.permission : g \in G}) = Cardinality(G)
<1>1. PICK T : T = {g.permission : g \in G}
  OBVIOUS
<1>2. PICK f : f = [g \in G |-> g.permission]
  OBVIOUS
<1>3. f \in Injection(G, T) /\ f \in Surjection(G, T)
  BY <1>1, <1>2 DEF GrantSet, Injection, IsInjective, Surjection
<1>4. T \subseteq Permissions
  BY <1>1 DEF GrantSet, Grant
<1>5. IsFiniteSet(T)
  BY <1>4, CatalogAssumption, FS_Subset
<1>6. Cardinality(G) = Cardinality(T)
  BY <1>3, <1>5, FS_Injection
<1> QED BY <1>1, <1>6

LEMMA GrantsHold == GrantsInv => \A k \in RoleKeys : MayHold(k)
<1> SUFFICES ASSUME GrantsInv, NEW k \in RoleKeys PROVE MayHold(k)
  OBVIOUS
<1>1. GrantSet(k, grants[k], changes)
  BY DEF GrantsInv
<1>2. Cardinality(Granted(k)) = Cardinality(grants[k])
  BY <1>1, GrantCount DEF Granted
<1>3. k # SuperAdmin => Granted(k) \subseteq SchoolPermissions
  BY <1>1 DEF GrantSet, Granted
<1>4. Granted(k) \subseteq Permissions
  BY <1>1 DEF GrantSet, Granted, Grant
<1>5. k = SuperAdmin /\ seeded => Granted(k) = catalog
  BY <1>4 DEF GrantsInv
<1> QED BY <1>1, <1>2, <1>3, <1>5 DEF MayHold, GrantSet

LEMMA GrantsBegin ==
  ASSUME ConsoleInit, HandlersInit
  PROVE  GrantsInv
<1>1. PICK permissions \in {{}, OldCatalog} : catalog = permissions /\ grants = SeededWith(permissions)
  BY DEF ConsoleInit
<1>2. permissions \subseteq Permissions /\ 0 \in 0..MaxEdits
  BY CatalogAssumption
<1>3. ASSUME NEW k \in RoleKeys PROVE GrantSet(k, grants[k], 0)
  <2>1. PICK D : D = Default(k, permissions)
    OBVIOUS
  <2>2. D \subseteq Permissions /\ (k # SuperAdmin => D \subseteq SchoolPermissions)
    BY <1>2, <2>1, CatalogAssumption DEF Default
  <2>3. grants[k] = [permission : D, edit : {0}]
    BY <1>1, <2>1 DEF SeededWith
  <2>4. \A g \in grants[k] : g = [permission |-> g.permission, edit |-> 0] /\ g.permission \in D
    BY <2>3
  <2>5. grants[k] \subseteq Grant
    BY <1>2, <2>2, <2>4 DEF Grant
  <2> QED BY <2>2, <2>4, <2>5 DEF GrantSet
<1>4. \A r \in Requests : req[r].op = "idle"
  BY DEF HandlersInit, Idle
<1>5. DOMAIN grants = RoleKeys
  BY <1>1 DEF SeededWith
<1> QED BY <1>1, <1>2, <1>3, <1>4, <1>5 DEF GrantsInv, ConsoleInit

LEMMA GrantsElse ==
  ASSUME GrantsInv, UNCHANGED <<catalog, grants, seeded>>, changes' \in {changes, changes + 1}, changes' \in 0..MaxEdits,
         \A x \in Requests : req'[x] = req[x] \/ req'[x].op # "SeedGrants" \/ req[x].op = "SeedGrants"
  PROVE  GrantsInv'
<1>1. ASSUME NEW k \in RoleKeys PROVE GrantSet(k, grants'[k], changes')
  <2>1. GrantSet(k, grants[k], changes) /\ changes \in Nat /\ changes' >= changes /\ changes' \in Nat
    BY CatalogAssumption DEF GrantsInv
  <2>2. \A g \in grants[k] : g.edit \in Nat
    BY <2>1 DEF GrantSet, Grant
  <2> QED BY <2>1, <2>2 DEF GrantSet
<1>2. Granted(SuperAdmin)' = Granted(SuperAdmin)
  BY DEF Granted
<1>3. seeded' => catalog' = Permissions /\ Permissions \subseteq Granted(SuperAdmin)'
  BY <1>2 DEF GrantsInv
<1>4. \A x \in Requests : req'[x].op = "SeedGrants" => catalog' = Permissions
  BY DEF GrantsInv
<1> QED BY <1>1, <1>3, <1>4 DEF GrantsInv

LEMMA SeedPermissionOK ==
  ASSUME GrantsInv, InFlightOK, NEW r \in Requests, SeedPermission(r)
  PROVE  GrantsInv' /\ UNCHANGED <<grants, flag, account, changes, logged, seeded, revokedAt>>
<1>1. UNCHANGED <<grants, flag, account, changes, logged, seeded, revokedAt>> /\ req[r].op = "SeedPermission"
  BY DEF SeedPermission, At
<1>2. CASE Permissions \subseteq catalog
  <2>1. UNCHANGED catalog /\ catalog = Permissions
    BY <1>2 DEF SeedPermission, GrantsInv
  <2>2. Granted(SuperAdmin)' = Granted(SuperAdmin)
    BY <1>1 DEF Granted
  <2> QED BY <1>1, <2>1, <2>2 DEF GrantsInv
<1>3. CASE ~(Permissions \subseteq catalog)
  <2>1. PICK p \in Permissions \ catalog : catalog' = catalog \cup {p}
    BY <1>3 DEF SeedPermission
  <2>2. UNCHANGED req
    BY <1>3 DEF SeedPermission
  <2>3. catalog # Permissions
    BY <1>3
  <2> QED BY <1>1, <2>1, <2>2, <2>3 DEF GrantsInv
<1> QED BY <1>1, <1>2, <1>3

\* Role k gets what it has not.
LEMMA SeedGrantsKeeps ==
  ASSUME GrantsInv, InFlightOK, PlatformRequests, NEW r \in Requests, SeedGrants(r)
  PROVE  /\ GrantsInv'
         /\ \E k \in RoleKeys, D \in SUBSET Permissions :
              grants' = [grants EXCEPT ![k] = grants[k] \cup [permission : D, edit : {0}]]
<1>1. PICK k \in req[r].left :
        /\ grants' = [grants EXCEPT ![k] = WithDefaults(k)]
        /\ seeded' = (seeded \/ k = SuperAdmin)
  BY DEF SeedGrants
<1>2. req[r].op = "SeedGrants" /\ UNCHANGED <<catalog, changes>>
  BY DEF SeedGrants, At
<1>3. k \in RoleKeys
  <2>1. req[r] \in PlatformReq
    BY <1>2, PlatformAt DEF PlatformOps
  <2>2. req[r].left \in SUBSET SeededRoles
    BY <1>2, <2>1, PlatformReqOp
  <2> QED BY <1>1, <2>2, CatalogAssumption DEF SeededRoles
<1>4. PICK D, H, G : /\ D = Default(k, Permissions) \ Granted(k)
                     /\ H = [permission : D, edit : {0}] /\ G = grants[k] \cup H
  OBVIOUS
<1>5. grants' = [grants EXCEPT ![k] = G]
  BY <1>1, <1>4 DEF WithDefaults
<1>6. D \subseteq Permissions /\ (k # SuperAdmin => D \subseteq SchoolPermissions)
  BY <1>4, CatalogAssumption DEF Default, SchoolPermissions
<1>7. \A g \in H : g = [permission |-> g.permission, edit |-> 0] /\ g.permission \in D
  BY <1>4
<1>8. GrantSet(k, G, changes)
  <2>1. GrantSet(k, grants[k], changes) /\ changes \in Nat /\ MaxEdits \in Nat
    BY <1>3, CatalogAssumption DEF GrantsInv
  <2>2. H \subseteq Grant
    BY <1>6, <1>7, <2>1 DEF Grant
  <2>3. \A g \in grants[k] : g.permission \notin D
    BY <1>4 DEF Granted
  <2>4. \A g, h \in G : g.permission = h.permission => g = h
    BY <1>4, <1>7, <2>1, <2>3 DEF GrantSet
  <2>5. (\A g \in G : g.edit <= changes) /\ (k # SuperAdmin => \A g \in G : g.permission \in SchoolPermissions)
    BY <1>4, <1>6, <1>7, <2>1 DEF GrantSet
  <2> QED BY <1>4, <2>1, <2>2, <2>4, <2>5 DEF GrantSet
<1>9. grants'[k] = G /\ (\A j \in RoleKeys \ {k} : grants'[j] = grants[j]) /\ DOMAIN grants' = RoleKeys
  BY <1>3, <1>5 DEF GrantsInv
<1>10. seeded' => Permissions \subseteq Granted(SuperAdmin)'
  <2>1. CASE k = SuperAdmin
    <3>1. D = Permissions \ Granted(k)
      BY <1>4, <2>1, CatalogAssumption DEF Default
    <3>2. ASSUME NEW p \in Permissions PROVE \E g \in G : g.permission = p
      <4>1. CASE p \in Granted(k)
        BY <1>4, <4>1 DEF Granted
      <4>2. CASE p \notin Granted(k)
        <5>1. PICK g : g = [permission |-> p, edit |-> 0]
          OBVIOUS
        <5>2. g.permission = p /\ g \in H
          BY <1>4, <3>1, <4>2, <5>1
        <5> QED BY <1>4, <5>2
      <4> QED BY <4>1, <4>2
    <3> QED BY <1>9, <2>1, <3>2 DEF Granted
  <2>2. CASE k # SuperAdmin
    <3>1. grants'[SuperAdmin] = grants[SuperAdmin] /\ (seeded' => seeded)
      BY <1>1, <1>9, <2>2, CatalogAssumption
    <3> QED BY <3>1 DEF GrantsInv, Granted
  <2> QED BY <2>1, <2>2
<1>11. /\ \A j \in RoleKeys : GrantSet(j, grants'[j], changes')
       /\ catalog' = Permissions /\ seeded' \in BOOLEAN
  BY <1>1, <1>2, <1>8, <1>9 DEF GrantsInv
<1>12. GrantsInv'
  BY <1>2, <1>9, <1>10, <1>11 DEF GrantsInv
<1> QED BY <1>3, <1>4, <1>5, <1>6, <1>12

LEMMA CommitGrantsOK ==
  ASSUME GrantsInv, InFlightOK, PlatformRequests, NEW r \in Requests, UpdatePermissionsCommit(r)
  PROVE  /\ GrantsInv' /\ changes' = changes + 1
         /\ req[r].role \in RoleKeys /\ req[r].seen \in SUBSET Grant
         /\ \E P \in SUBSET SchoolPermissions :
              grants' = [grants EXCEPT ![req[r].role] =
                           (grants[req[r].role] \ req[r].seen) \cup [permission : P, edit : {changes + 1}]]
<1>1. PICK k, seen, P, n : k = req[r].role /\ seen = req[r].seen /\ P = req[r].requested /\ n = changes + 1
  OBVIOUS
<1>2. k \in RoleKeys \ {SuperAdmin} /\ seen \in SUBSET Grant /\ P \in SUBSET SchoolPermissions
  <2>1. req[r].op = "UpdatePermissions"
    BY DEF UpdatePermissionsCommit, At
  <2>2. req[r] \in PlatformReq
    BY <2>1, PlatformAt DEF PlatformOps
  <2> QED BY <1>1, <2>1, <2>2, PlatformReqOp
<1>3. PICK H, G : H = [permission : P, edit : {n}] /\ G = (grants[k] \ seen) \cup H
  OBVIOUS
<1>4. /\ grants' = [grants EXCEPT ![k] = G] /\ changes' = n /\ UNCHANGED <<catalog, seeded>>
      /\ changes < MaxEdits /\ \A g \in grants[k] \ seen : g.permission \notin P
  BY <1>1, <1>3 DEF UpdatePermissionsCommit, Replaced
<1>5. changes \in Nat /\ MaxEdits \in Nat /\ n \in 0..MaxEdits /\ n \in Nat /\ n > changes
  BY <1>1, <1>4, CatalogAssumption DEF GrantsInv
<1>6. \A g \in H : g = [permission |-> g.permission, edit |-> n] /\ g.permission \in P
  BY <1>3
<1>7. ASSUME NEW j \in RoleKeys PROVE GrantSet(j, grants[j], n)
  <2>1. GrantSet(j, grants[j], changes)
    BY DEF GrantsInv
  <2>2. \A g \in grants[j] : g.edit \in Nat
    BY <2>1 DEF GrantSet, Grant
  <2> QED BY <1>5, <2>1, <2>2 DEF GrantSet
<1>8. GrantSet(k, G, n)
  <2>1. GrantSet(k, grants[k], n)
    BY <1>2, <1>7
  <2>2. H \subseteq Grant
    BY <1>2, <1>5, <1>6 DEF Grant, SchoolPermissions
  <2>3. \A g, h \in G : g.permission = h.permission => g = h
    BY <1>3, <1>4, <1>6, <2>1 DEF GrantSet
  <2>4. (\A g \in G : g.edit <= n) /\ \A g \in G : g.permission \in SchoolPermissions
    BY <1>2, <1>3, <1>5, <1>6, <2>1 DEF GrantSet
  <2> QED BY <1>3, <2>1, <2>2, <2>3, <2>4 DEF GrantSet
<1>9. grants'[k] = G /\ (\A j \in RoleKeys \ {k} : grants'[j] = grants[j]) /\ DOMAIN grants' = RoleKeys
  BY <1>2, <1>4 DEF GrantsInv
<1>10. \A j \in RoleKeys : GrantSet(j, grants'[j], changes')
  BY <1>4, <1>7, <1>8, <1>9
<1>11. seeded' => catalog' = Permissions /\ Permissions \subseteq Granted(SuperAdmin)'
  <2>1. grants'[SuperAdmin] = grants[SuperAdmin]
    BY <1>2, <1>9, CatalogAssumption
  <2> QED BY <1>4, <2>1 DEF GrantsInv, Granted
<1>12. \A x \in Requests : req'[x].op = "SeedGrants" => catalog' = Permissions
  <2>1. \A x \in Requests : req'[x] = req[x] \/ req'[x].op = "Record"
    BY DEF UpdatePermissionsCommit, Goes, InFlightOK
  <2> QED BY <1>4, <2>1 DEF GrantsInv
<1>13. GrantsInv'
  BY <1>4, <1>5, <1>9, <1>10, <1>11, <1>12 DEF GrantsInv
<1> QED BY <1>1, <1>2, <1>3, <1>4, <1>13

-----------------------------------------------------------------------------
(* Console: the edits among the grants of a role                            *)

Edits(G) == {g.edit : g \in G} \ {0}

\* The edits whose rows the requests about to replace the grants of role k have seen.
Editing(k) == [r \in {x \in Requests : req[x].op = "UpdatePermissions" /\ req[x].role = k} |-> Edits(req[r].seen)]

\* A request that has seen a row of an edit has seen all that are left of them.
GrantsApart ==
  /\ \A k \in RoleKeys : Apart(Edits(grants[k]), Editing(k), ~overlap)
  /\ \A r \in Requests : req[r].op = "UpdatePermissions" =>
       /\ \A g \in grants[req[r].role] : g.edit \in Edits(req[r].seen) => g \in req[r].seen
       /\ \A g \in req[r].seen : g.edit \in Nat /\ g.edit <= changes

LEMMA GrantEdits ==
  ASSUME GrantsInv, NEW k \in RoleKeys, NEW g \in grants[k]
  PROVE  g.edit \in Nat /\ g.edit <= changes
BY DEF GrantsInv, GrantSet, Grant

LEMMA GrantsApartBegin ==
  ASSUME ConsoleInit, HandlersInit
  PROVE  GrantsApart
<1>1. \A r \in Requests : req[r].op = "idle"
  BY DEF HandlersInit, Idle
<1>2. ASSUME NEW j \in RoleKeys PROVE Apart(Edits(grants[j]), Editing(j), ~overlap)
  <2>1. PICK C, S, alone : C = Edits(grants[j]) /\ S = Editing(j) /\ alone = ~overlap
    OBVIOUS
  <2>2. DOMAIN S = {}
    BY <1>1, <2>1 DEF Editing
  <2>3. C \in SUBSET {0}
    <3>1. PICK permissions : grants = SeededWith(permissions)
      BY DEF ConsoleInit
    <3>2. PICK D : D = Default(j, permissions)
      OBVIOUS
    <3>3. grants[j] = [permission : D, edit : {0}]
      BY <3>1, <3>2 DEF SeededWith
    <3>4. \A g \in grants[j] : g.edit = 0
      BY <3>3
    <3> QED BY <2>1, <3>4 DEF Edits
  <2>4. Apart(C, S, alone)
    BY <2>2, <2>3, ApartNew
  <2> QED BY <2>1, <2>4
<1> QED BY <1>1, <1>2 DEF GrantsApart

\* Rows of no edit come, and requests that have seen the rows there are.
LEMMA GrantsApartKeep ==
  ASSUME GrantsInv, GrantsApart, UNCHANGED overlap, changes' \in Nat, changes' >= changes,
         \A k \in RoleKeys : \A g \in grants'[k] : g.edit = 0 \/ g \in grants[k],
         PlatformRequests,
         \A x \in Requests :
           \/ req'[x] = req[x] \/ req'[x].op # "UpdatePermissions"
           \/ /\ req'[x].role \in RoleKeys /\ req'[x].seen = grants[req'[x].role]
              /\ UNCHANGED <<grants, changes>>
  PROVE  GrantsApart'
<1>1. ASSUME NEW k \in RoleKeys PROVE Apart(Edits(grants'[k]), Editing(k)', ~overlap)
  <2>1. PICK C, S, C2, S2 : C = Edits(grants[k]) /\ S = Editing(k) /\ C2 = Edits(grants'[k]) /\ S2 = Editing(k)'
    OBVIOUS
  <2>2. C2 \in SUBSET C
    BY <2>1 DEF Edits
  <2>3. /\ DOMAIN S = {x \in Requests : req[x].op = "UpdatePermissions" /\ req[x].role = k}
        /\ \A r \in DOMAIN S : S[r] = Edits(req[r].seen)
        /\ DOMAIN S2 = {x \in Requests : req'[x].op = "UpdatePermissions" /\ req'[x].role = k}
        /\ \A r \in DOMAIN S2 : S2[r] = Edits(req'[r].seen)
    BY <2>1 DEF Editing
  <2>4. \A r \in DOMAIN S2 : (r \in DOMAIN S /\ S2[r] = S[r]) \/ C2 \subseteq S2[r]
    <3>1. ASSUME NEW r \in DOMAIN S2 PROVE (r \in DOMAIN S /\ S2[r] = S[r]) \/ C2 \subseteq S2[r]
      <4>1. CASE req'[r] = req[r]
        BY <2>3, <4>1
      <4>2. CASE req'[r].seen = grants[req'[r].role]
        <5>1. req'[r].seen = grants[k]
          BY <2>3, <4>2
        <5>2. S2[r] = C
          BY <2>1, <2>3, <5>1
        <5> QED BY <2>2, <5>2
      <4> QED BY <2>3, <4>1, <4>2
    <3> QED BY <3>1
  <2>5. Apart(C, S, ~overlap)
    BY <2>1 DEF GrantsApart
  <2>6. Apart(C2, S2, ~overlap)
    BY <2>2, <2>4, <2>5, ApartKeep
  <2> QED BY <2>1, <2>6
<1>2. ASSUME NEW r \in Requests, req'[r].op = "UpdatePermissions"
      PROVE  /\ \A g \in grants'[req'[r].role] : g.edit \in Edits(req'[r].seen) => g \in req'[r].seen
             /\ \A g \in req'[r].seen : g.edit \in Nat /\ g.edit <= changes'
  <2>1. CASE req'[r] = req[r]
    <3>1. req[r].role \in RoleKeys
      <4>1. req[r] \in PlatformReq
        BY <1>2, <2>1, PlatformAt DEF PlatformOps
      <4> QED BY <1>2, <2>1, <4>1, PlatformReqOp
    <3>2. /\ \A g \in grants[req[r].role] : g.edit \in Edits(req[r].seen) => g \in req[r].seen
          /\ \A g \in req[r].seen : g.edit \in Nat /\ g.edit <= changes
      BY <1>2, <2>1 DEF GrantsApart
    <3>3. \A e \in Edits(req[r].seen) : e # 0
      BY DEF Edits
    <3>4. \A g \in grants'[req[r].role] : g.edit \in Edits(req[r].seen) => g \in req[r].seen
      BY <3>1, <3>2, <3>3
    <3>5. changes \in Nat
      BY CatalogAssumption DEF GrantsInv
    <3> QED BY <2>1, <3>2, <3>4, <3>5
  <2>2. CASE req'[r].role \in RoleKeys /\ req'[r].seen = grants[req'[r].role] /\ UNCHANGED <<grants, changes>>
    BY <2>2, GrantEdits
  <2> QED BY <1>2, <2>1, <2>2
<1> QED BY <1>1, <1>2 DEF GrantsApart

LEMMA GrantsApartCommit ==
  ASSUME GrantsInv, GrantsApart, InFlightOK, PlatformRequests, NEW r \in Requests, UpdatePermissionsCommit(r)
  PROVE  GrantsApart'
<1>1. PICK c, seen, n : c = req[r].role /\ seen = req[r].seen /\ n = changes + 1
  OBVIOUS
<1>2. c \in RoleKeys /\ seen \in SUBSET Grant
      /\ \E P \in SUBSET SchoolPermissions :
           grants' = [grants EXCEPT ![c] = (grants[c] \ seen) \cup [permission : P, edit : {n}]]
      /\ changes' = n
  BY <1>1, CommitGrantsOK
<1>3. PICK P \in SUBSET SchoolPermissions :
        grants' = [grants EXCEPT ![c] = (grants[c] \ seen) \cup [permission : P, edit : {n}]]
  BY <1>2
<1>4. PICK H, G : H = [permission : P, edit : {n}] /\ G = (grants[c] \ seen) \cup H
  OBVIOUS
<1>5. grants'[c] = G /\ \A j \in RoleKeys \ {c} : grants'[j] = grants[j]
  BY <1>2, <1>3, <1>4 DEF GrantsInv
<1>6. (\A g \in H : g.edit = n) /\ changes \in Nat /\ n \in Nat /\ n > changes /\ n # 0
  BY <1>1, <1>4, CatalogAssumption DEF GrantsInv
<1>7. /\ req[r].op = "UpdatePermissions" /\ req'[r].op = "Record" /\ UNCHANGED overlap
      /\ \A x \in Requests \ {r} : req'[x] = req[x]
  BY DEF UpdatePermissionsCommit, At, Goes, InFlightOK
<1>8. ASSUME NEW j \in RoleKeys PROVE Apart(Edits(grants'[j]), Editing(j)', ~overlap)
  <2>1. PICK C, S, C2, S2 : C = Edits(grants[j]) /\ S = Editing(j) /\ C2 = Edits(grants'[j]) /\ S2 = Editing(j)'
    OBVIOUS
  <2>2. /\ DOMAIN S = {x \in Requests : req[x].op = "UpdatePermissions" /\ req[x].role = j}
        /\ \A x \in DOMAIN S : S[x] = Edits(req[x].seen)
        /\ DOMAIN S2 = {x \in Requests : req'[x].op = "UpdatePermissions" /\ req'[x].role = j}
        /\ \A x \in DOMAIN S2 : S2[x] = Edits(req'[x].seen)
    BY <2>1 DEF Editing
  <2>3. r \notin DOMAIN S2 /\ \A x \in DOMAIN S2 : x \in DOMAIN S /\ S2[x] = S[x]
    BY <1>7, <2>2
  <2>4. Apart(C, S, ~overlap)
    BY <2>1 DEF GrantsApart
  <2>5. CASE j = c
    <3>1. r \in DOMAIN S /\ S[r] = Edits(seen)
      BY <1>1, <1>7, <2>2, <2>5
    <3>2. ~overlap => DOMAIN S2 = {}
      <4>1. ~overlap => \A x \in Requests \ {r} : req[x].op = "idle"
        BY <1>7 DEF InFlightOK, OneAtATime
      <4> QED BY <1>7, <2>2, <4>1
    <3>3. \A g \in grants[c] \ seen : g.edit \notin Edits(seen)
      BY <1>1, <1>7 DEF GrantsApart
    <3>4. C2 \in SUBSET ((C \ S[r]) \cup {n})
      BY <1>4, <1>5, <1>6, <2>1, <2>5, <3>1, <3>3 DEF Edits
    <3>5. Apart(C2, S2, ~overlap)
      BY <2>3, <2>4, <3>1, <3>2, <3>4, ApartCommit
    <3> QED BY <2>1, <3>5
  <2>6. CASE j # c
    <3>1. C2 \in SUBSET C
      BY <1>5, <2>1, <2>6
    <3>2. Apart(C2, S2, ~overlap)
      BY <2>3, <2>4, <3>1, ApartKeep
    <3> QED BY <2>1, <3>2
  <2> QED BY <2>5, <2>6
<1>9. ASSUME NEW x \in Requests, req'[x].op = "UpdatePermissions"
      PROVE  /\ \A g \in grants'[req'[x].role] : g.edit \in Edits(req'[x].seen) => g \in req'[x].seen
             /\ \A g \in req'[x].seen : g.edit \in Nat /\ g.edit <= changes'
  <2>1. req'[x] = req[x] /\ req[x].op = "UpdatePermissions"
    BY <1>7, <1>9
  <2>2. req[x].role \in RoleKeys
    <3>1. req[x] \in PlatformReq
      BY <2>1, PlatformAt DEF PlatformOps
    <3> QED BY <2>1, <3>1, PlatformReqOp
  <2>3. /\ \A g \in grants[req[x].role] : g.edit \in Edits(req[x].seen) => g \in req[x].seen
        /\ \A g \in req[x].seen : g.edit \in Nat /\ g.edit <= changes
    BY <2>1 DEF GrantsApart
  <2>4. \A g \in req[x].seen : g.edit \in Nat /\ g.edit <= n /\ g.edit # n
    BY <1>6, <2>3
  <2>5. \A g \in grants'[req[x].role] : g \in grants[req[x].role] \/ g.edit = n
    BY <1>4, <1>5, <1>6, <2>2
  <2>6. n \notin Edits(req[x].seen)
    BY <2>4 DEF Edits
  <2> QED BY <1>2, <2>1, <2>3, <2>4, <2>5, <2>6
<1> QED BY <1>7, <1>8, <1>9 DEF GrantsApart

\* The edits of a role, one for each request that overlaps.
LEMMA GrantsApartCard ==
  ASSUME GrantsApart, NEW k \in RoleKeys
  PROVE  Cardinality({g.edit : g \in grants[k]} \ {0}) <= AtOnceAtMost
<1>1. PICK C, S : C = Edits(grants[k]) /\ S = Editing(k)
  OBVIOUS
<1>2. Apart(C, S, ~overlap)
  BY <1>1 DEF GrantsApart
<1>3. Cardinality(C) <= AtOnceAtMost
  BY <1>2, ApartCard
<1> QED BY <1>1, <1>3 DEF Edits

-----------------------------------------------------------------------------
(* Console: what it keeps                                                   *)

ConsoleInv ==
  /\ LogInv /\ FlagsInv /\ GrantsInv /\ GrantsApart
  /\ account \in 0..3 /\ revokedAt \in [RoleKeys -> [Permissions -> 0..MaxTime]]

LEMMA ConsoleTypes == ConsoleInv => ConsoleTypeOK /\ ConsoleLogged
<1> SUFFICES ASSUME ConsoleInv PROVE ConsoleTypeOK /\ ConsoleLogged
  OBVIOUS
<1>1. LogInv /\ FlagsInv /\ GrantsInv
  BY DEF ConsoleInv
<1>2. ConsoleLogged /\ logged \in 0..MaxEdits
  BY <1>1, LogTells
<1>3. flag \in [Flags -> 0..AtOnceAtMost]
  BY <1>1, FlagsTyped
<1>4. \A k \in RoleKeys : MayHold(k)
  BY <1>1, GrantsHold
<1>5. account \in 0..Len(AccountRows)
  BY AccountRowsAre DEF ConsoleInv
<1> QED BY <1>1, <1>2, <1>3, <1>4, <1>5 DEF ConsoleTypeOK, GrantsInv, ConsoleInv

\* The statements whose requests the invariant speaks of.
Marked == {"Record", "UpdatePermissions", "SeedGrants", "SeedFlagWrite"}

\* Requests that it does not speak of come, and others go.
LEMMA ConsoleElse ==
  ASSUME ConsoleInv, PlatformRequests, UNCHANGED <<consoleTables, overlap>>, cut' = cut \/ cut',
         \A x \in Requests :
           req'[x] = req[x] \/ (req'[x].op \notin Marked /\ (req[x].op # "Record" \/ cut'))
  PROVE  ConsoleInv'
<1>1. UNCHANGED <<catalog, grants, flag, account, changes, logged, seeded, revokedAt>>
  BY DEF consoleTables
<1>2. LogInv /\ FlagsInv /\ GrantsInv /\ GrantsApart
  BY DEF ConsoleInv
<1>3. LogInv'
  BY <1>1, <1>2, LogElse DEF Marked
<1>4. FlagsInv'
  BY <1>1, <1>2, FlagsElse DEF Marked
<1>5. changes \in 0..MaxEdits /\ changes \in Nat /\ changes >= changes
  BY <1>2, CatalogAssumption DEF LogInv
<1>6. GrantsInv'
  BY <1>1, <1>2, <1>5, GrantsElse DEF Marked
<1>7. GrantsApart'
  BY <1>1, <1>2, <1>5, GrantsApartKeep DEF Marked
<1> QED BY <1>1, <1>3, <1>4, <1>6, <1>7 DEF ConsoleInv

LEMMA ConsoleBegins == ConsoleInit /\ HandlersInit => ConsoleInv
<1> SUFFICES ASSUME ConsoleInit, HandlersInit PROVE ConsoleInv
  OBVIOUS
<1>1. \A r \in Requests : req[r].op = "idle"
  BY DEF HandlersInit, Idle
<1>2. LogInv
  <2>1. Recording = {}
    BY <1>1 DEF Recording
  <2>2. Cardinality(Recording) = 0
    BY <2>1, FS_EmptySet
  <2> QED BY <2>2, CatalogAssumption DEF LogInv, ConsoleInit
<1>3. FlagsInv
  <2>1. flag \in [Flags -> {0, 1}]
    BY DEF ConsoleInit
  <2>2. ASSUME NEW f \in Flags PROVE flag[f] + Cardinality(Inserting(f)) <= AtOnceAtMost
    <3>1. Inserting(f) = {}
      BY <1>1 DEF Inserting
    <3>2. Cardinality(Inserting(f)) = 0
      BY <3>1, FS_EmptySet
    <3> QED BY <2>1, <3>2, AtOnceNat
  <2> QED BY <2>1, <2>2 DEF FlagsInv
<1>4. GrantsInv /\ GrantsApart
  BY GrantsBegin, GrantsApartBegin
<1>5. account \in 0..3
  <2>1. account = 0 \/ account = 3
    BY AccountRowsAre DEF ConsoleInit
  <2> QED BY <2>1
<1>6. revokedAt \in [RoleKeys -> [Permissions -> 0..MaxTime]]
  <2>1. 0 \in 0..MaxTime
    BY AccountsAssumption
  <2> QED BY <2>1 DEF ConsoleInit
<1> QED BY <1>2, <1>3, <1>4, <1>5, <1>6 DEF ConsoleInv

LEMMA RecordKeeps ==
  ASSUME ConsoleInv, InFlightOK, PlatformRequests, NEW r \in Requests, Record(r), UNCHANGED cut
  PROVE  ConsoleInv'
<1>1. UNCHANGED <<catalog, grants, flag, account, changes, seeded, revokedAt>>
  BY DEF Record
<1>2. LogInv /\ FlagsInv /\ GrantsInv /\ GrantsApart
  BY DEF ConsoleInv
<1>3. UNCHANGED overlap /\ \A x \in Requests : req'[x] = req[x] \/ req'[x].op \notin Marked
  BY DEF Record, Ends, Idle, InFlightOK, Marked
<1>4. LogInv'
  BY <1>2, LogRecord
<1>5. FlagsInv'
  BY <1>1, <1>2, <1>3, FlagsElse DEF Marked
<1>6. changes \in 0..MaxEdits /\ changes \in Nat /\ changes >= changes
  BY <1>2, CatalogAssumption DEF LogInv
<1>7. GrantsInv'
  BY <1>1, <1>2, <1>3, <1>6, GrantsElse DEF Marked
<1>8. GrantsApart'
  BY <1>1, <1>2, <1>3, <1>6, GrantsApartKeep DEF Marked
<1> QED BY <1>1, <1>4, <1>5, <1>7, <1>8 DEF ConsoleInv

LEMMA DeleteKeeps ==
  ASSUME ConsoleInv, InFlightOK, PlatformRequests, NEW r \in Requests, NEW k \in RoleKeys,
         UpdatePermissionsDelete(r, k), UNCHANGED cut
  PROVE  ConsoleInv'
<1>1. UNCHANGED <<catalog, grants, flag, account, changes, logged, seeded, revokedAt>>
  BY DEF UpdatePermissionsDelete, consoleTables
<1>2. LogInv /\ FlagsInv /\ GrantsInv /\ GrantsApart
  BY DEF ConsoleInv
<1>3. /\ UNCHANGED overlap /\ \A x \in Requests \ {r} : req'[x] = req[x]
      /\ req[r].op = "idle" /\ req'[r].op = "UpdatePermissions"
      /\ req'[r].role = k /\ req'[r].seen = grants[k]
  BY DeleteMoves
<1>4. LogInv'
  BY <1>1, <1>2, <1>3, LogElse
<1>5. FlagsInv'
  BY <1>1, <1>2, <1>3, FlagsElse
<1>6. changes \in 0..MaxEdits /\ changes \in Nat /\ changes >= changes
  BY <1>2, CatalogAssumption DEF LogInv
<1>7. GrantsInv'
  BY <1>1, <1>2, <1>3, <1>6, GrantsElse
<1>8. GrantsApart'
  BY <1>1, <1>2, <1>3, <1>6, GrantsApartKeep
<1> QED BY <1>1, <1>4, <1>5, <1>7, <1>8 DEF ConsoleInv

LEMMA ChangeKeeps ==
  ASSUME ConsoleInv, InFlightOK, PlatformRequests, now \in 0..MaxTime, NEW r \in Requests,
         UpdatePermissionsCommit(r) \/ (\E f \in Flags : UpdateFlag(r, f)), UNCHANGED cut
  PROVE  ConsoleInv'
<1>1. UNCHANGED <<flag, account, logged>> /\ changes < MaxEdits /\ changes' = changes + 1
  BY DEF UpdatePermissionsCommit, UpdateFlag
<1>2. LogInv /\ FlagsInv /\ GrantsInv /\ GrantsApart
  BY DEF ConsoleInv
<1>3. /\ UNCHANGED overlap /\ \A x \in Requests \ {r} : req'[x] = req[x]
      /\ req[r].op \in {"idle", "UpdatePermissions"} /\ req'[r].op = "Record"
  BY ChangeMoves
<1>4. LogInv'
  BY <1>1, <1>2, <1>3, LogChange
<1>5. FlagsInv'
  BY <1>1, <1>2, <1>3, FlagsElse
<1>6. changes \in 0..MaxEdits /\ changes' \in 0..MaxEdits /\ changes' \in Nat /\ changes' >= changes
  BY <1>1, <1>2, CatalogAssumption DEF LogInv
<1>7. CASE UpdatePermissionsCommit(r)
  <2>1. GrantsInv' /\ GrantsApart'
    BY <1>2, <1>7, CommitGrantsOK, GrantsApartCommit
  <2>2. revokedAt' \in [RoleKeys -> [Permissions -> 0..MaxTime]]
    <3>1. PICK k : k = req[r].role
      OBVIOUS
    <3>2. revokedAt' = [revokedAt EXCEPT ![k] = [p \in Permissions |->
             IF p \in Granted(k) /\ \A g \in grants'[k] : g.permission # p THEN now ELSE @[p]]]
      BY <1>7, <3>1 DEF UpdatePermissionsCommit
    <3>3. PICK v : v = [p \in Permissions |->
             IF p \in Granted(k) /\ \A g \in grants'[k] : g.permission # p THEN now ELSE revokedAt[k][p]]
      OBVIOUS
    <3>4. revokedAt' = [revokedAt EXCEPT ![k] = v]
      BY <3>2, <3>3
    <3>5. k \in RoleKeys => v \in [Permissions -> 0..MaxTime]
      BY <3>3 DEF ConsoleInv
    <3> QED BY <3>4, <3>5 DEF ConsoleInv
  <2> QED BY <1>1, <1>4, <1>5, <2>1, <2>2 DEF ConsoleInv
<1>8. CASE \E f \in Flags : UpdateFlag(r, f)
  <2>1. UNCHANGED <<catalog, grants, seeded, revokedAt>>
    BY <1>8 DEF UpdateFlag
  <2>2. GrantsInv'
    BY <1>1, <1>2, <1>3, <1>6, <2>1, GrantsElse
  <2>3. GrantsApart'
    BY <1>1, <1>2, <1>3, <1>6, <2>1, GrantsApartKeep
  <2> QED BY <1>1, <1>4, <1>5, <2>1, <2>2, <2>3 DEF ConsoleInv
<1> QED BY <1>7, <1>8

LEMMA SeedKeeps ==
  ASSUME ConsoleInv, InFlightOK, InFlightOK', PlatformRequests, NEW r \in Requests,
         SeedStarts(r) \/ Seed(r), UNCHANGED cut
  PROVE  ConsoleInv'
<1>1. UNCHANGED <<changes, logged, revokedAt>>
  BY DEF SeedStarts, Seed, SeedPermission, SeedGrants, SeedFlagFind, SeedFlagWrite, SeedAccount, consoleTables
<1>2. LogInv /\ FlagsInv /\ GrantsInv /\ GrantsApart
  BY DEF ConsoleInv
<1>3. /\ UNCHANGED overlap /\ \A x \in Requests \ {r} : req'[x] = req[x]
      /\ \/ req'[r] = req[r]
         \/ req[r].op \in SeedPlain /\ req'[r].op \in SeedPlain
         \/ req[r].op = "SeedFlag" /\ SeedFlagFind(r)
         \/ req'[r].op \in SeedPlain /\ SeedFlagWrite(r)
  BY SeedMoves
<1>4. req[r].op \notin {"Record", "UpdatePermissions"} \/ req'[r] = req[r]
  <2>1. SeedFlagWrite(r) => req[r].op = "SeedFlagWrite"
    BY DEF SeedFlagWrite, At
  <2> QED BY <1>3, <2>1 DEF SeedPlain
<1>5. req'[r].op \notin {"Record", "UpdatePermissions"} \/ req'[r] = req[r]
  <2>1. SeedFlagFind(r) => req'[r].op = "SeedFlagWrite"
    <3> SUFFICES ASSUME SeedFlagFind(r) PROVE req'[r].op = "SeedFlagWrite"
      OBVIOUS
    <3>1. PICK f : Goes(r, [op |-> "SeedFlagWrite", left |-> req[r].left \ {f}, key |-> f, found |-> flag[f] > 0])
      BY DEF SeedFlagFind
    <3> QED BY <3>1 DEF Goes, InFlightOK
  <2> QED BY <1>3, <2>1 DEF SeedPlain
<1>6. LogInv'
  BY <1>1, <1>2, <1>3, <1>4, <1>5, LogElse
<1>7. changes \in 0..MaxEdits /\ changes \in Nat /\ changes >= changes
  BY <1>2, CatalogAssumption DEF LogInv
<1>8. ASSUME SeedStarts(r) \/ SeedAccount(r) \/ SeedFlagFind(r) \/ SeedFlagWrite(r)
      PROVE  GrantsInv' /\ GrantsApart'
  <2>1. UNCHANGED <<catalog, grants, seeded>>
    BY <1>8 DEF SeedStarts, SeedFlagFind, SeedFlagWrite, SeedAccount, consoleTables
  <2>2. req'[r].op # "SeedGrants"
    <3>1. CASE SeedStarts(r)
      BY <3>1 DEF SeedStarts, Starts, InFlightOK
    <3>2. CASE SeedAccount(r)
      <4>1. CASE Ends(r)
        BY <4>1 DEF Ends, Idle, InFlightOK
      <4>2. CASE Goes(r, [req[r] EXCEPT !.row = @ + 1])
        <5>1. req[r].op = "SeedAccount"
          BY <3>2 DEF SeedAccount, At
        <5>2. PICK q : q = [req[r] EXCEPT !.row = @ + 1]
          OBVIOUS
        <5>3. q.op = "SeedAccount"
          BY <5>1, <5>2
        <5>4. req' = [req EXCEPT ![r] = q]
          BY <4>2, <5>2 DEF Goes
        <5> QED BY <5>3, <5>4 DEF InFlightOK
      <4> QED BY <3>2, <4>1, <4>2 DEF SeedAccount
    <3>3. CASE SeedFlagFind(r)
      <4>1. PICK f : Goes(r, [op |-> "SeedFlagWrite", left |-> req[r].left \ {f}, key |-> f, found |-> flag[f] > 0])
        BY <3>3 DEF SeedFlagFind
      <4> QED BY <4>1 DEF Goes, InFlightOK
    <3>4. CASE SeedFlagWrite(r)
      BY <3>4 DEF SeedFlagWrite, Goes, InFlightOK
    <3> QED BY <1>8, <3>1, <3>2, <3>3, <3>4
  <2>3. GrantsInv'
    BY <1>1, <1>2, <1>3, <1>7, <2>1, <2>2, GrantsElse
  <2>4. GrantsApart'
    BY <1>1, <1>2, <1>3, <1>5, <1>7, <2>1, GrantsApartKeep
  <2> QED BY <2>3, <2>4
<1>9. ASSUME SeedPermission(r) PROVE GrantsInv' /\ GrantsApart'
  <2>1. GrantsInv' /\ UNCHANGED grants
    BY <1>2, <1>9, SeedPermissionOK
  <2>2. GrantsApart'
    BY <1>1, <1>2, <1>3, <1>5, <1>7, <2>1, GrantsApartKeep
  <2> QED BY <2>1, <2>2
<1>10. ASSUME SeedGrants(r) PROVE GrantsInv' /\ GrantsApart'
  <2>1. GrantsInv' /\ \E k \in RoleKeys, D \in SUBSET Permissions :
          grants' = [grants EXCEPT ![k] = grants[k] \cup [permission : D, edit : {0}]]
    BY <1>2, <1>10, SeedGrantsKeeps
  <2>2. PICK k \in RoleKeys : \E D \in SUBSET Permissions :
          grants' = [grants EXCEPT ![k] = grants[k] \cup [permission : D, edit : {0}]]
    BY <2>1
  <2>3. PICK D \in SUBSET Permissions :
          grants' = [grants EXCEPT ![k] = grants[k] \cup [permission : D, edit : {0}]]
    BY <2>2
  <2>4. PICK H, G : H = [permission : D, edit : {0}] /\ G = grants[k] \cup H
    OBVIOUS
  <2>5. grants' = [grants EXCEPT ![k] = G] /\ \A g \in H : g.edit = 0
    BY <2>3, <2>4
  <2>6. \A j \in RoleKeys : \A g \in grants'[j] : g.edit = 0 \/ g \in grants[j]
    BY <1>2, <2>4, <2>5 DEF GrantsInv
  <2>7. GrantsApart'
    BY <1>1, <1>2, <1>3, <1>5, <1>7, <2>6, GrantsApartKeep
  <2> QED BY <2>1, <2>7
<1>11. FlagsInv'
  <2>1. CASE SeedFlagFind(r)
    BY <1>2, <2>1, FlagFindOK
  <2>2. CASE SeedFlagWrite(r)
    BY <1>2, <2>2, FlagWriteOK
  <2>3. CASE SeedStarts(r) \/ SeedPermission(r) \/ SeedGrants(r) \/ SeedAccount(r)
    <3>1. UNCHANGED flag
      BY <2>3 DEF SeedStarts, SeedPermission, SeedGrants, SeedAccount, consoleTables
    <3>2. CASE req'[r] = req[r] \/ req'[r].op \in SeedPlain
      BY <1>2, <1>3, <3>1, <3>2, FlagsElse DEF SeedPlain
    <3>3. CASE SeedFlagFind(r)
      BY <1>2, <3>3, FlagFindOK
    <3> QED BY <1>3, <3>2, <3>3
  <2> QED BY <2>1, <2>2, <2>3 DEF Seed
<1>12. account' \in 0..3
  <2>1. CASE SeedAccount(r)
    <3>1. req[r].row \in 1..3
      <4>1. req[r].op = "SeedAccount"
        BY <2>1 DEF SeedAccount, At
      <4>2. req[r] \in PlatformReq
        BY <4>1, PlatformAt DEF PlatformOps
      <4> QED BY <4>1, <4>2, PlatformReqOp
    <3> QED BY <2>1, <3>1 DEF SeedAccount, ConsoleInv
  <2>2. CASE ~SeedAccount(r)
    <3>1. UNCHANGED account
      BY <2>2 DEF SeedStarts, Seed, SeedPermission, SeedGrants, SeedFlagFind, SeedFlagWrite, consoleTables
    <3> QED BY <3>1 DEF ConsoleInv
  <2> QED BY <2>1, <2>2
<1>13. GrantsInv' /\ GrantsApart'
  BY <1>8, <1>9, <1>10 DEF Seed
<1> QED BY <1>1, <1>6, <1>11, <1>12, <1>13 DEF ConsoleInv

LEMMA DiesKeeps ==
  ASSUME ConsoleInv, InFlightOK, PlatformRequests, NEW r \in Requests, ConsoleDies(r)
  PROVE  ConsoleInv'
<1>1. UNCHANGED <<consoleTables, overlap>> /\ cut' = TRUE /\ req' = [req EXCEPT ![r] = Idle]
  BY DEF ConsoleDies, AccountsDies, Dies, Ends
<1>2. \A x \in Requests : req'[x] = req[x] \/ req'[x].op \notin Marked
  BY <1>1 DEF InFlightOK, Idle, Marked
<1> QED BY <1>1, <1>2, ConsoleElse

LEMMA ConsoleKeeps ==
  ASSUME ConsoleInv, InFlightOK, InFlightOK', PlatformRequests, now \in 0..MaxTime,
         \/ (RolesController \/ FlagsController \/ SeedNext) /\ UNCHANGED cut
         \/ \E r \in Requests : ConsoleDies(r)
  PROVE  ConsoleInv'
<1>1. CASE RolesController /\ UNCHANGED cut
  BY <1>1, RecordKeeps, DeleteKeeps, ChangeKeeps DEF RolesController
<1>2. CASE FlagsController /\ UNCHANGED cut
  BY <1>2, ChangeKeeps DEF FlagsController
<1>3. CASE SeedNext /\ UNCHANGED cut
  BY <1>3, SeedKeeps DEF SeedNext
<1>4. CASE \E r \in Requests : ConsoleDies(r)
  BY <1>4, DiesKeeps
<1> QED BY <1>1, <1>2, <1>3, <1>4

\* The requests of the schools, which the console knows nothing of.
LEMMA RoutedMoves ==
  ASSUME InFlightOK,
         LetIn(Members) \/ \E r \in Requests :
           Public(r) \/ Query(r) \/ Answers(r) \/ AnswersMutation(r) \/ WriteAuditRow(r)
  PROVE  /\ UNCHANGED overlap
         /\ \A x \in Requests : req'[x] = req[x] \/ (req'[x].op \notin Marked /\ req[x].op # "Record")
<1>1. UNCHANGED overlap
  BY DEF LetIn, SignAccessToken, Arrives, Authenticated, ReadProfile, Public, Query, Answers, AnswersMutation,
         WriteAuditRow, FindRows, CreateRow, UpdateRows, UpsertRow, DeleteRows, Starts, Goes, Ends
<1>2. ASSUME NEW r \in Requests, SignAccessToken(r) \/ Answers(r) \/ WriteAuditRow(r)
      PROVE  \A x \in Requests : req'[x] = req[x] \/ (req'[x].op \notin Marked /\ req[x].op # "Record")
  <2>1. PICK q : q = Idle
    OBVIOUS
  <2>2. q.op = "idle" /\ req' = [req EXCEPT ![r] = q] /\ req[r].op \in {"Sign", "Handle", "Audit"}
    BY <1>2, <2>1 DEF SignAccessToken, Answers, WriteAuditRow, Ends, At, Idle
  <2> QED BY <2>2 DEF InFlightOK, Marked
<1>3. ASSUME NEW r \in Requests, Arrives(r)
      PROVE  \A x \in Requests : req'[x] = req[x] \/ (req'[x].op \notin Marked /\ req[x].op # "Record")
  <2>1. PICK q : q = [op |-> "Guard", member |-> None, tenant |-> None, permissions |-> {},
                      at |-> 0, read |-> {}]
    OBVIOUS
  <2>2. q.op = "Guard" /\ req' = [req EXCEPT ![r] = q] /\ req[r].op = "idle"
    BY <1>3, <2>1 DEF Arrives, Starts
  <2> QED BY <2>2 DEF InFlightOK, Marked
<1>4. ASSUME NEW r \in Requests, NEW m, ReadProfile(r, m)
      PROVE  \A x \in Requests : req'[x] = req[x] \/ (req'[x].op \notin Marked /\ req[x].op # "Record")
  <2>1. PICK q : q = [op |-> "Sign", member |-> m, permissions |-> Granted(MemberRole)]
    OBVIOUS
  <2>2. q.op = "Sign" /\ req' = [req EXCEPT ![r] = q] /\ req[r].op = "idle"
    BY <1>4, <2>1 DEF ReadProfile, Starts
  <2> QED BY <2>2 DEF InFlightOK, Marked
<1>5. ASSUME NEW r \in Requests, Authenticated(r)
      PROVE  \A x \in Requests : req'[x] = req[x] \/ (req'[x].op \notin Marked /\ req[x].op # "Record")
  <2>1. PICK t : Goes(r, [op |-> "Handle", member |-> t.member, tenant |-> t.tenant,
                          permissions |-> t.permissions, at |-> now, read |-> {}])
    BY <1>5 DEF Authenticated
  <2>2. PICK q : q = [op |-> "Handle", member |-> t.member, tenant |-> t.tenant,
                      permissions |-> t.permissions, at |-> now, read |-> {}]
    OBVIOUS
  <2>3. q.op = "Handle" /\ req' = [req EXCEPT ![r] = q] /\ req[r].op = "Guard"
    BY <1>5, <2>1, <2>2 DEF Authenticated, Goes, At
  <2> QED BY <2>3 DEF InFlightOK, Marked
<1>6. ASSUME NEW r \in Requests, Public(r) \/ AnswersMutation(r)
      PROVE  \A x \in Requests : req'[x] = req[x] \/ (req'[x].op \notin Marked /\ req[x].op # "Record")
  <2>1. PICK op \in {"Handle", "Audit"} : Goes(r, [req[r] EXCEPT !.op = op])
    BY <1>6 DEF Public, AnswersMutation
  <2>2. req[r].op \in {"Guard", "Handle"}
    BY <1>6 DEF Public, AnswersMutation, At
  <2>3. PICK q : q = [req[r] EXCEPT !.op = op]
    OBVIOUS
  <2>4. q.op = op \/ q.op = req[r].op
    BY <2>3
  <2>5. req' = [req EXCEPT ![r] = q] /\ q.op \in {"Guard", "Handle", "Audit"}
    BY <2>1, <2>2, <2>3, <2>4 DEF Goes
  <2> QED BY <2>2, <2>5 DEF InFlightOK, Marked
<1>7. ASSUME NEW r \in Requests, FindRows(r)
      PROVE  \A x \in Requests : req'[x] = req[x] \/ (req'[x].op \notin Marked /\ req[x].op # "Record")
  <2>1. PICK found : Goes(r, [req[r] EXCEPT !.read = @ \cup found])
    BY <1>7 DEF FindRows
  <2>2. req[r].op = "Handle"
    BY <1>7 DEF FindRows, Queries, At
  <2>3. PICK q : q = [req[r] EXCEPT !.read = @ \cup found]
    OBVIOUS
  <2>4. q.op = "Handle" /\ req' = [req EXCEPT ![r] = q]
    BY <2>1, <2>2, <2>3 DEF Goes
  <2> QED BY <2>2, <2>4 DEF InFlightOK, Marked
<1>8. ASSUME NEW r \in Requests, CreateRow(r) \/ UpdateRows(r) \/ UpsertRow(r) \/ DeleteRows(r)
      PROVE  \A x \in Requests : req'[x] = req[x]
  BY <1>8 DEF CreateRow, UpdateRows, UpsertRow, DeleteRows
<1> QED BY <1>1, <1>2, <1>3, <1>4, <1>5, <1>6, <1>7, <1>8 DEF LetIn, Query

-----------------------------------------------------------------------------
(* The requests of the schools: their tables                                *)

\* A query writes rows of the tenant and the member of its context.
LEMMA QueriesAs ==
  ASSUME PlatformRequests, NEW r \in Requests, Queries(r), NEW data
  PROVE  req[r].member \in Members /\ Stamped(r, data) \in Row
<1>1. req[r].op = "Handle" /\ req[r].tenant # None
  BY DEF Queries, At
<1>2. req[r].tenant \in Tenants /\ req[r].member \in Members
  BY <1>1, ContextAt
<1> QED BY <1>2 DEF Stamped, Row

LEMMA RowsTyped ==
  ASSUME TenancyTypeOK, PlatformRequests, NEW r \in Requests,
         CreateRow(r) \/ UpdateRows(r) \/ UpsertRow(r) \/ DeleteRows(r)
  PROVE  row' \in [Rows -> Row \cup {None}]
<1>1. row \in [Rows -> Row \cup {None}] /\ Queries(r)
  BY DEF TenancyTypeOK, CreateRow, UpdateRows, UpsertRow, DeleteRows
<1>2. CASE CreateRow(r)
  <2>1. PICK w \in Rows : \E data \in Data : row' = [row EXCEPT ![w] = Stamped(r, data)]
    BY <1>2 DEF CreateRow
  <2>2. PICK data : row' = [row EXCEPT ![w] = Stamped(r, data)]
    BY <2>1
  <2>3. PICK x \in Row : x = Stamped(r, data)
    BY <1>1, QueriesAs
  <2> QED BY <1>1, <2>2, <2>3
<1>3. CASE UpdateRows(r)
  <2>1. PICK op : \E where \in Where(op), data \in Data :
          LET matching == Matching(ScopedWhere(op, where, req[r].tenant)) IN
          row' = [w \in Rows |-> IF w \notin matching THEN row[w]
                                 ELSE IF op = "update" THEN Stamped(r, data)
                                 ELSE [row[w] EXCEPT !.by = req[r].member]]
    BY <1>3 DEF UpdateRows
  <2>2. PICK where, data :
          row' = [w \in Rows |-> IF w \notin Matching(ScopedWhere(op, where, req[r].tenant)) THEN row[w]
                                 ELSE IF op = "update" THEN Stamped(r, data)
                                 ELSE [row[w] EXCEPT !.by = req[r].member]]
    BY <2>1
  <2>3. PICK M : M = Matching(ScopedWhere(op, where, req[r].tenant))
    OBVIOUS
  <2>4. PICK x \in Row : x = Stamped(r, data)
    BY <1>1, QueriesAs
  <2>5. PICK m \in Members : m = req[r].member
    BY <1>1, QueriesAs
  <2>6. row' = [w \in Rows |-> IF w \notin M THEN row[w] ELSE IF op = "update" THEN x
                               ELSE [row[w] EXCEPT !.by = m]]
    BY <2>2, <2>3, <2>4, <2>5
  <2>7. \A w \in M : row[w] # None
    BY <2>3 DEF Matching
  <2>8. ASSUME NEW w \in Rows
        PROVE  (IF w \notin M THEN row[w] ELSE IF op = "update" THEN x
                ELSE [row[w] EXCEPT !.by = m]) \in Row \cup {None}
    <3>1. row[w] \in Row \cup {None}
      BY <1>1
    <3>2. ASSUME w \in M PROVE [row[w] EXCEPT !.by = m] \in Row
      BY <2>7, <3>1, <3>2 DEF Row
    <3> QED BY <3>1, <3>2
  <2> QED BY <2>6, <2>8
<1>4. CASE UpsertRow(r)
  <2>1. PICK where, data : row' = [w \in Rows |-> IF w \in where.ids THEN Stamped(r, data) ELSE row[w]]
    BY <1>4 DEF UpsertRow
  <2>2. PICK x \in Row : x = Stamped(r, data)
    BY <1>1, QueriesAs
  <2> QED BY <1>1, <2>1, <2>2
<1>5. CASE DeleteRows(r)
  <2>1. PICK op : \E where \in Where(op) :
          LET matching == Matching(ScopedWhere(op, where, req[r].tenant)) IN
          row' = [w \in Rows |-> IF w \in matching THEN None ELSE row[w]]
    BY <1>5 DEF DeleteRows
  <2>2. PICK M : row' = [w \in Rows |-> IF w \in M THEN None ELSE row[w]]
    BY <2>1
  <2> QED BY <1>1, <2>2
<1> QED BY <1>2, <1>3, <1>4, <1>5

LEMMA RoutedTyped ==
  ASSUME TenancyTypeOK, now \in 0..MaxTime, PlatformRequests,
         LetIn(Members) \/ \E r \in Requests :
           Public(r) \/ Query(r) \/ Answers(r) \/ AnswersMutation(r) \/ WriteAuditRow(r)
  PROVE  TenancyTypeOK'
<1>1. CASE UNCHANGED tenancyTables
  BY <1>1 DEF tenancyTables, TenancyTypeOK
<1>2. ASSUME NEW r \in Requests, SignAccessToken(r) PROVE TenancyTypeOK'
  <2>1. req[r].member \in Members /\ req[r].permissions \in SUBSET Permissions
    <3>1. req[r].op = "Sign"
      BY <1>2 DEF SignAccessToken, At
    <3>2. req[r] \in PlatformReq
      BY <3>1, PlatformAt DEF PlatformOps
    <3> QED BY <3>1, <3>2, PlatformReqOp
  <2>2. now + AccessTtl \in 0..(MaxTime + AccessTtl)
    BY AccountsAssumption, TenancyAssumption
  <2>3. PICK t : t = [member |-> req[r].member, tenant |-> TenantOf[req[r].member],
                      permissions |-> req[r].permissions, until |-> now + AccessTtl]
    OBVIOUS
  <2>4. t \in AccessToken
    BY <2>1, <2>2, <2>3, TenancyAssumption DEF AccessToken
  <2>5. accessTokens' = accessTokens \cup {t} /\ UNCHANGED <<row, audit>>
    BY <1>2, <2>3 DEF SignAccessToken
  <2> QED BY <2>4, <2>5 DEF TenancyTypeOK
<1>3. ASSUME NEW r \in Requests, CreateRow(r) \/ UpdateRows(r) \/ UpsertRow(r) \/ DeleteRows(r)
      PROVE  TenancyTypeOK'
  <2>1. row' \in [Rows -> Row \cup {None}]
    BY <1>3, RowsTyped
  <2>2. UNCHANGED <<accessTokens, audit>>
    BY <1>3 DEF CreateRow, UpdateRows, UpsertRow, DeleteRows
  <2> QED BY <2>1, <2>2 DEF TenancyTypeOK
<1>4. ASSUME NEW r \in Requests, WriteAuditRow(r) PROVE TenancyTypeOK'
  <2>1. UNCHANGED <<accessTokens, row>>
    BY <1>4 DEF WriteAuditRow
  <2>2. CASE req[r].tenant = None
    BY <1>4, <2>1, <2>2 DEF WriteAuditRow, TenancyTypeOK
  <2>3. CASE req[r].tenant # None
    <3>1. req[r].tenant \in Tenants /\ req[r].member \in Members
      BY <1>4, <2>3, ContextAt DEF WriteAuditRow, At
    <3>2. PICK a \in AuditRow : a = [tenant |-> req[r].tenant, by |-> req[r].member]
      BY <3>1 DEF AuditRow
    <3>3. audit' = audit \cup {a}
      BY <1>4, <2>3, <3>2 DEF WriteAuditRow
    <3> QED BY <2>1, <3>3 DEF TenancyTypeOK
  <2> QED BY <2>2, <2>3
<1>5. ASSUME NEW r \in Requests,
             \/ Arrives(r) \/ Authenticated(r) \/ Public(r) \/ FindRows(r) \/ Answers(r) \/ AnswersMutation(r)
             \/ \E m \in Members : ReadProfile(r, m)
      PROVE  UNCHANGED tenancyTables
  BY <1>5 DEF Arrives, Authenticated, Public, FindRows, Answers, AnswersMutation, ReadProfile
<1> QED BY <1>1, <1>2, <1>3, <1>4, <1>5 DEF LetIn, Query

LEMMA TokensAgeTyped ==
  ASSUME TenancyTypeOK, TokensAge
  PROVE  TenancyTypeOK'
BY DEF TokensAge, TenancyTypeOK

LEMMA TenancyBegins == TenancyInit => TenancyTypeOK
BY DEF TenancyInit, TenancyTypeOK

-----------------------------------------------------------------------------
(* The platform                                                             *)

PlatformInv == ConsoleInv /\ TenancyTypeOK

LEMMA PlatformKeeps ==
  ASSUME PlatformInv, InFlightOK, InFlightOK', PlatformRequests, now \in 0..MaxTime,
         NEW d, PlatformDesk(d)
  PROVE  PlatformInv'
<1>1. ASSUME \/ (RolesController \/ FlagsController \/ SeedNext) /\ UNCHANGED cut
             \/ \E r \in Requests : ConsoleDies(r),
             UNCHANGED tenancyTables
      PROVE  PlatformInv'
  <2>1. ConsoleInv'
    BY <1>1, ConsoleKeeps DEF PlatformInv
  <2> QED BY <1>1, <2>1 DEF PlatformInv, TenancyTypeOK, tenancyTables
<1>2. ASSUME LetIn(Members) \/ \E r \in Requests :
               Public(r) \/ Query(r) \/ Answers(r) \/ AnswersMutation(r) \/ WriteAuditRow(r),
             UNCHANGED <<accountTables, consoleTables>>
      PROVE  PlatformInv'
  <2>1. /\ UNCHANGED overlap
        /\ \A x \in Requests : req'[x] = req[x] \/ (req'[x].op \notin Marked /\ req[x].op # "Record")
    BY <1>2, RoutedMoves
  <2>2. cut' = cut
    BY <1>2 DEF accountTables
  <2>3. ConsoleInv'
    BY <1>2, <2>1, <2>2, ConsoleElse DEF PlatformInv
  <2>4. TenancyTypeOK'
    BY <1>2, RoutedTyped DEF PlatformInv
  <2> QED BY <2>3, <2>4 DEF PlatformInv
<1>3. CASE d = "console" /\ ConsoleNext /\ UNCHANGED tenancyTables
  <2>1. UNCHANGED accountTables => UNCHANGED cut
    BY DEF accountTables
  <2> QED BY <1>1, <1>3, <2>1 DEF ConsoleNext
<1>4. CASE Routed
  BY <1>2, <1>4 DEF Routed
<1>5. CASE Guarded
  <2>1. CASE (LetIn({CHOOSE m \in Members : TRUE}) \/ \E r \in Requests : Answers(r)) /\ UNCHANGED <<accountTables, consoleTables>>
    <3>1. (CHOOSE m \in Members : TRUE) \in Members
      BY TenancyAssumption
    <3>2. LetIn(Members) \/ \E r \in Requests : Answers(r)
      BY <2>1, <3>1, Zenon DEF LetIn
    <3> QED BY <1>2, <2>1, <3>2
  <2>2. CASE TokensAge /\ UNCHANGED consoleTables
    <3>1. UNCHANGED <<req, overlap, cut>>
      BY <2>2 DEF TokensAge, Tick
    <3>2. ConsoleInv'
      BY <2>2, <3>1, ConsoleElse DEF PlatformInv
    <3> QED BY <2>2, <3>2, TokensAgeTyped DEF PlatformInv
  <2>3. CASE /\ \E r \in Requests :
                  \/ UpdatePermissionsDelete(r, MemberRole) \/ UpdatePermissionsCommit(r) \/ Record(r)
             /\ UNCHANGED <<accountTables, tenancyTables>>
    <3>1. UNCHANGED cut /\ UNCHANGED tenancyTables
      BY <2>3 DEF accountTables
    <3>2. RolesController
      BY <2>3, TenancyAssumption DEF RolesController
    <3> QED BY <1>1, <3>1, <3>2
  <2> QED BY <1>5, <2>1, <2>2, <2>3 DEF Guarded
<1>6. CASE \E r \in Requests : TenancyDies(r)
  BY <1>1, <1>6 DEF TenancyDies
<1> QED BY <1>3, <1>4, <1>5, <1>6 DEF PlatformDesk

\* To the accounts a step of the platform is one of theirs, or nothing.
LEMMA PlatformAccounts ==
  ASSUME NEW d, PlatformDesk(d)
  PROVE  AccountsNext \/ UNCHANGED accountTables
<1>1. \A r : ConsoleDies(r) => AccountsDies(r)
  BY DEF ConsoleDies
<1>2. CASE ConsoleNext
  BY <1>1, <1>2 DEF ConsoleNext, AccountsNext
<1>3. CASE Routed
  BY <1>3 DEF Routed
<1>4. CASE Guarded
  <2>1. TokensAge => AccountsNext
    BY DEF TokensAge, AccountsNext, SignedIn
  <2> QED BY <1>4, <2>1 DEF Guarded
<1>5. CASE \E r \in Requests : TenancyDies(r)
  BY <1>1, <1>5 DEF TenancyDies, AccountsNext
<1> QED BY <1>2, <1>3, <1>4, <1>5 DEF PlatformDesk

\* A step of another desk.
LEMMA PlatformElsewhere ==
  ASSUME PlatformInv, PlatformRequests, UNCHANGED <<consoleTables, tenancyTables, overlap>>,
         cut' = cut \/ cut',
         \A r \in Requests :
           req'[r] = req[r] \/ (req[r].op \notin PlatformOps /\ req'[r].op \notin PlatformOps)
  PROVE  PlatformInv'
<1>1. ConsoleInv'
  <2>1. ConsoleInv /\ UNCHANGED consoleTables
    BY DEF PlatformInv
  <2>2. \A r \in Requests : req'[r] = req[r] \/ (req'[r].op \notin Marked /\ (req[r].op # "Record" \/ cut'))
    BY DEF PlatformOps, Marked
  <2> QED BY <2>1, <2>2, ConsoleElse
<1> QED BY <1>1 DEF PlatformInv, TenancyTypeOK, tenancyTables

LEMMA PlatformBegins == ConsoleInit /\ TenancyInit /\ HandlersInit => PlatformInv
BY ConsoleBegins, TenancyBegins DEF PlatformInv
=============================================================================
