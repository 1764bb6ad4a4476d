--------------------------- MODULE AccountsProofs ---------------------------
(***************************************************************************)
(* Theorems about accounts: sessions die with the password and the account *)
(* they were opened with, a reset link sets one password, an active        *)
(* administrator remains, and reports go up a hierarchy without cycles.    *)
(***************************************************************************)
EXTENDS Accounts, FiniteSetTheorems, WellFoundedInduction, TLAPS

\* The requests under way, by what they carry from one step to the next.
LoginReqs  == [op : {"login"}, pc : {"session"}, user : Users, pw : 1..MaxPassword, raced : BOOLEAN]
ForgotReqs == [op : {"forgot"}, pc : {"mint"}, user : Users]
ResetReqs  == [op : {"reset"}, pc : {"password", "revoke", "consume", "purge"}, user : Users,
               token : TokenIds]
ToggleReqs == [op : {"toggle"}, pc : {"active", "revoke"}, user : Users, active : BOOLEAN]
RoleReqs   == [op : {"role"}, pc : {"role", "revoke"}, user : Users, role : Roles]
EditReqs   == [op : {"edit"}, pc : {"role", "active", "revoke", "password", "manager", "assign"},
               user : Users, role : Roles, active : BOOLEAN, password : BOOLEAN,
               manager : Users \cup {NoUser}]
SubmitReqs == [op : {"submit"}, pc : {"insert"}, user : Users, manager : Users]
ReviewReqs == [op : {"review"}, pc : {"review"}, user : Users, report : ReportIds,
               status : {"approved", "rejected"}, asAdmin : BOOLEAN]

RequestStates ==
  UNION {{NoRequest}, LoginReqs, ForgotReqs, ResetReqs, ToggleReqs, RoleReqs, EditReqs,
         SubmitReqs, ReviewReqs}

AccountsShape ==
  /\ account \in [Users -> [pw : 1..MaxPassword, active : BOOLEAN, role : Roles,
                            mgr : Users \cup {NoUser}]]
  /\ session \in [SessionIds -> [user : Users \cup {NoUser}, pw : 0..MaxPassword,
                                 live : BOOLEAN, raced : BOOLEAN]]
  /\ token \in [TokenIds -> [user : Users \cup {NoUser}, uses : Nat,
                             st : {"none", "valid", "used", "gone"}]]
  /\ request \in [Requests -> RequestStates]
  /\ \A s \in SessionIds : session[s].live => session[s].user \in Users
  /\ \A t \in TokenIds : token[t].st = "valid" => token[t].user \in Users

\* What the step of a request tells about it.
LEMMA RequestKinds ==
  ASSUME NEW q \in RequestStates
  PROVE  /\ q.op = "none" <=> q = NoRequest
         /\ q.op \in {"none", "login", "forgot", "reset", "toggle", "role", "edit", "submit", "review"}
         /\ q.op = "login"  <=> q \in LoginReqs
         /\ q.op = "forgot" <=> q \in ForgotReqs
         /\ q.op = "reset"  <=> q \in ResetReqs
         /\ q.op = "toggle" <=> q \in ToggleReqs
         /\ q.op = "role"   <=> q \in RoleReqs
         /\ q.op = "edit"   <=> q \in EditReqs
         /\ q.op = "submit" <=> q \in SubmitReqs
         /\ q.op = "review" <=> q \in ReviewReqs
<1> USE DEF NoRequest, LoginReqs, ForgotReqs, ResetReqs, ToggleReqs, RoleReqs, EditReqs,
            SubmitReqs, ReviewReqs
<1>0. q = NoRequest \/ q \in LoginReqs \/ q \in ForgotReqs \/ q \in ResetReqs \/ q \in ToggleReqs
      \/ q \in RoleReqs \/ q \in EditReqs \/ q \in SubmitReqs \/ q \in ReviewReqs
  BY DEF RequestStates
<1>1. CASE q = NoRequest
  BY <1>1
<1>2. CASE q \in LoginReqs
  BY <1>2
<1>3. CASE q \in ForgotReqs
  BY <1>3
<1>4. CASE q \in ResetReqs
  BY <1>4
<1>5. CASE q \in ToggleReqs
  BY <1>5
<1>6. CASE q \in RoleReqs
  BY <1>6
<1>7. CASE q \in EditReqs
  BY <1>7
<1>8. CASE q \in SubmitReqs
  BY <1>8
<1>9. CASE q \in ReviewReqs
  BY <1>9
<1>10. QED
  BY <1>0, <1>1, <1>2, <1>3, <1>4, <1>5, <1>6, <1>7, <1>8, <1>9

\* Every request has a user, and its step says which kinds it may be of.
LEMMA RequestSteps ==
  ASSUME NEW q \in RequestStates, q # NoRequest
  PROVE  /\ q.user \in Users
         /\ q.pc = "session"  => q.op = "login"
         /\ q.pc = "mint"     => q.op = "forgot"
         /\ q.pc = "password" => q.op \in {"reset", "edit"}
         /\ q.pc = "revoke"   => q.op \in {"reset", "toggle", "role", "edit"}
         /\ q.pc = "consume"  => q.op = "reset"
         /\ q.pc = "purge"    => q.op = "reset"
         /\ q.pc = "active"   => q.op \in {"toggle", "edit"}
         /\ q.pc = "role"     => q.op \in {"role", "edit"}
         /\ q.pc = "manager"  => q.op = "edit"
         /\ q.pc = "assign"   => q.op = "edit"
         /\ q.pc = "insert"   => q.op = "submit"
         /\ q.pc = "review"   => q.op = "review"
<1> USE DEF LoginReqs, ForgotReqs, ResetReqs, ToggleReqs, RoleReqs, EditReqs, SubmitReqs, ReviewReqs
<1>2. CASE q \in LoginReqs
  BY <1>2
<1>3. CASE q \in ForgotReqs
  BY <1>3
<1>4. CASE q \in ResetReqs
  BY <1>4
<1>5. CASE q \in ToggleReqs
  BY <1>5
<1>6. CASE q \in RoleReqs
  BY <1>6
<1>7. CASE q \in EditReqs
  BY <1>7
<1>8. CASE q \in SubmitReqs
  BY <1>8
<1>9. CASE q \in ReviewReqs
  BY <1>9
<1>10. QED
  BY <1>2, <1>3, <1>4, <1>5, <1>6, <1>7, <1>8, <1>9 DEF RequestStates

\* A request that goes on to its next step carries the rest along.
LEMMA RequestGoesOn ==
  ASSUME NEW q, NEW pc
  PROVE  /\ q \in ResetReqs /\ pc \in {"password", "revoke", "consume", "purge"} =>
              /\ [q EXCEPT !.pc = pc] \in ResetReqs /\ [q EXCEPT !.pc = pc].pc = pc
              /\ [q EXCEPT !.pc = pc].op = "reset" /\ [q EXCEPT !.pc = pc].user = q.user
              /\ [q EXCEPT !.pc = pc].token = q.token
         /\ q \in ToggleReqs /\ pc \in {"active", "revoke"} =>
              /\ [q EXCEPT !.pc = pc] \in ToggleReqs /\ [q EXCEPT !.pc = pc].pc = pc
              /\ [q EXCEPT !.pc = pc].op = "toggle" /\ [q EXCEPT !.pc = pc].user = q.user
         /\ q \in RoleReqs /\ pc \in {"role", "revoke"} =>
              /\ [q EXCEPT !.pc = pc] \in RoleReqs /\ [q EXCEPT !.pc = pc].pc = pc
              /\ [q EXCEPT !.pc = pc].op = "role" /\ [q EXCEPT !.pc = pc].user = q.user
         /\ q \in EditReqs /\ pc \in {"role", "active", "revoke", "password", "manager", "assign"} =>
              /\ [q EXCEPT !.pc = pc] \in EditReqs /\ [q EXCEPT !.pc = pc].pc = pc
              /\ [q EXCEPT !.pc = pc].op = "edit" /\ [q EXCEPT !.pc = pc].user = q.user
              /\ [q EXCEPT !.pc = pc].manager = q.manager
<1>1. CASE q \in ResetReqs
  BY <1>1 DEF ResetReqs, ToggleReqs, RoleReqs, EditReqs
<1>2. CASE q \in ToggleReqs
  BY <1>2 DEF ResetReqs, ToggleReqs, RoleReqs, EditReqs
<1>3. CASE q \in RoleReqs
  BY <1>3 DEF ResetReqs, ToggleReqs, RoleReqs, EditReqs
<1>4. CASE q \in EditReqs
  BY <1>4 DEF ResetReqs, ToggleReqs, RoleReqs, EditReqs
<1>5. QED
  BY <1>1, <1>2, <1>3, <1>4

LEMMA KindsAreStates ==
  /\ NoRequest \in RequestStates /\ LoginReqs \subseteq RequestStates
  /\ ForgotReqs \subseteq RequestStates /\ ResetReqs \subseteq RequestStates
  /\ ToggleReqs \subseteq RequestStates /\ RoleReqs \subseteq RequestStates
  /\ EditReqs \subseteq RequestStates /\ SubmitReqs \subseteq RequestStates
  /\ ReviewReqs \subseteq RequestStates
BY DEF RequestStates

\* A step on which one request changes.
LEMMA OneRequestMoves ==
  ASSUME AccountsShape, NEW r \in Requests, NEW next \in RequestStates,
         request' = [request EXCEPT ![r] = next]
  PROVE  /\ request' \in [Requests -> RequestStates] /\ request'[r] = next
         /\ \A q \in Requests : q # r => request'[q] = request[q]
BY DEF AccountsShape

-----------------------------------------------------------------------------
(* Reset tokens *)

Resets(r, t) == request[r].op = "reset" /\ request[r].token = t

\* A token that one request at a time has used: it has set a password only if
\* the request that did is about to consume it, or it is no longer valid.
TokenSound(t) ==
  /\ token[t].uses <= 1
  /\ \A r, q \in Requests : Resets(r, t) /\ Resets(q, t) => r = q
  /\ \A r \in Requests : Resets(r, t) =>
       /\ token[t].st # "none"
       /\ request[r].pc = "password" => token[t].uses = 0
       /\ request[r].pc = "purge" => token[t].st # "valid"
  /\ token[t].st = "valid" =>
       token[t].uses = 0 \/ \E r \in Requests : Resets(r, t) /\ request[r].pc \in {"revoke", "consume"}

TokensSound == \A t \in TokenIds \ shared : TokenSound(t)

\* A step that uses no token, makes none valid and starts no reset; a reset
\* that stops before it has consumed its token leaves it to others.
TokensKept ==
  /\ \A t \in TokenIds : /\ token'[t].uses = token[t].uses
                         /\ token'[t].st = "valid" => token[t].st = "valid"
                         /\ token[t].st # "none" => token'[t].st # "none"
  /\ shared \subseteq shared'
  /\ \A q \in Requests :
       /\ request'[q].op = "reset" =>
            /\ request[q].op = "reset" /\ request'[q].token = request[q].token
            /\ request'[q].pc = request[q].pc \/ request'[q].pc = "consume"
       /\ request[q].op = "reset" /\ request[q].pc \in {"revoke", "consume"} =>
            \/ /\ request'[q].op = "reset" /\ request'[q].token = request[q].token
               /\ request'[q].pc \in {"revoke", "consume"}
            \/ request[q].token \in shared'

LEMMA TokensFrame ==
  ASSUME TokensSound, TokensKept
  PROVE  TokensSound'
<1>1. SUFFICES ASSUME NEW t \in TokenIds \ shared'
               PROVE  TokenSound(t)'
  BY DEF TokensSound
<1>2. TokenSound(t)
  BY DEF TokensSound, TokensKept
<1>3. \A r \in Requests : Resets(r, t)' =>
        Resets(r, t) /\ (request'[r].pc = request[r].pc \/ request'[r].pc = "consume")
  BY DEF TokensKept, Resets
<1>4. token'[t].uses <= 1
  BY <1>2 DEF TokenSound, TokensKept
<1>5. \A r, q \in Requests : Resets(r, t)' /\ Resets(q, t)' => r = q
  BY <1>2, <1>3 DEF TokenSound
<1>6. ASSUME NEW r \in Requests, Resets(r, t)'
      PROVE  /\ token'[t].st # "none"
             /\ request'[r].pc = "password" => token'[t].uses = 0
             /\ request'[r].pc = "purge" => token'[t].st # "valid"
  BY <1>2, <1>3, <1>6 DEF TokenSound, TokensKept
<1>7. ASSUME token'[t].st = "valid", token'[t].uses # 0
      PROVE  \E r \in Requests : Resets(r, t)' /\ request'[r].pc \in {"revoke", "consume"}
  <2>1. token[t].st = "valid" /\ token[t].uses # 0
    BY <1>7 DEF TokensKept
  <2>2. PICK r \in Requests : Resets(r, t) /\ request[r].pc \in {"revoke", "consume"}
    BY <1>2, <2>1 DEF TokenSound
  <2>3. Resets(r, t)' /\ request'[r].pc \in {"revoke", "consume"}
    BY <2>2 DEF TokensKept, Resets
  <2>4. QED
    BY <2>3
<1>8. QED
  BY <1>4, <1>5, <1>6, <1>7 DEF TokenSound

-----------------------------------------------------------------------------
(* Sessions *)

\* A session that no change of the account overlapped.
Open(s)     == session[s].live /\ ~session[s].raced
UpToDate(s) == /\ account[session[s].user].active
               /\ session[s].pw = account[session[s].user].pw
RevokesSoon(r, u) == request[r].op # "none" /\ request[r].pc = "revoke" /\ request[r].user = u
LateEdit(r) == request[r].op = "edit" /\ request[r].pc \in {"password", "manager", "assign"}

\* A login that nothing overtook has read what the account still holds.
LoginsUpToDate ==
  \A r \in Requests : request[r].op = "login" /\ ~request[r].raced =>
    account[request[r].user].active /\ request[r].pw = account[request[r].user].pw

\* What is out of date is about to be revoked.
StaleRevoked ==
  \A s \in SessionIds : Open(s) /\ session[s].user \notin orphaned =>
    UpToDate(s) \/ \E r \in Requests : RevokesSoon(r, session[s].user)

\* The edit page changes the password after it has revoked the sessions: none
\* has been opened meanwhile that would count as current.
EditsHaveRevoked ==
  \A r \in Requests, s \in SessionIds : LateEdit(r) /\ Open(s) => session[s].user # request[r].user

SessionsSound == LoginsUpToDate /\ StaleRevoked /\ EditsHaveRevoked

\* A step that changes no password, opens no session and revokes none.
SessionsKept ==
  /\ \A u \in Users : account'[u].active = account[u].active /\ account'[u].pw = account[u].pw
  /\ \A s \in SessionIds : Open(s)' => session'[s] = session[s]
  /\ orphaned \subseteq orphaned'
  /\ \A q \in Requests :
       /\ request'[q].op = "login" /\ ~request'[q].raced =>
            \/ request'[q] = request[q]
            \/ /\ account[request'[q].user].active
               /\ request'[q].pw = account[request'[q].user].pw
       /\ \A u \in Users : RevokesSoon(q, u) => RevokesSoon(q, u)' \/ u \in orphaned'
       /\ LateEdit(q)' => LateEdit(q) /\ request'[q].user = request[q].user

LEMMA RequestUsers ==
  ASSUME AccountsShape, NEW r \in Requests, request[r].op # "none"
  PROVE  request[r] \in RequestStates /\ request[r] # NoRequest /\ request[r].user \in Users
<1>1. request[r] \in RequestStates
  BY DEF AccountsShape
<1>2. request[r] # NoRequest
  BY <1>1, RequestKinds
<1>3. QED
  BY <1>1, <1>2, RequestSteps

LEMMA SessionsFrame ==
  ASSUME AccountsShape, AccountsShape', SessionsSound, SessionsKept
  PROVE  SessionsSound'
<1>1. LoginsUpToDate'
  <2>1. SUFFICES ASSUME NEW r \in Requests, request'[r].op = "login", ~request'[r].raced
                 PROVE  /\ account'[request'[r].user].active
                        /\ request'[r].pw = account'[request'[r].user].pw
    BY DEF LoginsUpToDate
  <2>2. request'[r].user \in Users
    BY <2>1, RequestUsers, RequestSteps, RequestKinds DEF AccountsShape
  <2>3. account[request'[r].user].active /\ request'[r].pw = account[request'[r].user].pw
    BY <2>1 DEF SessionsSound, LoginsUpToDate, SessionsKept
  <2>4. QED
    BY <2>2, <2>3 DEF SessionsKept
<1>2. ASSUME NEW s \in SessionIds, Open(s)'
      PROVE  session'[s] = session[s] /\ Open(s) /\ session[s].user \in Users
  BY <1>2 DEF SessionsKept, Open, AccountsShape
<1>3. StaleRevoked'
  <2>1. SUFFICES ASSUME NEW s \in SessionIds, Open(s)', session'[s].user \notin orphaned',
                        ~UpToDate(s)'
                 PROVE  \E r \in Requests : RevokesSoon(r, session[s].user)'
    BY <1>2 DEF StaleRevoked
  <2>2. session'[s] = session[s] /\ Open(s) /\ session[s].user \in Users
    BY <1>2, <2>1
  <2>3. ~UpToDate(s) /\ session[s].user \notin orphaned
    BY <2>1, <2>2 DEF UpToDate, SessionsKept
  <2>4. PICK r \in Requests : RevokesSoon(r, session[s].user)
    BY <2>2, <2>3 DEF SessionsSound, StaleRevoked
  <2>5. RevokesSoon(r, session[s].user)'
    BY <2>1, <2>2, <2>4 DEF SessionsKept
  <2>6. QED
    BY <2>5
<1>4. EditsHaveRevoked'
  BY <1>2 DEF SessionsSound, EditsHaveRevoked, SessionsKept
<1>5. QED
  BY <1>1, <1>3, <1>4 DEF SessionsSound

-----------------------------------------------------------------------------
(* Administrators *)

Changing == {"toggle", "role", "edit"}

\* An administrator that nobody is changing.
SafeAdmin(u) ==
  /\ account[u].active /\ account[u].role = "admin"
  /\ \A r \in Requests : request[r].op \in Changing => request[r].user # u

AdminsSound == ~adminRace => \E u \in Users : SafeAdmin(u)

AdminsKept ==
  /\ \A u \in Users : account'[u].active = account[u].active /\ account'[u].role = account[u].role
  /\ adminRace' = adminRace
  /\ \A q \in Requests : request'[q].op \in Changing =>
       request[q].op \in Changing /\ request'[q].user = request[q].user

LEMMA AdminsFrame ==
  ASSUME AdminsSound, AdminsKept
  PROVE  AdminsSound'
<1>1. SUFFICES ASSUME ~adminRace'
               PROVE  \E u \in Users : SafeAdmin(u)'
  BY DEF AdminsSound
<1>2. PICK u \in Users : SafeAdmin(u)
  BY <1>1 DEF AdminsSound, AdminsKept
<1>3. SafeAdmin(u)'
  BY <1>2 DEF SafeAdmin, AdminsKept
<1>4. QED
  BY <1>3

-----------------------------------------------------------------------------
(* The inductive invariant and its steps *)

AccountsInv == AccountsShape /\ TokensSound /\ SessionsSound /\ AdminsSound

LEMMA AccountsFrame ==
  ASSUME AccountsInv, AccountsShape', TokensKept, SessionsKept, AdminsKept
  PROVE  AccountsInv'
BY TokensFrame, SessionsFrame, AdminsFrame DEF AccountsInv

\* A request that begins where none was, and is no reset and no change of an
\* account, disturbs nothing.
LEMMA PlainBegin ==
  ASSUME AccountsShape, NEW r \in Requests, NEW req \in RequestStates,
         req.op \in {"login", "forgot", "submit", "review"}, Begin(r, req),
         req.op = "login" => account[req.user].active /\ req.pw = account[req.user].pw,
         UNCHANGED <<account, session, history_>>,
         \A t \in TokenIds : /\ token'[t].uses = token[t].uses
                             /\ token'[t].st = "valid" => token[t].st = "valid"
                             /\ token[t].st # "none" => token'[t].st # "none"
  PROVE  /\ request' \in [Requests -> RequestStates]
         /\ TokensKept /\ SessionsKept /\ AdminsKept
<1>1. /\ request' \in [Requests -> RequestStates] /\ request'[r] = req /\ request[r].op = "none"
      /\ \A q \in Requests : q # r => request'[q] = request[q]
  <2>1. request[r] = NoRequest /\ request' = [request EXCEPT ![r] = req]
    BY DEF Begin
  <2>2. NoRequest.op = "none"
    BY DEF NoRequest
  <2>3. QED
    BY <2>1, <2>2, OneRequestMoves
<1>2. UNCHANGED <<orphaned, shared, adminRace>>
  BY DEF history_
<1>3. TokensKept
  BY <1>1, <1>2 DEF TokensKept
<1>4. AdminsKept
  BY <1>1, <1>2 DEF AdminsKept, Changing
<1>5. SessionsKept
  BY <1>1, <1>2 DEF SessionsKept, RevokesSoon, LateEdit, Open
<1>6. QED
  BY <1>1, <1>3, <1>4, <1>5

\* The tokens of a user are dropped.
LEMMA PurgedTokens ==
  ASSUME AccountsShape, NEW u \in Users, token' = PurgeOf(u)
  PROVE  /\ token' \in [TokenIds -> [user : Users \cup {NoUser}, uses : Nat,
                                     st : {"none", "valid", "used", "gone"}]]
         /\ \A t \in TokenIds : /\ token'[t].uses = token[t].uses /\ token'[t].user = token[t].user
                                /\ token'[t].st = "valid" => token[t].st = "valid"
                                /\ token[t].st # "none" => token'[t].st # "none"
BY DEF AccountsShape, PurgeOf

LEMMA SignInSteps ==
  ASSUME AccountsInv, NEW r \in Requests, NEW u \in Users, LoginLookup(r, u) \/ ForgotPurge(r, u)
  PROVE  AccountsInv'
<1>1. CASE LoginLookup(r, u)
  <2> DEFINE req == [op |-> "login", pc |-> "session", user |-> u, pw |-> account[u].pw, raced |-> FALSE]
  <2>1. req \in LoginReqs
    BY DEF LoginReqs, AccountsInv, AccountsShape
  <2>2. /\ Begin(r, req) /\ UNCHANGED <<account, session, token, history_>> /\ account[u].active
    BY <1>1 DEF LoginLookup
  <2>3. /\ req \in RequestStates /\ req.op = "login" /\ req.user = u /\ req.pw = account[u].pw
    BY <2>1, KindsAreStates
  <2> HIDE DEF req
  <2>4. /\ request' \in [Requests -> RequestStates]
        /\ TokensKept /\ SessionsKept /\ AdminsKept
    BY <2>2, <2>3, PlainBegin DEF AccountsInv
  <2>5. AccountsShape'
    BY <2>2, <2>4 DEF AccountsInv, AccountsShape
  <2>6. QED
    BY <2>4, <2>5, AccountsFrame
<1>2. CASE ForgotPurge(r, u)
  <2> DEFINE req == [op |-> "forgot", pc |-> "mint", user |-> u]
  <2>1. req \in ForgotReqs
    BY DEF ForgotReqs
  <2>2. /\ Begin(r, req) /\ UNCHANGED <<account, session, history_>> /\ token' = PurgeOf(u)
    BY <1>2 DEF ForgotPurge
  <2>3. req \in RequestStates /\ req.op = "forgot"
    BY <2>1, KindsAreStates
  <2> HIDE DEF req
  <2>4. /\ request' \in [Requests -> RequestStates]
        /\ TokensKept /\ SessionsKept /\ AdminsKept
    BY <2>2, <2>3, PlainBegin, PurgedTokens DEF AccountsInv
  <2>5. AccountsShape'
    BY <2>2, <2>4, PurgedTokens DEF AccountsInv, AccountsShape
  <2>6. QED
    BY <2>4, <2>5, AccountsFrame
<1>3. QED
  BY <1>1, <1>2

LEMMA ReportBegins ==
  ASSUME AccountsInv, NEW r \in Requests, NEW s \in SessionIds,
         \/ SubmitReport(r, s)
         \/ \E i \in ReportIds, st \in {"approved", "rejected"} : ReviewReport(r, s, i, st)
  PROVE  AccountsInv'
<1> DEFINE u == session[s].user
<1>1. u \in Users
  BY DEF SubmitReport, ReviewReport, _load_user, AccountsInv, AccountsShape
<1>2. PICK req \in RequestStates : /\ req.op \in {"submit", "review"} /\ Begin(r, req)
                                   /\ UNCHANGED <<account, session, token, history_>>
  <2>1. CASE SubmitReport(r, s)
    <3> DEFINE req == [op |-> "submit", pc |-> "insert", user |-> u, manager |-> account[u].mgr]
    <3>1. /\ Begin(r, req) /\ UNCHANGED <<account, session, token, history_>>
          /\ account[u].mgr # NoUser
      BY <2>1 DEF SubmitReport
    <3>2. account[u].mgr \in Users
      BY <1>1, <3>1 DEF AccountsInv, AccountsShape
    <3>3. req \in SubmitReqs
      BY <1>1, <3>2 DEF SubmitReqs
    <3>4. QED
      BY <3>1, <3>3, KindsAreStates
  <2>2. ASSUME NEW i \in ReportIds, NEW st \in {"approved", "rejected"}, ReviewReport(r, s, i, st)
        PROVE  \E req \in RequestStates : /\ req.op \in {"submit", "review"} /\ Begin(r, req)
                                          /\ UNCHANGED <<account, session, token, history_>>
    <3> DEFINE req == [op |-> "review", pc |-> "review", user |-> u, report |-> i, status |-> st,
                       asAdmin |-> account[u].role = "admin"]
    <3>1. Begin(r, req) /\ UNCHANGED <<account, session, token, history_>>
      BY <2>2 DEF ReviewReport
    <3>2. req \in ReviewReqs
      BY <1>1 DEF ReviewReqs
    <3>3. QED
      BY <3>1, <3>2, KindsAreStates
  <2>3. QED
    BY <2>1, <2>2
<1>3. /\ request' \in [Requests -> RequestStates]
      /\ TokensKept /\ SessionsKept /\ AdminsKept
  BY <1>2, PlainBegin DEF AccountsInv
<1>4. AccountsShape'
  BY <1>2, <1>3 DEF AccountsInv, AccountsShape
<1>5. QED
  BY <1>3, <1>4, AccountsFrame

\* A request that ends: a reset has consumed its token or leaves it shared, a
\* change has revoked the sessions or leaves them orphaned.
LEMMA PlainFinish ==
  ASSUME AccountsShape, NEW r \in Requests, Finish(r), request[r] # NoRequest,
         \A u \in Users : /\ account'[u].active = account[u].active
                          /\ account'[u].pw = account[u].pw /\ account'[u].role = account[u].role,
         session' = session, adminRace' = adminRace,
         orphaned \subseteq orphaned', shared \subseteq shared',
         request[r].pc = "revoke" => request[r].user \in orphaned',
         request[r].op = "reset" /\ request[r].pc \in {"revoke", "consume"} => request[r].token \in shared',
         \A t \in TokenIds : /\ token'[t].uses = token[t].uses
                             /\ token'[t].st = "valid" => token[t].st = "valid"
                             /\ token[t].st # "none" => token'[t].st # "none"
  PROVE  /\ request' \in [Requests -> RequestStates]
         /\ TokensKept /\ SessionsKept /\ AdminsKept
<1>1. /\ request' \in [Requests -> RequestStates] /\ request'[r] = NoRequest
      /\ \A q \in Requests : q # r => request'[q] = request[q]
  BY OneRequestMoves, KindsAreStates DEF Finish
<1>2. NoRequest.op = "none"
  BY DEF NoRequest
<1>3. TokensKept
  BY <1>1, <1>2 DEF TokensKept
<1>4. AdminsKept
  BY <1>1, <1>2 DEF AdminsKept, Changing
<1>5. SessionsKept
  BY <1>1, <1>2 DEF SessionsKept, RevokesSoon, LateEdit, Open
<1>6. QED
  BY <1>1, <1>3, <1>4, <1>5

\* Steps that touch neither requests nor accounts.
LEMMA LogoutStep ==
  ASSUME AccountsInv, NEW s \in SessionIds, Logout(s)
  PROVE  AccountsInv'
<1>1. /\ session' = [session EXCEPT ![s].live = FALSE]
      /\ UNCHANGED <<account, token, request, orphaned, shared, adminRace>>
  BY DEF Logout, history_
<1>2. /\ session' \in [SessionIds -> [user : Users \cup {NoUser}, pw : 0..MaxPassword,
                                      live : BOOLEAN, raced : BOOLEAN]]
      /\ \A z \in SessionIds : session'[z].live => session'[z] = session[z]
  <2>1. session[s] \in [user : Users \cup {NoUser}, pw : 0..MaxPassword,
                        live : BOOLEAN, raced : BOOLEAN]
    BY DEF AccountsInv, AccountsShape
  <2>2. session'[s] = [session[s] EXCEPT !.live = FALSE]
    BY <1>1 DEF AccountsInv, AccountsShape
  <2>3. session'[s].live = FALSE
    BY <2>1, <2>2
  <2>4. \A z \in SessionIds : z # s => session'[z] = session[z]
    BY <1>1 DEF AccountsInv, AccountsShape
  <2>5. session' \in [SessionIds -> [user : Users \cup {NoUser}, pw : 0..MaxPassword,
                                      live : BOOLEAN, raced : BOOLEAN]]
    <3>1. session'[s] \in [user : Users \cup {NoUser}, pw : 0..MaxPassword,
                           live : BOOLEAN, raced : BOOLEAN]
      BY <2>1, <2>2
    <3>2. DOMAIN session' = SessionIds /\ session' = [z \in SessionIds |-> session'[z]]
      BY <1>1 DEF AccountsInv, AccountsShape
    <3>3. QED
      BY <2>4, <3>1, <3>2 DEF AccountsInv, AccountsShape
  <2>6. QED
    BY <2>3, <2>4, <2>5
<1>3. AccountsShape'
  BY <1>1, <1>2 DEF AccountsInv, AccountsShape
<1>4. TokensKept /\ AdminsKept
  BY <1>1 DEF TokensKept, AdminsKept
<1>5. SessionsKept
  BY <1>1, <1>2 DEF SessionsKept, Open, RevokesSoon, LateEdit
<1>6. QED
  BY <1>3, <1>4, <1>5, AccountsFrame

LEMMA ExpiryStep ==
  ASSUME AccountsInv, NEW t \in TokenIds, TokenExpires(t)
  PROVE  AccountsInv'
<1>1. /\ token' = [token EXCEPT ![t].st = "gone"]
      /\ UNCHANGED <<account, session, request, orphaned, shared, adminRace>>
  BY DEF TokenExpires, history_
<1>2. /\ token' \in [TokenIds -> [user : Users \cup {NoUser}, uses : Nat,
                                  st : {"none", "valid", "used", "gone"}]]
      /\ \A z \in TokenIds : /\ token'[z].uses = token[z].uses /\ token'[z].user = token[z].user
                             /\ token'[z].st = "valid" => token[z].st = "valid"
                             /\ token[z].st # "none" => token'[z].st # "none"
  BY <1>1 DEF AccountsInv, AccountsShape
<1>3. AccountsShape'
  BY <1>1, <1>2 DEF AccountsInv, AccountsShape
<1>4. TokensKept /\ AdminsKept
  BY <1>1, <1>2 DEF TokensKept, AdminsKept
<1>5. SessionsKept
  BY <1>1 DEF SessionsKept, Open, RevokesSoon, LateEdit
<1>6. QED
  BY <1>3, <1>4, <1>5, AccountsFrame

\* What the step of request r says of its kind.
LEMMA StepKind ==
  ASSUME AccountsShape, NEW r \in Requests, NEW pc, At(r, pc)
  PROVE  /\ request[r] \in RequestStates /\ request[r] # NoRequest /\ request[r].pc = pc
         /\ request[r].user \in Users
<1>1. request[r] \in RequestStates /\ request[r] # NoRequest /\ request[r].pc = pc
  BY DEF AccountsShape, At
<1>2. QED
  BY <1>1, RequestSteps

LEMMA PurgeStep ==
  ASSUME AccountsInv, NEW r \in Requests, PurgeTokens(r)
  PROVE  AccountsInv'
<1>1. /\ At(r, "purge") /\ token' = PurgeOf(request[r].user) /\ Finish(r)
      /\ UNCHANGED <<account, session, orphaned, shared, adminRace>>
  BY DEF PurgeTokens, history_
<1>2. request[r] # NoRequest /\ request[r].pc = "purge" /\ request[r].user \in Users
  BY <1>1, StepKind DEF AccountsInv
<1>3. /\ request' \in [Requests -> RequestStates] /\ TokensKept /\ SessionsKept /\ AdminsKept
  BY <1>1, <1>2, PurgedTokens, PlainFinish DEF AccountsInv
<1>4. AccountsShape'
  BY <1>1, <1>2, <1>3, PurgedTokens DEF AccountsInv, AccountsShape
<1>5. QED
  BY <1>3, <1>4, AccountsFrame

LEMMA ReportWrites ==
  ASSUME AccountsInv, NEW r \in Requests, InsertReport(r) \/ WriteReview(r)
  PROVE  AccountsInv'
<1>1. /\ At(r, "insert") \/ At(r, "review")
      /\ Finish(r) /\ UNCHANGED <<account, session, token, orphaned, shared, adminRace>>
  BY DEF InsertReport, WriteReview, history_
<1>2. request[r] # NoRequest /\ request[r].pc \in {"insert", "review"}
  BY <1>1 DEF At
<1>3. /\ request' \in [Requests -> RequestStates] /\ TokensKept /\ SessionsKept /\ AdminsKept
  BY <1>1, <1>2, PlainFinish DEF AccountsInv
<1>4. AccountsShape'
  BY <1>1, <1>3 DEF AccountsInv, AccountsShape
<1>5. QED
  BY <1>3, <1>4, AccountsFrame

LEMMA AssignStep ==
  ASSUME AccountsInv, NEW r \in Requests, AssignManager(r)
  PROVE  AccountsInv'
<1>1. /\ At(r, "assign") /\ Finish(r) /\ UNCHANGED <<session, token, orphaned, shared, adminRace>>
      /\ account' = [account EXCEPT ![request[r].user].mgr = request[r].manager]
  BY DEF AssignManager, history_
<1>2. /\ request[r] \in RequestStates /\ request[r] # NoRequest /\ request[r].pc = "assign"
      /\ request[r].user \in Users
  BY <1>1, StepKind DEF AccountsInv
<1>3. request[r].op = "edit" /\ request[r] \in EditReqs
  BY <1>2, RequestSteps, RequestKinds
<1>4. request[r].manager \in Users \cup {NoUser}
  BY <1>3 DEF EditReqs
<1>5. /\ account' \in [Users -> [pw : 1..MaxPassword, active : BOOLEAN, role : Roles,
                                 mgr : Users \cup {NoUser}]]
      /\ \A u \in Users : /\ account'[u].active = account[u].active
                          /\ account'[u].pw = account[u].pw /\ account'[u].role = account[u].role
  BY <1>1, <1>2, <1>4 DEF AccountsInv, AccountsShape
<1>6. /\ request' \in [Requests -> RequestStates] /\ TokensKept /\ SessionsKept /\ AdminsKept
  BY <1>1, <1>2, <1>5, PlainFinish DEF AccountsInv
<1>7. AccountsShape'
  BY <1>1, <1>5, <1>6 DEF AccountsInv, AccountsShape
<1>8. QED
  BY <1>6, <1>7, AccountsFrame

LEMMA DiesStep ==
  ASSUME AccountsInv, NEW r \in Requests, RequestDies(r)
  PROVE  AccountsInv'
<1>1. /\ request[r] # NoRequest /\ Finish(r) /\ UNCHANGED <<account, session, token, adminRace>>
      /\ orphaned \subseteq orphaned' /\ shared \subseteq shared'
      /\ request[r].pc = "revoke" => request[r].user \in orphaned'
      /\ request[r].op = "reset" /\ request[r].pc \in {"revoke", "consume"} => request[r].token \in shared'
  BY DEF RequestDies
<1>2. /\ request' \in [Requests -> RequestStates] /\ TokensKept /\ SessionsKept /\ AdminsKept
  BY <1>1, PlainFinish DEF AccountsInv
<1>3. AccountsShape'
  BY <1>1, <1>2 DEF AccountsInv, AccountsShape
<1>4. QED
  BY <1>2, <1>3, AccountsFrame

LEMMA CheckManagerStep ==
  ASSUME AccountsInv, NEW r \in Requests, CheckManager(r)
  PROVE  AccountsInv'
<1>1. /\ At(r, "manager") /\ UNCHANGED <<account, session, token, orphaned, shared, adminRace>>
      /\ Goto(r, "assign") \/ Finish(r)
  BY DEF CheckManager
<1>2. request[r] \in RequestStates /\ request[r] # NoRequest /\ request[r].pc = "manager"
  BY <1>1, StepKind DEF AccountsInv
<1>3. request[r].op = "edit" /\ request[r] \in EditReqs
  BY <1>2, RequestSteps, RequestKinds
<1>4. CASE Finish(r)
  <2>1. /\ request' \in [Requests -> RequestStates] /\ TokensKept /\ SessionsKept /\ AdminsKept
    BY <1>1, <1>2, <1>4, PlainFinish DEF AccountsInv
  <2>2. AccountsShape'
    BY <1>1, <2>1 DEF AccountsInv, AccountsShape
  <2>3. QED
    BY <2>1, <2>2, AccountsFrame
<1>5. CASE Goto(r, "assign")
  <2> DEFINE next == [request[r] EXCEPT !.pc = "assign"]
  <2>1. /\ next \in EditReqs /\ next.pc = "assign" /\ next.op = "edit"
        /\ next.user = request[r].user
    BY <1>3, RequestGoesOn
  <2>2. request' = [request EXCEPT ![r] = next]
    BY <1>5 DEF Goto, AccountsInv, AccountsShape
  <2> HIDE DEF next
  <2>3. /\ request' \in [Requests -> RequestStates] /\ request'[r] = next
        /\ \A q \in Requests : q # r => request'[q] = request[q]
    BY <2>1, <2>2, OneRequestMoves, KindsAreStates DEF AccountsInv
  <2>4. AccountsShape'
    BY <1>1, <2>3 DEF AccountsInv, AccountsShape
  <2>5. TokensKept
    BY <1>1, <1>3, <2>1, <2>3 DEF TokensKept
  <2>6. SessionsKept
    BY <1>1, <1>2, <1>3, <2>1, <2>3 DEF SessionsKept, Open, RevokesSoon, LateEdit
  <2>7. AdminsKept
    BY <1>1, <1>3, <2>1, <2>3 DEF AdminsKept, Changing
  <2>8. QED
    BY <2>4, <2>5, <2>6, <2>7, AccountsFrame
<1>6. QED
  BY <1>1, <1>4, <1>5

LEMMA NoOp == NoRequest.op = "none"
BY DEF NoRequest

\* A request at "password" or later that resets is the only one with its token.
LEMMA ResetFindStep ==
  ASSUME AccountsInv, NEW r \in Requests, NEW t \in TokenIds, ResetFind(r, t)
  PROVE  AccountsInv'
<1> DEFINE req == [op |-> "reset", pc |-> "password", user |-> token[t].user, token |-> t]
<1>1. /\ token[t].st = "valid" /\ Begin(r, req) /\ request[r] = NoRequest
      /\ request' = [request EXCEPT ![r] = req]
      /\ UNCHANGED <<account, session, token, orphaned, adminRace>> /\ shared \subseteq shared'
      /\ (\E q \in InFlight({"reset"}) : request[q].token = t) => t \in shared'
  BY DEF ResetFind, Begin
<1>2. req \in ResetReqs /\ req.op = "reset" /\ req.pc = "password" /\ req.token = t
  BY <1>1 DEF AccountsInv, AccountsShape, ResetReqs
<1> HIDE DEF req
<1>3. /\ request' \in [Requests -> RequestStates] /\ request'[r] = req /\ request[r].op = "none"
      /\ \A q \in Requests : q # r => request'[q] = request[q]
  BY <1>1, <1>2, OneRequestMoves, KindsAreStates, NoOp DEF AccountsInv
<1>4. AccountsShape'
  BY <1>1, <1>3 DEF AccountsInv, AccountsShape
<1>5. AdminsKept
  BY <1>1, <1>2, <1>3 DEF AdminsKept, Changing
<1>6. SessionsKept
  BY <1>1, <1>2, <1>3 DEF SessionsKept, Open, RevokesSoon, LateEdit
<1>7. TokensSound'
  <2>1. SUFFICES ASSUME NEW z \in TokenIds \ shared'
                 PROVE  TokenSound(z)'
    BY DEF TokensSound
  <2>2. TokenSound(z)
    BY <1>1 DEF AccountsInv, TokensSound
  <2>3. CASE z # t
    <3>1. \A q \in Requests : Resets(q, z)' <=> Resets(q, z)
      BY <1>2, <1>3, <2>3 DEF Resets
    <3>2. \A q \in Requests : Resets(q, z) => request'[q] = request[q]
      BY <1>3 DEF Resets
    <3>3. QED
      BY <1>1, <2>2, <3>1, <3>2 DEF TokenSound
  <2>4. CASE z = t
    <3>1. \A q \in Requests : ~Resets(q, t)
      BY <1>1, <2>1, <2>4 DEF Resets, InFlight
    <3>2. \A q \in Requests : Resets(q, t)' => q = r
      BY <1>3, <3>1 DEF Resets
    <3>3. token[t].uses = 0
      BY <1>1, <2>2, <2>4, <3>1 DEF TokenSound
    <3>4. QED
      BY <1>1, <1>2, <1>3, <2>4, <3>2, <3>3 DEF TokenSound
  <2>5. QED
    BY <2>3, <2>4
<1>8. QED
  BY <1>4, <1>5, <1>6, <1>7, AdminsFrame, SessionsFrame DEF AccountsInv

LEMMA MintStep ==
  ASSUME AccountsInv, NEW r \in Requests, MintToken(r)
  PROVE  AccountsInv'
<1>1. PICK t \in TokenIds : /\ token[t].st = "none"
                            /\ token' = [token EXCEPT ![t] = [user |-> request[r].user, st |-> "valid", uses |-> 0]]
  BY DEF MintToken
<1>2. /\ At(r, "mint") /\ Finish(r) /\ UNCHANGED <<account, session, orphaned, shared, adminRace>>
  BY DEF MintToken, history_
<1>3. /\ request[r] \in RequestStates /\ request[r] # NoRequest /\ request[r].pc = "mint"
      /\ request[r].user \in Users
  BY <1>2, StepKind DEF AccountsInv
<1>4. request[r].op = "forgot"
  BY <1>3, RequestSteps
<1>5. /\ request' \in [Requests -> RequestStates] /\ request'[r] = NoRequest
      /\ \A q \in Requests : q # r => request'[q] = request[q]
  BY <1>2, OneRequestMoves, KindsAreStates DEF Finish, AccountsInv
<1>6. /\ token' \in [TokenIds -> [user : Users \cup {NoUser}, uses : Nat,
                                  st : {"none", "valid", "used", "gone"}]]
      /\ token'[t].user \in Users /\ token'[t].uses = 0 /\ token'[t].st = "valid"
      /\ \A z \in TokenIds : z # t => token'[z] = token[z]
  BY <1>1, <1>3 DEF AccountsInv, AccountsShape
<1>7. AccountsShape'
  BY <1>2, <1>5, <1>6 DEF AccountsInv, AccountsShape
<1>8. AdminsKept
  BY <1>2, <1>5, NoOp DEF AdminsKept, Changing
<1>9. SessionsKept
  BY <1>2, <1>3, <1>5, NoOp DEF SessionsKept, Open, RevokesSoon, LateEdit
<1>10. TokensSound'
  <2>1. SUFFICES ASSUME NEW z \in TokenIds \ shared'
                 PROVE  TokenSound(z)'
    BY DEF TokensSound
  <2>2. TokenSound(z)
    BY <1>2 DEF AccountsInv, TokensSound
  <2>3. \A q \in Requests : /\ Resets(q, z)' <=> Resets(q, z)
                            /\ Resets(q, z) => request'[q] = request[q]
    BY <1>4, <1>5, NoOp DEF Resets
  <2>4. CASE z # t
    BY <1>6, <2>2, <2>3, <2>4 DEF TokenSound
  <2>5. CASE z = t
    <3>1. \A q \in Requests : ~Resets(q, t)
      BY <1>1, <2>2, <2>5 DEF TokenSound
    <3>2. QED
      BY <1>6, <2>3, <2>5, <3>1 DEF TokenSound
  <2>6. QED
    BY <2>4, <2>5
<1>11. QED
  BY <1>7, <1>8, <1>9, <1>10, AdminsFrame, SessionsFrame DEF AccountsInv

LEMMA ConsumeStep ==
  ASSUME AccountsInv, NEW r \in Requests, ConsumeToken(r)
  PROVE  AccountsInv'
<1> DEFINE t == request[r].token
           next == [request[r] EXCEPT !.pc = "purge"]
<1>1. /\ At(r, "consume") /\ UNCHANGED <<account, session, orphaned, shared, adminRace>>
      /\ token' = IF token[t].st = "valid" THEN [token EXCEPT ![t].st = "used"] ELSE token
  BY DEF ConsumeToken, history_
<1>2. request' = [request EXCEPT ![r] = next]
  BY DEF ConsumeToken, Goto, AccountsInv, AccountsShape
<1>3. request[r] \in RequestStates /\ request[r] # NoRequest /\ request[r].pc = "consume"
  BY <1>1, StepKind DEF AccountsInv
<1>4. request[r].op = "reset" /\ request[r] \in ResetReqs
  BY <1>3, RequestSteps, RequestKinds
<1>5. t \in TokenIds
  BY <1>4 DEF ResetReqs
<1>6. next \in ResetReqs /\ next.pc = "purge" /\ next.op = "reset" /\ next.token = t
  BY <1>4, RequestGoesOn
<1> HIDE DEF next
<1>7. /\ request' \in [Requests -> RequestStates] /\ request'[r] = next
      /\ \A q \in Requests : q # r => request'[q] = request[q]
  BY <1>2, <1>6, OneRequestMoves, KindsAreStates DEF AccountsInv
<1>8. /\ token' \in [TokenIds -> [user : Users \cup {NoUser}, uses : Nat,
                                  st : {"none", "valid", "used", "gone"}]]
      /\ \A z \in TokenIds : /\ token'[z].uses = token[z].uses /\ token'[z].user = token[z].user
                             /\ token'[z].st = "valid" => token[z].st = "valid"
                             /\ token[z].st # "none" => token'[z].st # "none"
      /\ token'[t].st # "valid"
  BY <1>1, <1>5 DEF AccountsInv, AccountsShape
<1>9. AccountsShape'
  BY <1>1, <1>7, <1>8 DEF AccountsInv, AccountsShape
<1>10. AdminsKept
  BY <1>1, <1>6, <1>7 DEF AdminsKept, Changing
<1>11. SessionsKept
  BY <1>1, <1>3, <1>6, <1>7 DEF SessionsKept, Open, RevokesSoon, LateEdit
<1>12. TokensSound'
  <2>1. SUFFICES ASSUME NEW z \in TokenIds \ shared'
                 PROVE  TokenSound(z)'
    BY DEF TokensSound
  <2>2. TokenSound(z)
    BY <1>1 DEF AccountsInv, TokensSound
  <2>3. \A q \in Requests : Resets(q, z)' <=> Resets(q, z)
    BY <1>4, <1>6, <1>7 DEF Resets
  <2>4. token'[z].uses <= 1 /\ \A p, q \in Requests : Resets(p, z)' /\ Resets(q, z)' => p = q
    BY <1>8, <2>2, <2>3 DEF TokenSound
  <2>5. ASSUME NEW q \in Requests, Resets(q, z)'
        PROVE  /\ token'[z].st # "none"
               /\ request'[q].pc = "password" => token'[z].uses = 0
               /\ request'[q].pc = "purge" => token'[z].st # "valid"
    <3>1. CASE q = r
      <4>1. z = t
        BY <1>6, <1>7, <2>5, <3>1 DEF Resets
      <4>2. token[z].st # "none"
        BY <2>2, <2>3, <2>5 DEF TokenSound
      <4>3. QED
        BY <1>6, <1>7, <1>8, <3>1, <4>1, <4>2
    <3>2. CASE q # r
      BY <1>7, <1>8, <2>2, <2>3, <2>5, <3>2 DEF TokenSound
    <3>3. QED
      BY <3>1, <3>2
  <2>6. ASSUME token'[z].st = "valid", token'[z].uses # 0
        PROVE  \E q \in Requests : Resets(q, z)' /\ request'[q].pc \in {"revoke", "consume"}
    <3>1. z # t /\ token[z].st = "valid" /\ token[z].uses # 0
      BY <1>8, <2>6
    <3>2. PICK q \in Requests : Resets(q, z) /\ request[q].pc \in {"revoke", "consume"}
      BY <2>2, <3>1 DEF TokenSound
    <3>3. q # r
      BY <3>1, <3>2 DEF Resets
    <3>4. request'[q] = request[q]
      BY <1>7, <3>3
    <3>5. QED
      BY <2>3, <3>2, <3>4
  <2>7. QED
    BY <2>4, <2>5, <2>6 DEF TokenSound
<1>13. QED
  BY <1>9, <1>10, <1>11, <1>12, AdminsFrame, SessionsFrame DEF AccountsInv

\* The session a login opens is current unless something overtook the login,
\* and counts as raced while the account is being changed.
LEMMA CreateSessionStep ==
  ASSUME AccountsInv, NEW r \in Requests, CreateSession(r)
  PROVE  AccountsInv'
<1> DEFINE u == request[r].user
           new == [user |-> u, pw |-> request[r].pw, live |-> TRUE, raced |-> request[r].raced \/ Revokes(u)]
<1>1. PICK s \in SessionIds : session' = [session EXCEPT ![s] = new]
  BY DEF CreateSession
<1>2. /\ At(r, "session") /\ Finish(r) /\ UNCHANGED <<account, token, orphaned, shared, adminRace>>
  BY DEF CreateSession, history_
<1>3. /\ request[r] \in RequestStates /\ request[r] # NoRequest /\ request[r].pc = "session" /\ u \in Users
  BY <1>2, StepKind DEF AccountsInv
<1>4. request[r].op = "login" /\ request[r] \in LoginReqs
  BY <1>3, RequestSteps, RequestKinds
<1>5. request[r].pw \in 1..MaxPassword /\ request[r].raced \in BOOLEAN
  BY <1>4 DEF LoginReqs
<1>6. Revokes(u) \in BOOLEAN
  BY DEF Revokes
<1>7. new \in [user : Users \cup {NoUser}, pw : 0..MaxPassword, live : BOOLEAN, raced : BOOLEAN]
  BY <1>3, <1>5, <1>6
<1>8. /\ new.user = u /\ new.pw = request[r].pw /\ new.live = TRUE
      /\ new.raced = (request[r].raced \/ Revokes(u))
  OBVIOUS
<1> HIDE DEF new
<1>9. /\ session' \in [SessionIds -> [user : Users \cup {NoUser}, pw : 0..MaxPassword,
                                      live : BOOLEAN, raced : BOOLEAN]]
      /\ session'[s] = new /\ \A z \in SessionIds : z # s => session'[z] = session[z]
  BY <1>1, <1>7 DEF AccountsInv, AccountsShape
<1>10. /\ request' \in [Requests -> RequestStates] /\ request'[r] = NoRequest
       /\ \A q \in Requests : q # r => request'[q] = request[q]
  BY <1>2, OneRequestMoves, KindsAreStates DEF Finish, AccountsInv
<1>11. AccountsShape'
  <2>1. \A z \in SessionIds : session'[z].live => session'[z].user \in Users
    BY <1>3, <1>8, <1>9 DEF AccountsInv, AccountsShape
  <2>2. QED
    BY <1>2, <1>9, <1>10, <2>1 DEF AccountsInv, AccountsShape
<1>12. AdminsKept
  BY <1>2, <1>10, NoOp DEF AdminsKept, Changing
<1>13. TokensKept
  BY <1>2, <1>4, <1>10, NoOp DEF TokensKept
<1>14. SessionsSound'
  <2>1. LoginsUpToDate'
    BY <1>2, <1>10, NoOp DEF AccountsInv, SessionsSound, LoginsUpToDate
  <2>2. \A q \in Requests, v \in Users : RevokesSoon(q, v) => request'[q] = request[q]
    BY <1>3, <1>10 DEF RevokesSoon
  <2>3. \A q \in Requests : LateEdit(q)' <=> LateEdit(q)
    BY <1>4, <1>10, NoOp DEF LateEdit
  <2>4. Open(s)' => ~request[r].raced /\ ~Revokes(u)
    BY <1>8, <1>9 DEF Open
  <2>5. StaleRevoked'
    <3>1. SUFFICES ASSUME NEW z \in SessionIds, Open(z)', session'[z].user \notin orphaned',
                          ~UpToDate(z)'
                   PROVE  \E q \in Requests : RevokesSoon(q, session[z].user)'
      BY DEF StaleRevoked
    <3>2. CASE z = s
      BY <1>2, <1>4, <1>8, <1>9, <2>4, <3>1, <3>2 DEF AccountsInv, SessionsSound, LoginsUpToDate, UpToDate
    <3>3. CASE z # s
      <4>1. /\ session'[z] = session[z] /\ Open(z) /\ ~UpToDate(z) /\ session[z].user \notin orphaned
            /\ session[z].user \in Users
        BY <1>2, <1>9, <3>1, <3>3 DEF Open, UpToDate, AccountsInv, AccountsShape
      <4>2. PICK q \in Requests : RevokesSoon(q, session[z].user)
        BY <4>1 DEF AccountsInv, SessionsSound, StaleRevoked
      <4>3. request'[q] = request[q]
        BY <2>2, <4>1, <4>2
      <4>4. RevokesSoon(q, session[z].user)'
        BY <4>1, <4>2, <4>3 DEF RevokesSoon
      <4>5. QED
        BY <4>4
    <3>4. QED
      BY <3>2, <3>3
  <2>6. EditsHaveRevoked'
    <3>1. SUFFICES ASSUME NEW q \in Requests, NEW z \in SessionIds, LateEdit(q)', Open(z)'
                   PROVE  session'[z].user # request'[q].user
      BY DEF EditsHaveRevoked
    <3>2. LateEdit(q) /\ request'[q] = request[q]
      BY <1>4, <1>10, <2>3, <3>1 DEF LateEdit
    <3>3. CASE z = s
      <4>1. session'[z].user = u /\ ~Revokes(u)
        BY <1>8, <1>9, <2>4, <3>1, <3>3
      <4>2. request[q].op \in Revoking
        BY <3>2 DEF LateEdit, Revoking
      <4>3. QED
        BY <3>2, <4>1, <4>2 DEF Revokes, InFlight
    <3>4. CASE z # s
      BY <1>9, <3>1, <3>2, <3>4 DEF Open, AccountsInv, SessionsSound, EditsHaveRevoked
    <3>5. QED
      BY <3>3, <3>4
  <2>7. QED
    BY <2>1, <2>5, <2>6 DEF SessionsSound
<1>15. QED
  BY <1>11, <1>12, <1>13, <1>14, AdminsFrame, TokensFrame DEF AccountsInv

\* An administrator that begins a change is safe himself, or it is a race.
LEMMA BeginAdminStep ==
  ASSUME AccountsInv, NEW r \in Requests, NEW s \in SessionIds, NEW req \in RequestStates,
         req.op \in Changing, req.pc \in {"active", "role"}, BeginAdmin(r, s, req)
  PROVE  AccountsInv'
<1> DEFINE a == session[s].user
<1>1. /\ session[s].live /\ account[a].role = "admin" /\ a # req.user /\ request[r] = NoRequest
      /\ request' = [request EXCEPT ![r] = req]
      /\ UNCHANGED <<account, session, token, orphaned, shared>>
      /\ ~adminRace' => ~adminRace /\ account[a].active
                        /\ \A q \in InFlight(Revoking) : request[q].user # a
  BY DEF BeginAdmin, Begin, _load_user
<1>2. a \in Users
  BY <1>1 DEF AccountsInv, AccountsShape
<1>3. /\ request' \in [Requests -> RequestStates] /\ request'[r] = req /\ request[r].op = "none"
      /\ \A q \in Requests : q # r => request'[q] = request[q]
  BY <1>1, OneRequestMoves, NoOp DEF AccountsInv
<1>4. AccountsShape'
  BY <1>1, <1>3 DEF AccountsInv, AccountsShape
<1>5. TokensKept
  BY <1>1, <1>3 DEF TokensKept, Changing
<1>6. SessionsKept
  BY <1>1, <1>3 DEF SessionsKept, Open, RevokesSoon, LateEdit, Changing
<1>7. AdminsSound'
  <2>1. SUFFICES ASSUME ~adminRace'
                 PROVE  SafeAdmin(a)'
    BY <1>1, <1>2 DEF AdminsSound
  <2>2. account'[a].active /\ account'[a].role = "admin"
    BY <1>1, <2>1
  <2>3. ASSUME NEW q \in Requests, request'[q].op \in Changing
        PROVE  request'[q].user # a
    <3>1. CASE q = r
      BY <1>1, <1>3, <3>1
    <3>2. CASE q # r
      <4>1. q \in InFlight(Revoking)
        BY <1>3, <2>3, <3>2 DEF InFlight, Revoking, Changing
      <4>2. QED
        BY <1>1, <1>3, <2>1, <3>2, <4>1
    <3>3. QED
      BY <3>1, <3>2
  <2>4. QED
    BY <1>1, <2>2, <2>3 DEF SafeAdmin
<1>8. QED
  BY <1>4, <1>5, <1>6, <1>7, TokensFrame, SessionsFrame DEF AccountsInv

LEMMA AdminBegins ==
  ASSUME AccountsInv, NEW r \in Requests, NEW s \in SessionIds, NEW u \in Users,
         \/ toggle_active(r, s, u)
         \/ \E role \in Roles : change_role(r, s, u, role)
         \/ \E form \in Forms : edit(r, s, u, form)
  PROVE  AccountsInv'
<1>1. CASE toggle_active(r, s, u)
  <2> DEFINE req == [op |-> "toggle", pc |-> "active", user |-> u, active |-> ~account[u].active]
  <2>1. req \in ToggleReqs /\ req.op \in Changing /\ req.pc \in {"active", "role"}
    BY DEF ToggleReqs, Changing
  <2>2. BeginAdmin(r, s, req)
    BY <1>1 DEF toggle_active
  <2> HIDE DEF req
  <2>3. QED
    BY <2>1, <2>2, BeginAdminStep, KindsAreStates
<1>2. ASSUME NEW role \in Roles, change_role(r, s, u, role)
      PROVE  AccountsInv'
  <2> DEFINE req == [op |-> "role", pc |-> "role", user |-> u, role |-> role]
  <2>1. req \in RoleReqs /\ req.op \in Changing /\ req.pc \in {"active", "role"}
    BY DEF RoleReqs, Changing
  <2>2. BeginAdmin(r, s, req)
    BY <1>2 DEF change_role
  <2> HIDE DEF req
  <2>3. QED
    BY <2>1, <2>2, BeginAdminStep, KindsAreStates
<1>3. ASSUME NEW form \in Forms, edit(r, s, u, form)
      PROVE  AccountsInv'
  <2> DEFINE req == [op |-> "edit", pc |-> "role", user |-> u, role |-> form.role,
                     active |-> form.active, password |-> form.password, manager |-> form.manager]
  <2>1. /\ form.role \in Roles /\ form.active \in BOOLEAN /\ form.password \in BOOLEAN
        /\ form.manager \in Users \cup {NoUser}
    BY AccountsAssumption
  <2>2. req \in EditReqs /\ req.op \in Changing /\ req.pc \in {"active", "role"}
    BY <2>1 DEF EditReqs, Changing
  <2>3. BeginAdmin(r, s, req)
    BY <1>3 DEF edit
  <2> HIDE DEF req
  <2>4. QED
    BY <2>2, <2>3, BeginAdminStep, KindsAreStates
<1>4. QED
  BY <1>1, <1>2, <1>3

\* A change of an account that somebody other than the target survives.
LEMMA AdminSurvives ==
  ASSUME AdminsSound, NEW r \in Requests, request[r].op \in Changing, adminRace' = adminRace,
         \A u \in Users : u # request[r].user => account'[u] = account[u],
         \A q \in Requests : request'[q].op \in Changing =>
           request[q].op \in Changing /\ request'[q].user = request[q].user
  PROVE  AdminsSound'
<1>1. SUFFICES ASSUME ~adminRace'
               PROVE  \E u \in Users : SafeAdmin(u)'
  BY DEF AdminsSound
<1>2. PICK u \in Users : SafeAdmin(u)
  BY <1>1 DEF AdminsSound
<1>3. SafeAdmin(u)'
  BY <1>2 DEF SafeAdmin
<1>4. QED
  BY <1>3

LEMMA SetRoleStep ==
  ASSUME AccountsInv, NEW r \in Requests, SetRole(r)
  PROVE  AccountsInv'
<1> DEFINE u    == request[r].user
           pc   == IF request[r].op = "edit" THEN "active" ELSE "revoke"
           next == [request[r] EXCEPT !.pc = pc]
<1>1. /\ At(r, "role") /\ UNCHANGED <<session, token, orphaned, shared, adminRace>>
      /\ account' = [account EXCEPT ![u].role = request[r].role]
  BY DEF SetRole, history_
<1>2. request' = [request EXCEPT ![r] = next]
  BY DEF SetRole, Goto, AccountsInv, AccountsShape
<1>3. /\ request[r] \in RequestStates /\ request[r] # NoRequest /\ request[r].pc = "role" /\ u \in Users
  BY <1>1, StepKind DEF AccountsInv
<1>4. \/ request[r].op = "role" /\ request[r] \in RoleReqs
      \/ request[r].op = "edit" /\ request[r] \in EditReqs
  BY <1>3, RequestSteps, RequestKinds
<1>5. request[r].role \in Roles
  BY <1>4 DEF RoleReqs, EditReqs
<1>6. /\ next \in RequestStates /\ next.op = request[r].op /\ next.user = u
      /\ next.pc \in {"active", "revoke"}
  <2>1. CASE request[r].op = "role" /\ request[r] \in RoleReqs
    BY <2>1, RequestGoesOn, KindsAreStates
  <2>2. CASE request[r].op = "edit" /\ request[r] \in EditReqs
    BY <2>2, RequestGoesOn, KindsAreStates
  <2>3. QED
    BY <1>4, <2>1, <2>2
<1> HIDE DEF next
<1>7. /\ request' \in [Requests -> RequestStates] /\ request'[r] = next
      /\ \A q \in Requests : q # r => request'[q] = request[q]
  BY <1>2, <1>6, OneRequestMoves DEF AccountsInv
<1>8. /\ account' \in [Users -> [pw : 1..MaxPassword, active : BOOLEAN, role : Roles,
                                 mgr : Users \cup {NoUser}]]
      /\ \A v \in Users : account'[v].active = account[v].active /\ account'[v].pw = account[v].pw
      /\ \A v \in Users : v # u => account'[v] = account[v]
  BY <1>1, <1>3, <1>5 DEF AccountsInv, AccountsShape
<1>9. AccountsShape'
  BY <1>1, <1>7, <1>8 DEF AccountsInv, AccountsShape
<1>10. TokensKept
  BY <1>1, <1>4, <1>6, <1>7 DEF TokensKept
<1>11. SessionsKept
  BY <1>1, <1>3, <1>4, <1>6, <1>7, <1>8 DEF SessionsKept, Open, RevokesSoon, LateEdit
<1>12. AdminsSound'
  <2>1. request[r].op \in Changing
    BY <1>4 DEF Changing
  <2>2. \A q \in Requests : request'[q].op \in Changing =>
          request[q].op \in Changing /\ request'[q].user = request[q].user
    BY <1>6, <1>7, <2>1
  <2>3. QED
    BY <1>1, <1>8, <2>1, <2>2, AdminSurvives DEF AccountsInv
<1>13. QED
  BY <1>9, <1>10, <1>11, <1>12, TokensFrame, SessionsFrame DEF AccountsInv

\* A step that changes an account marks the logins that have read it.
LEMMA Overtaken ==
  ASSUME AccountsShape, NEW r \in Requests, NEW next \in RequestStates,
         request[r].op # "login", request' = Overtake(r, next)
  PROVE  /\ request' \in [Requests -> RequestStates] /\ request'[r] = next
         /\ \A q \in Requests : q # r =>
              \/ request'[q] = request[q] /\ (request[q].op = "login" => request[q].user # request[r].user)
              \/ /\ request[q].op = "login" /\ request'[q].op = "login" /\ request'[q].raced
                 /\ request'[q].user = request[q].user /\ request'[q].pc = "session"
<1>1. ASSUME NEW q \in Requests
      PROVE  /\ request'[q] \in RequestStates
             /\ q = r => request'[q] = next
             /\ q # r =>
                  \/ request'[q] = request[q] /\ (request[q].op = "login" => request[q].user # request[r].user)
                  \/ /\ request[q].op = "login" /\ request'[q].op = "login" /\ request'[q].raced
                     /\ request'[q].user = request[q].user /\ request'[q].pc = "session"
  <2>1. request[q] \in RequestStates
    BY DEF AccountsShape
  <2>2. CASE request[q].op = "login" /\ request[q].user = request[r].user
    <3>1. request'[q] = [request[q] EXCEPT !.raced = TRUE]
      BY <2>2 DEF Overtake
    <3>2. request[q] \in LoginReqs
      BY <2>1, <2>2, RequestKinds
    <3>3. request'[q] \in LoginReqs
      BY <3>1, <3>2 DEF LoginReqs
    <3>4. request'[q].raced = TRUE /\ request'[q].user = request[q].user
      BY <3>1, <3>2 DEF LoginReqs
    <3>5. request'[q].op = "login" /\ request'[q].pc = "session"
      BY <3>3 DEF LoginReqs
    <3>6. QED
      BY <2>2, <3>3, <3>4, <3>5, KindsAreStates
  <2>3. CASE ~(request[q].op = "login" /\ request[q].user = request[r].user)
    BY <2>1, <2>3 DEF Overtake
  <2>4. QED
    BY <2>2, <2>3
<1>2. request' = [q \in Requests |-> request'[q]]
  BY DEF Overtake
<1>3. request' \in [Requests -> RequestStates]
  BY <1>1, <1>2
<1>4. QED
  BY <1>1, <1>3

\* A change of a password or of is_active leaves only sessions that are about
\* to be revoked, or none.
LEMMA ChangeIsRevoked ==
  ASSUME AccountsShape, AccountsShape', SessionsSound, NEW r \in Requests, NEW next \in RequestStates,
         request[r].op \in Revoking, request[r].pc # "revoke", request' = Overtake(r, next),
         next # NoRequest, next.user = request[r].user, next.op = request[r].op,
         next.pc = "revoke" \/ LateEdit(r),
         \A v \in Users : v # request[r].user => account'[v] = account[v],
         UNCHANGED <<session, orphaned>>
  PROVE  SessionsSound'
<1> DEFINE u == request[r].user
<1>1. request[r].op # "login" /\ next.op # "none"
  BY DEF Revoking
<1>2. /\ request'[r] = next
      /\ \A q \in Requests : q # r =>
           \/ request'[q] = request[q] /\ (request[q].op = "login" => request[q].user # u)
           \/ /\ request[q].op = "login" /\ request'[q].op = "login" /\ request'[q].raced
              /\ request'[q].user = request[q].user /\ request'[q].pc = "session"
  BY <1>1, Overtaken
<1>3. LoginsUpToDate'
  <2>1. SUFFICES ASSUME NEW q \in Requests, request'[q].op = "login", ~request'[q].raced
                 PROVE  /\ account'[request'[q].user].active
                        /\ request'[q].pw = account'[request'[q].user].pw
    BY DEF LoginsUpToDate
  <2>2. q # r /\ request'[q] = request[q] /\ request[q].user # u
    BY <1>1, <1>2, <2>1
  <2>3. request[q].user \in Users
    BY <2>1, <2>2, RequestUsers
  <2>4. QED
    BY <2>1, <2>2, <2>3 DEF SessionsSound, LoginsUpToDate
<1>4. StaleRevoked'
  <2>1. SUFFICES ASSUME NEW z \in SessionIds, Open(z)', session'[z].user \notin orphaned',
                        ~UpToDate(z)'
                 PROVE  \E q \in Requests : RevokesSoon(q, session[z].user)'
    BY DEF StaleRevoked
  <2>2. Open(z) /\ session[z].user \in Users /\ session[z].user \notin orphaned
    BY <2>1 DEF Open, AccountsShape
  <2>3. CASE session[z].user = u
    <3>1. next.pc = "revoke"
      BY <2>2, <2>3 DEF SessionsSound, EditsHaveRevoked
    <3>2. RevokesSoon(r, session[z].user)'
      BY <1>1, <1>2, <2>3, <3>1 DEF RevokesSoon
    <3>3. QED
      BY <3>2
  <2>4. CASE session[z].user # u
    <3>1. ~UpToDate(z)
      BY <2>1, <2>2, <2>4 DEF UpToDate
    <3>2. PICK q \in Requests : RevokesSoon(q, session[z].user)
      BY <2>2, <3>1 DEF SessionsSound, StaleRevoked
    <3>3. q # r /\ request[q].op # "login"
      <4>1. request[q].op # "none" /\ request[q].pc = "revoke"
        BY <3>2 DEF RevokesSoon
      <4>2. request[q] \in RequestStates /\ request[q] # NoRequest
        BY <4>1, RequestUsers
      <4>3. QED
        BY <2>4, <3>2, <4>1, <4>2, RequestSteps DEF RevokesSoon
    <3>4. request'[q] = request[q]
      BY <1>2, <3>3
    <3>5. RevokesSoon(q, session[z].user)'
      BY <3>2, <3>4 DEF RevokesSoon
    <3>6. QED
      BY <3>5
  <2>5. QED
    BY <2>3, <2>4
<1>5. EditsHaveRevoked'
  <2>1. SUFFICES ASSUME NEW q \in Requests, NEW z \in SessionIds, LateEdit(q)', Open(z)'
                 PROVE  session'[z].user # request'[q].user
    BY DEF EditsHaveRevoked
  <2>2. Open(z)
    BY <2>1 DEF Open
  <2>3. LateEdit(q) /\ request'[q].user = request[q].user
    <3>1. CASE q = r
      BY <1>2, <2>1, <3>1 DEF LateEdit
    <3>2. CASE q # r
      BY <1>2, <2>1, <3>2 DEF LateEdit
    <3>3. QED
      BY <3>1, <3>2
  <2>4. QED
    BY <2>2, <2>3 DEF SessionsSound, EditsHaveRevoked
<1>6. QED
  BY <1>3, <1>4, <1>5 DEF SessionsSound

Account == [pw : 1..MaxPassword, active : BOOLEAN, role : Roles, mgr : Users \cup {NoUser}]

\* The next password changes nothing else of an account.
LEMMA PasswordRaised ==
  ASSUME account \in [Users -> Account], NEW u \in Users, account[u].pw < MaxPassword,
         account' = [account EXCEPT ![u].pw = @ + 1]
  PROVE  /\ account' \in [Users -> Account]
         /\ \A v \in Users : v # u => account'[v] = account[v]
         /\ \A v \in Users : account'[v].active = account[v].active /\ account'[v].role = account[v].role
<1>1. account[u] \in Account
  OBVIOUS
<1>2. account[u].pw + 1 \in 1..MaxPassword
  BY <1>1, AccountsAssumption DEF Account
<1> DEFINE next == [account[u] EXCEPT !.pw = account[u].pw + 1]
<1>3. next \in Account /\ next.active = account[u].active /\ next.role = account[u].role
  BY <1>1, <1>2 DEF Account
<1>4. account' = [account EXCEPT ![u] = next]
  OBVIOUS
<1> HIDE DEF next
<1>5. QED
  BY <1>3, <1>4

LEMMA ActiveSet ==
  ASSUME account \in [Users -> Account], NEW u \in Users, NEW x \in BOOLEAN,
         account' = [account EXCEPT ![u].active = x]
  PROVE  /\ account' \in [Users -> Account]
         /\ \A v \in Users : v # u => account'[v] = account[v]
<1> DEFINE next == [account[u] EXCEPT !.active = x]
<1>1. next \in Account
  BY DEF Account
<1>2. account' = [account EXCEPT ![u] = next]
  OBVIOUS
<1> HIDE DEF next
<1>3. QED
  BY <1>1, <1>2

LEMMA SetActiveStep ==
  ASSUME AccountsInv, NEW r \in Requests, SetActive(r)
  PROVE  AccountsInv'
<1> DEFINE u    == request[r].user
           next == [request[r] EXCEPT !.pc = "revoke"]
<1>1. /\ At(r, "active") /\ UNCHANGED <<session, token, orphaned, shared, adminRace>>
      /\ account' = [account EXCEPT ![u].active = request[r].active]
      /\ request' = Overtake(r, next)
  BY DEF SetActive, history_
<1>2. /\ request[r] \in RequestStates /\ request[r] # NoRequest /\ request[r].pc = "active" /\ u \in Users
  BY <1>1, StepKind DEF AccountsInv
<1>3. \/ request[r].op = "toggle" /\ request[r] \in ToggleReqs
      \/ request[r].op = "edit" /\ request[r] \in EditReqs
  BY <1>2, RequestSteps, RequestKinds
<1>4. request[r].active \in BOOLEAN
  BY <1>3 DEF ToggleReqs, EditReqs
<1>5. /\ next \in RequestStates /\ next.op = request[r].op /\ next.user = u /\ next.pc = "revoke"
  <2>1. CASE request[r].op = "toggle" /\ request[r] \in ToggleReqs
    BY <2>1, RequestGoesOn, KindsAreStates
  <2>2. CASE request[r].op = "edit" /\ request[r] \in EditReqs
    BY <2>2, RequestGoesOn, KindsAreStates
  <2>3. QED
    BY <1>3, <2>1, <2>2
<1> HIDE DEF next
<1>6. next # NoRequest
  BY <1>3, <1>5, NoOp
<1>7. /\ request' \in [Requests -> RequestStates] /\ request'[r] = next
      /\ \A q \in Requests : q # r =>
           \/ request'[q] = request[q]
           \/ request[q].op = "login" /\ request'[q].op = "login"
  BY <1>1, <1>3, <1>5, Overtaken DEF AccountsInv
<1>8. /\ account' \in [Users -> [pw : 1..MaxPassword, active : BOOLEAN, role : Roles,
                                 mgr : Users \cup {NoUser}]]
      /\ \A v \in Users : v # u => account'[v] = account[v]
  BY <1>1, <1>2, <1>4, ActiveSet DEF AccountsInv, AccountsShape, Account
<1>9. AccountsShape'
  BY <1>1, <1>7, <1>8 DEF AccountsInv, AccountsShape
<1>10. TokensKept
  BY <1>1, <1>3, <1>5, <1>7 DEF TokensKept
<1>11. SessionsSound'
  BY <1>1, <1>2, <1>3, <1>5, <1>6, <1>8, <1>9, ChangeIsRevoked DEF AccountsInv, Revoking
<1>12. AdminsSound'
  <2>1. request[r].op \in Changing
    BY <1>3 DEF Changing
  <2>2. \A q \in Requests : request'[q].op \in Changing =>
          request[q].op \in Changing /\ request'[q].user = request[q].user
    BY <1>5, <1>7, <2>1 DEF Changing
  <2>3. QED
    BY <1>1, <1>8, <2>1, <2>2, AdminSurvives DEF AccountsInv
<1>13. QED
  BY <1>9, <1>10, <1>11, <1>12, TokensFrame DEF AccountsInv

LEMMA SetPasswordStep ==
  ASSUME AccountsInv, NEW r \in Requests, SetPassword(r)
  PROVE  AccountsInv'
<1> DEFINE u    == request[r].user
           t    == request[r].token
           pc   == IF request[r].op = "reset" THEN "revoke" ELSE "manager"
           next == [request[r] EXCEPT !.pc = pc]
<1>1. /\ At(r, "password") /\ account[u].pw < MaxPassword
      /\ UNCHANGED <<session, orphaned, shared, adminRace>>
      /\ account' = [account EXCEPT ![u].pw = @ + 1]
      /\ token' = IF request[r].op = "reset" THEN [token EXCEPT ![t].uses = @ + 1] ELSE token
      /\ request' = Overtake(r, next)
  BY DEF SetPassword, history_
<1>2. /\ request[r] \in RequestStates /\ request[r] # NoRequest /\ request[r].pc = "password" /\ u \in Users
  BY <1>1, StepKind DEF AccountsInv
<1>3. \/ request[r].op = "reset" /\ request[r] \in ResetReqs
      \/ request[r].op = "edit" /\ request[r] \in EditReqs
  BY <1>2, RequestSteps, RequestKinds
<1>4. /\ next \in RequestStates /\ next.op = request[r].op /\ next.user = u
      /\ request[r].op = "reset" => next.pc = "revoke" /\ next.token = t /\ t \in TokenIds
      /\ next.pc = "revoke" \/ LateEdit(r)
  <2>1. CASE request[r].op = "reset" /\ request[r] \in ResetReqs
    <3>1. t \in TokenIds
      BY <2>1 DEF ResetReqs
    <3>2. pc = "revoke"
      BY <2>1
    <3>3. /\ next \in ResetReqs /\ next.pc = "revoke" /\ next.op = "reset"
          /\ next.user = u /\ next.token = t
      <4>1. next = [request[r] EXCEPT !.pc = "revoke"]
        BY <3>2
      <4> HIDE DEF next, pc
      <4>2. QED
        BY <2>1, <4>1, RequestGoesOn
    <3> HIDE DEF next, pc
    <3>4. QED
      BY <2>1, <3>1, <3>3, KindsAreStates
  <2>2. CASE request[r].op = "edit" /\ request[r] \in EditReqs
    <3>1. LateEdit(r)
      BY <1>2, <2>2 DEF LateEdit
    <3>2. pc = "manager"
      BY <2>2
    <3>3. next \in EditReqs /\ next.op = "edit" /\ next.user = u
      <4>1. next = [request[r] EXCEPT !.pc = "manager"]
        BY <3>2
      <4> HIDE DEF next, pc
      <4>2. QED
        BY <2>2, <4>1, RequestGoesOn
    <3> HIDE DEF next, pc
    <3>4. QED
      BY <2>2, <3>1, <3>3, KindsAreStates
  <2>3. QED
    BY <1>3, <2>1, <2>2
<1> HIDE DEF next
<1>a. UNCHANGED <<session, orphaned, shared, adminRace>>
  BY <1>1
<1>5. next # NoRequest
  BY <1>3, <1>4, NoOp
<1>6. /\ request' \in [Requests -> RequestStates] /\ request'[r] = next
      /\ \A q \in Requests : q # r =>
           \/ request'[q] = request[q]
           \/ request[q].op = "login" /\ request'[q].op = "login"
  BY <1>1, <1>3, <1>4, Overtaken DEF AccountsInv
<1>7. /\ account' \in [Users -> [pw : 1..MaxPassword, active : BOOLEAN, role : Roles,
                                 mgr : Users \cup {NoUser}]]
      /\ \A v \in Users : v # u => account'[v] = account[v]
      /\ \A v \in Users : account'[v].active = account[v].active /\ account'[v].role = account[v].role
  BY <1>1, <1>2, PasswordRaised DEF AccountsInv, AccountsShape, Account
<1> HIDE DEF pc
<1>8. /\ token' \in [TokenIds -> [user : Users \cup {NoUser}, uses : Nat,
                                  st : {"none", "valid", "used", "gone"}]]
      /\ \A z \in TokenIds : token'[z].user = token[z].user /\ token'[z].st = token[z].st
  <2>1. CASE request[r].op = "reset"
    BY <1>1, <1>4, <2>1 DEF AccountsInv, AccountsShape
  <2>2. CASE request[r].op # "reset"
    <3>1. token' = token
      BY <1>1, <2>2
    <3>2. QED
      BY <3>1 DEF AccountsInv, AccountsShape
  <2>3. QED
    BY <2>1, <2>2
<1>9. AccountsShape'
  BY <1>a, <1>6, <1>7, <1>8 DEF AccountsInv, AccountsShape
<1>10. SessionsSound'
  BY <1>1, <1>2, <1>3, <1>4, <1>5, <1>7, <1>9, ChangeIsRevoked DEF AccountsInv, Revoking
<1>11. AdminsKept
  BY <1>a, <1>3, <1>4, <1>6, <1>7 DEF AdminsKept, Changing
<1>12. TokensSound'
  <2>1. CASE request[r].op # "reset"
    <3>1. TokensKept
      BY <1>1, <1>3, <1>4, <1>6, <2>1 DEF TokensKept
    <3>2. QED
      BY <3>1, TokensFrame DEF AccountsInv
  <2>2. CASE request[r].op = "reset"
    <3>1. SUFFICES ASSUME NEW z \in TokenIds \ shared'
                   PROVE  TokenSound(z)'
      BY DEF TokensSound
    <3>2. TokenSound(z)
      BY <1>1 DEF AccountsInv, TokensSound
    <3>3. /\ \A q \in Requests : Resets(q, z)' <=> Resets(q, z)
          /\ \A q \in Requests : Resets(q, z) /\ q # r => request'[q] = request[q]
      BY <1>4, <1>6, <2>2 DEF Resets
    <3>4. CASE z # t
      <4>1. token'[z] = token[z]
        BY <1>1, <1>4, <2>2, <3>4 DEF AccountsInv, AccountsShape
      <4>2. ~Resets(r, z)
        BY <3>4 DEF Resets
      <4>3. \A q \in Requests : Resets(q, z) => request'[q] = request[q]
        BY <3>3, <4>2
      <4>4. QED
        BY <3>2, <3>3, <4>1, <4>3 DEF TokenSound
    <3>5. CASE z = t
      <4>1. Resets(r, t) /\ token[t].uses = 0 /\ token[t].st # "none"
        BY <1>2, <2>2, <3>2, <3>5 DEF TokenSound, Resets
      <4>2. token'[t].uses = 1
        BY <1>1, <1>4, <2>2, <4>1 DEF AccountsInv, AccountsShape
      <4>3. token'[z].uses = 1 /\ token'[z].st = token[z].st /\ token[z].st # "none" /\ Resets(r, z)
        BY <1>8, <3>5, <4>1, <4>2
      <4>4. \A q \in Requests : Resets(q, z)' => q = r
        BY <3>2, <3>3, <4>3 DEF TokenSound
      <4>5. Resets(r, z)' /\ request'[r].pc = "revoke"
        BY <1>4, <1>6, <2>2, <3>3, <4>3
      <4>6. QED
        BY <4>3, <4>4, <4>5 DEF TokenSound
    <3>6. QED
      BY <3>4, <3>5
  <2>3. QED
    BY <2>1, <2>2
<1>13. QED
  BY <1>9, <1>10, <1>11, <1>12, AdminsFrame DEF AccountsInv

LEMMA RevokeStep ==
  ASSUME AccountsInv, NEW r \in Requests, RevokeSessions(r)
  PROVE  AccountsInv'
<1> DEFINE u    == request[r].user
           next == IF AfterRevoke(r) = "end" THEN NoRequest ELSE [request[r] EXCEPT !.pc = AfterRevoke(r)]
<1>1. /\ At(r, "revoke") /\ UNCHANGED <<account, token, shared, adminRace>>
      /\ session' = [s \in SessionIds |->
           IF session[s].user = u THEN [session[s] EXCEPT !.live = FALSE] ELSE session[s]]
      /\ orphaned' = orphaned \ {u} /\ request' = Overtake(r, next)
  BY DEF RevokeSessions
<1>2. /\ request[r] \in RequestStates /\ request[r] # NoRequest /\ request[r].pc = "revoke" /\ u \in Users
  BY <1>1, StepKind DEF AccountsInv
<1>3. \/ request[r].op = "reset" /\ request[r] \in ResetReqs
      \/ request[r].op = "edit" /\ request[r] \in EditReqs
      \/ request[r].op \in {"toggle", "role"}
  BY <1>2, RequestSteps, RequestKinds
<1>4. /\ next \in RequestStates
      /\ \/ next = NoRequest /\ request[r].op # "reset"
         \/ next.op = "edit" /\ request[r].op = "edit" /\ next.user = u
         \/ /\ next.op = "reset" /\ request[r].op = "reset" /\ next.user = u
            /\ next.pc = "consume" /\ next.token = request[r].token
  <2>1. CASE request[r].op = "reset" /\ request[r] \in ResetReqs
    <3>1. AfterRevoke(r) = "consume"
      BY <2>1 DEF AfterRevoke
    <3>2. next = [request[r] EXCEPT !.pc = "consume"]
      BY <3>1
    <3> HIDE DEF next
    <3>3. /\ next \in ResetReqs /\ next.pc = "consume" /\ next.op = "reset" /\ next.user = u
          /\ next.token = request[r].token
      BY <2>1, <3>2, RequestGoesOn
    <3>4. QED
      BY <2>1, <3>3, KindsAreStates
  <2>2. CASE request[r].op = "edit" /\ request[r] \in EditReqs
    <3>1. AfterRevoke(r) \in {"password", "manager"}
      BY <2>2 DEF AfterRevoke
    <3>2. next = [request[r] EXCEPT !.pc = AfterRevoke(r)]
      BY <3>1
    <3>3. QED
      BY <2>2, <3>1, <3>2, RequestGoesOn, KindsAreStates
  <2>3. CASE request[r].op \in {"toggle", "role"}
    <3>1. AfterRevoke(r) = "end"
      BY <2>3 DEF AfterRevoke
    <3>2. next = NoRequest
      BY <3>1
    <3>3. QED
      BY <2>3, <3>2, KindsAreStates
  <2>4. QED
    BY <1>3, <2>1, <2>2, <2>3
<1> HIDE DEF next
<1>5. /\ request' \in [Requests -> RequestStates] /\ request'[r] = next
      /\ \A q \in Requests : q # r =>
           \/ request'[q] = request[q]
           \/ request[q].op = "login" /\ request'[q].op = "login" /\ request'[q].raced
  BY <1>1, <1>3, <1>4, Overtaken DEF AccountsInv
<1>6. ASSUME NEW s \in SessionIds
      PROVE  /\ session'[s] \in [user : Users \cup {NoUser}, pw : 0..MaxPassword,
                                 live : BOOLEAN, raced : BOOLEAN]
             /\ session'[s].live => session'[s] = session[s] /\ session[s].user # u
  <2>1. session[s] \in [user : Users \cup {NoUser}, pw : 0..MaxPassword, live : BOOLEAN, raced : BOOLEAN]
    BY DEF AccountsInv, AccountsShape
  <2>2. CASE session[s].user = u
    BY <1>1, <2>1, <2>2
  <2>3. CASE session[s].user # u
    BY <1>1, <2>1, <2>3
  <2>4. QED
    BY <2>2, <2>3
<1>7. session' = [s \in SessionIds |-> session'[s]]
  BY <1>1
<1>8. AccountsShape'
  BY <1>1, <1>5, <1>6, <1>7 DEF AccountsInv, AccountsShape
<1>9. TokensKept
  BY <1>1, <1>4, <1>5, NoOp DEF TokensKept
<1>10. AdminsKept
  BY <1>1, <1>4, <1>5, NoOp DEF AdminsKept, Changing
<1>11. LoginsUpToDate'
  BY <1>1, <1>4, <1>5, NoOp DEF AccountsInv, SessionsSound, LoginsUpToDate
<1>12. StaleRevoked'
  <2>1. SUFFICES ASSUME NEW z \in SessionIds, Open(z)', session'[z].user \notin orphaned',
                        ~UpToDate(z)'
                 PROVE  \E q \in Requests : RevokesSoon(q, session[z].user)'
    BY DEF StaleRevoked
  <2>2. session'[z] = session[z] /\ session[z].user # u /\ Open(z)
    BY <1>6, <2>1 DEF Open
  <2>3. ~UpToDate(z) /\ session[z].user \notin orphaned
    BY <1>1, <2>1, <2>2 DEF UpToDate
  <2>4. PICK q \in Requests : RevokesSoon(q, session[z].user)
    BY <2>2, <2>3 DEF AccountsInv, SessionsSound, StaleRevoked
  <2>5. q # r /\ request[q].op # "login"
    <3>1. request[q].op # "none" /\ request[q].pc = "revoke"
      BY <2>4 DEF RevokesSoon
    <3>2. request[q] \in RequestStates /\ request[q] # NoRequest
      BY <3>1, RequestUsers DEF AccountsInv
    <3>3. QED
      BY <2>2, <2>4, <3>1, <3>2, RequestSteps DEF RevokesSoon
  <2>6. request'[q] = request[q]
    BY <1>5, <2>5
  <2>7. RevokesSoon(q, session[z].user)'
    BY <2>2, <2>4, <2>6 DEF RevokesSoon
  <2>8. QED
    BY <2>7
<1>13. EditsHaveRevoked'
  <2>1. SUFFICES ASSUME NEW q \in Requests, NEW z \in SessionIds, LateEdit(q)', Open(z)'
                 PROVE  session'[z].user # request'[q].user
    BY DEF EditsHaveRevoked
  <2>2. session'[z] = session[z] /\ session[z].user # u /\ Open(z)
    BY <1>6, <2>1 DEF Open
  <2>3. CASE q = r
    BY <1>4, <1>5, <2>1, <2>2, <2>3, NoOp DEF LateEdit
  <2>4. CASE q # r
    <3>1. request'[q] = request[q] /\ LateEdit(q)
      BY <1>5, <2>1, <2>4 DEF LateEdit
    <3>2. QED
      BY <2>2, <3>1 DEF AccountsInv, SessionsSound, EditsHaveRevoked
  <2>5. QED
    BY <2>3, <2>4
<1>14. QED
  BY <1>8, <1>9, <1>10, <1>11, <1>12, <1>13, TokensFrame, AdminsFrame DEF AccountsInv, SessionsSound

LEMMA AccountsStep ==
  ASSUME AccountsInv, [AccountsNext]_accountVars
  PROVE  AccountsInv'
<1>1. CASE UNCHANGED accountVars
  <2>1. UNCHANGED <<account, session, token, request, orphaned, shared, adminRace>>
    BY <1>1 DEF accountVars, history_
  <2>2. AccountsShape'
    BY <2>1 DEF AccountsInv, AccountsShape
  <2>3. TokensKept /\ AdminsKept
    BY <2>1 DEF TokensKept, AdminsKept
  <2>4. SessionsKept
    BY <2>1 DEF SessionsKept, Open, RevokesSoon, LateEdit
  <2>5. QED
    BY <2>2, <2>3, <2>4, AccountsFrame
<1>2. ASSUME NEW r \in Requests, SessionStep(r)
      PROVE  AccountsInv'
  BY <1>2, CreateSessionStep, MintStep, SetPasswordStep, ConsumeStep, PurgeStep, SignInSteps,
     ResetFindStep DEF SessionStep
<1>3. ASSUME NEW r \in Requests, AdminStep(r)
      PROVE  AccountsInv'
  BY <1>3, SetRoleStep, SetActiveStep, RevokeStep, CheckManagerStep, AssignStep, AdminBegins
     DEF AdminStep
<1>4. ASSUME NEW r \in Requests, ReportStep(r)
      PROVE  AccountsInv'
  BY <1>4, ReportWrites, ReportBegins DEF ReportStep
<1>5. QED
  BY <1>1, <1>2, <1>3, <1>4, DiesStep, LogoutStep, ExpiryStep DEF AccountsNext

LEMMA AccountsStart == AccountsInit => AccountsInv
<1>1. SUFFICES ASSUME AccountsInit
               PROVE  AccountsInv
  OBVIOUS
<1> USE AccountsAssumption
<1> DEFINE SessionStates == [user : Users \cup {NoUser}, pw : 0..MaxPassword,
                             live : BOOLEAN, raced : BOOLEAN]
<1>2. /\ \A r \in Requests : request[r].op = "none"
      /\ request \in [Requests -> RequestStates]
  BY <1>1, NoOp, KindsAreStates DEF AccountsInit
<1>3. \A u \in Users : account[u].active = TRUE /\ account[u].pw = 1 /\ account[u].role = InitRole[u]
  BY <1>1 DEF AccountsInit
<1>4. account \in [Users -> [pw : 1..MaxPassword, active : BOOLEAN, role : Roles,
                             mgr : Users \cup {NoUser}]]
  <2>1. 1 \in 1..MaxPassword
    OBVIOUS
  <2>2. \A u \in Users : InitRole[u] \in Roles /\ InitManager[u] \in Users \cup {NoUser}
    OBVIOUS
  <2>3. account = [u \in Users |-> [pw |-> 1, active |-> TRUE, role |-> InitRole[u], mgr |-> InitManager[u]]]
    BY <1>1 DEF AccountsInit
  <2>4. QED
    BY <2>1, <2>2, <2>3
<1>5. /\ token \in [TokenIds -> [user : Users \cup {NoUser}, uses : Nat,
                                 st : {"none", "valid", "used", "gone"}]]
      /\ \A t \in TokenIds : token[t].st = "none" /\ token[t].uses = 0
  BY <1>1 DEF AccountsInit, NoToken
<1>6. ASSUME NEW s \in SessionIds
      PROVE  session[s] \in SessionStates /\ (session[s].live => session[s].user \in Users /\ session[s].pw = 1)
  <2>1. NoSession \in SessionStates /\ NoSession.live = FALSE
    BY DEF NoSession
  <2>2. CASE s \in DOMAIN InitSession
    <3> DEFINE new == [NoSession EXCEPT !.user = InitSession[s], !.pw = 1, !.live = TRUE]
    <3>1. session[s] = new
      BY <1>1, <2>2 DEF AccountsInit
    <3>2. InitSession[s] \in Users
      BY <2>2
    <3>3. new \in SessionStates
      <4>1. 1 \in 0..MaxPassword /\ InitSession[s] \in Users \cup {NoUser}
        BY <3>2
      <4>2. QED
        BY <2>1, <4>1
    <3>4. new.user = InitSession[s] /\ new.pw = 1
      BY <2>1
    <3> HIDE DEF new
    <3>5. QED
      BY <3>1, <3>2, <3>3, <3>4
  <2>3. CASE s \notin DOMAIN InitSession
    <3>1. session[s] = NoSession
      BY <1>1, <2>3 DEF AccountsInit
    <3>2. QED
      BY <2>1, <3>1
  <2>4. QED
    BY <2>2, <2>3
<1>7. session = [s \in SessionIds |-> session[s]]
  BY <1>1 DEF AccountsInit
<1>8. session \in [SessionIds -> SessionStates]
  BY <1>6, <1>7
<1>9. AccountsShape
  BY <1>2, <1>4, <1>5, <1>6, <1>8 DEF AccountsShape
<1>10. TokensSound
  BY <1>2, <1>5 DEF TokensSound, TokenSound, Resets
<1>11. SessionsSound
  BY <1>2, <1>3, <1>6 DEF SessionsSound, LoginsUpToDate, StaleRevoked, EditsHaveRevoked, LateEdit,
     Open, UpToDate
<1>12. AdminsSound
  <2>1. PICK u \in Users : InitRole[u] = "admin"
    OBVIOUS
  <2>2. SafeAdmin(u)
    BY <1>2, <1>3, <2>1 DEF SafeAdmin, Changing
  <2>3. QED
    BY <2>2 DEF AdminsSound
<1>13. QED
  BY <1>9, <1>10, <1>11, <1>12 DEF AccountsInv

\* The inductive invariant of the accounts.
THEOREM AccountsInvariance == AccountsSpec => []AccountsInv
<1>1. AccountsInv /\ [AccountsNext]_accountVars => AccountsInv'
  BY AccountsStep
<1>2. QED
  BY AccountsStart, <1>1, PTL DEF AccountsSpec

\* For any users, requests and sessions, a session that outlives a change of
\* password or a deactivation overlapped it, or the change stopped halfway.
THEOREM CurrentSessions == AccountsSpec => []LiveSessionsAreCurrent
<1>1. AccountsInv => LiveSessionsAreCurrent
  <2>1. SUFFICES ASSUME AccountsInv, NEW s \in SessionIds, Open(s), session[s].user \notin orphaned,
                        ~Revokes(session[s].user)
                 PROVE  UpToDate(s)
    BY DEF LiveSessionsAreCurrent, Open, UpToDate
  <2>2. ASSUME NEW r \in Requests, RevokesSoon(r, session[s].user)
        PROVE  FALSE
    <3>1. request[r].op # "none" /\ request[r].pc = "revoke" /\ request[r].user = session[s].user
      BY <2>2 DEF RevokesSoon
    <3>2. request[r] \in RequestStates /\ request[r] # NoRequest
      BY <2>1, <3>1, RequestUsers DEF AccountsInv
    <3>3. request[r].op \in Revoking
      BY <3>1, <3>2, RequestSteps DEF Revoking
    <3>4. QED
      BY <2>1, <3>1, <3>3 DEF Revokes, InFlight
  <2>3. QED
    BY <2>1, <2>2 DEF AccountsInv, SessionsSound, StaleRevoked
<1>2. QED
  BY <1>1, AccountsInvariance, PTL

\* For any requests and tokens, a reset link sets a second password only when
\* two requests had found it valid together or one stopped halfway.
THEOREM ResetLinksOnce == AccountsSpec => []TokenUsedOnce
<1>1. AccountsInv => TokenUsedOnce
  BY DEF AccountsInv, TokensSound, TokenSound, TokenUsedOnce
<1>2. QED
  BY <1>1, AccountsInvariance, PTL

\* For any users and requests, the last active administrator is not lost
\* unless administrators changed one another at the same time or one that is
\* inactive still acted.
THEOREM AdminStays == AccountsSpec => []AdminRemains
<1>1. AccountsInv => AdminRemains
  BY DEF AccountsInv, AdminsSound, SafeAdmin, AdminRemains
<1>2. QED
  BY <1>1, AccountsInvariance, PTL

-----------------------------------------------------------------------------
(* The walk up the hierarchy *)

LEMMA LeastOf ==
  ASSUME NEW T, T \subseteq Nat, T # {}
  PROVE  \E x \in T : \A y \in T : x <= y
<1>1. PICK x \in T : \A y \in T : ~(<<y, x>> \in OpToRel(<, Nat))
  BY NatLessThanWellFounded, WFMin, Zenon
<1>2. ASSUME NEW y \in T
      PROVE  x <= y
  <2>1. x \in Nat /\ y \in Nat /\ ~(y < x)
    BY <1>1 DEF OpToRel
  <2>2. QED
    BY <2>1
<1>3. QED
  BY <1>2

\* A walk of n steps in the accounts a, every step to the manager.
Walk(a, p, n) ==
  /\ p \in [0..n -> Users]
  /\ \A i \in 0..(n - 1) : a[p[i]].mgr = p[i + 1]

\* Who stands at most n steps above u.
Above(a, u, n) ==
  {x \in Users : \E k \in 1..n : \E p \in [0..k -> Users] : Walk(a, p, k) /\ p[0] = u /\ p[k] = x}

Hierarchy(a) == \A v \in Users : a[v].mgr \in Users \cup {NoUser}

LEMMA WalkOn ==
  ASSUME NEW a, NEW n \in Nat, NEW p, Walk(a, p, n), NEW x \in Users, a[p[n]].mgr = x
  PROVE  /\ [i \in 0..(n + 1) |-> IF i = n + 1 THEN x ELSE p[i]] \in [0..(n + 1) -> Users]
         /\ Walk(a, [i \in 0..(n + 1) |-> IF i = n + 1 THEN x ELSE p[i]], n + 1)
<1> DEFINE q == [i \in 0..(n + 1) |-> IF i = n + 1 THEN x ELSE p[i]]
<1>1. ASSUME NEW i \in 0..(n + 1)
      PROVE  q[i] \in Users
  <2>1. CASE i = n + 1
    BY <2>1
  <2>2. CASE i # n + 1
    <3>1. i \in 0..n
      BY <2>2
    <3>2. QED
      BY <2>2, <3>1 DEF Walk
  <2>3. QED
    BY <2>1, <2>2
<1>2. q \in [0..(n + 1) -> Users]
  BY <1>1
<1>3. ASSUME NEW i \in 0..((n + 1) - 1)
      PROVE  a[q[i]].mgr = q[i + 1]
  <2>1. i \in 0..n /\ i # n + 1 /\ i \in 0..(n + 1) /\ i + 1 \in 0..(n + 1)
    OBVIOUS
  <2>2. q[i] = p[i]
    BY <2>1
  <2>3. CASE i = n
    <3>1. q[i + 1] = x
      BY <2>1, <2>3
    <3>2. QED
      BY <2>2, <2>3, <3>1
  <2>4. CASE i # n
    <3>1. i \in 0..(n - 1) /\ i + 1 # n + 1
      BY <2>1, <2>4
    <3>2. q[i + 1] = p[i + 1]
      BY <2>1, <3>1
    <3>3. a[p[i]].mgr = p[i + 1]
      BY <3>1 DEF Walk
    <3>4. QED
      BY <2>2, <3>2, <3>3
  <2>5. QED
    BY <2>3, <2>4
<1> HIDE DEF q
<1>4. Walk(a, q, n + 1)
  BY <1>2, <1>3 DEF Walk
<1>5. QED
  BY <1>2, <1>4 DEF q

LEMMA WalkLess ==
  ASSUME NEW a, NEW n \in Nat, n > 0, NEW p, Walk(a, p, n), NEW k \in 0..n
  PROVE  /\ [i \in 0..k |-> p[i]] \in [0..k -> Users]
         /\ Walk(a, [i \in 0..k |-> p[i]], k)
<1> DEFINE q == [i \in 0..k |-> p[i]]
<1>1. q \in [0..k -> Users]
  BY DEF Walk
<1>2. ASSUME NEW i \in 0..(k - 1)
      PROVE  a[q[i]].mgr = q[i + 1]
  <2>1. i \in 0..k /\ i + 1 \in 0..k /\ i \in 0..(n - 1)
    OBVIOUS
  <2>2. q[i] = p[i] /\ q[i + 1] = p[i + 1]
    BY <2>1
  <2>3. QED
    BY <2>1, <2>2 DEF Walk
<1> HIDE DEF q
<1>3. Walk(a, q, k)
  BY <1>1, <1>2 DEF Walk
<1>4. QED
  BY <1>1, <1>3 DEF q

\* One more round of manager_chain is one more step of the walks.
LEMMA AboveStep ==
  ASSUME NEW a, Hierarchy(a), NEW u \in Users, NEW n \in Nat
  PROVE  Above(a, u, n + 1) =
           Above(a, u, n) \cup ({a[v].mgr : v \in Above(a, u, n) \cup {u}} \ {NoUser})
<1>1. Above(a, u, n) \subseteq Above(a, u, n + 1)
  <2>1. 1..n \subseteq 1..(n + 1)
    OBVIOUS
  <2>2. QED
    BY <2>1, Zenon DEF Above
<1>2. ASSUME NEW v \in Above(a, u, n) \cup {u}, a[v].mgr # NoUser
      PROVE  a[v].mgr \in Above(a, u, n + 1)
  <2>1. v \in Users /\ a[v].mgr \in Users
    BY <1>2, AccountsAssumption DEF Above, Hierarchy
  <2>2a. PICK k \in 0..n : \E p \in [0..k -> Users] : Walk(a, p, k) /\ p[0] = u /\ p[k] = v
    <3>1. CASE v = u
      <4> DEFINE q == [i \in 0..0 |-> u]
      <4>1. q \in [0..0 -> Users] /\ q[0] = u /\ 0..(0 - 1) = {} /\ 0 \in 0..n
        OBVIOUS
      <4> HIDE DEF q
      <4>2. Walk(a, q, 0)
        BY <4>1 DEF Walk
      <4>3. QED
        BY <3>1, <4>1, <4>2
    <3>2. CASE v \in Above(a, u, n)
      <4>1. PICK k \in 1..n : \E p \in [0..k -> Users] : Walk(a, p, k) /\ p[0] = u /\ p[k] = v
        BY <3>2 DEF Above
      <4>2. k \in 0..n
        OBVIOUS
      <4>3. QED
        BY <4>1, <4>2
    <3>3. QED
      BY <1>2, <3>1, <3>2
  <2>2. PICK p \in [0..k -> Users] : Walk(a, p, k) /\ p[0] = u /\ p[k] = v
    BY <2>2a
  <2> DEFINE q == [i \in 0..(k + 1) |-> IF i = k + 1 THEN a[v].mgr ELSE p[i]]
  <2>3. q \in [0..(k + 1) -> Users] /\ Walk(a, q, k + 1)
    BY <2>1, <2>2, WalkOn
  <2>4. q[0] = u /\ q[k + 1] = a[v].mgr /\ k + 1 \in 1..(n + 1)
    BY <2>2
  <2> HIDE DEF q
  <2>5. QED
    BY <2>1, <2>3, <2>4, Zenon DEF Above
<1>3. ASSUME NEW x \in Above(a, u, n + 1)
      PROVE  x \in Above(a, u, n) \/ \E v \in Above(a, u, n) \cup {u} : x = a[v].mgr /\ x # NoUser
  <2>1a. PICK k \in 1..(n + 1) : \E p \in [0..k -> Users] : Walk(a, p, k) /\ p[0] = u /\ p[k] = x
    BY <1>3 DEF Above
  <2>1. PICK p \in [0..k -> Users] : Walk(a, p, k) /\ p[0] = u /\ p[k] = x
    BY <2>1a
  <2>2. x \in Users /\ x # NoUser
    BY <1>3, AccountsAssumption DEF Above
  <2>3. k - 1 \in 0..k /\ k \in Nat /\ k > 0 /\ k - 1 \in 0..(k - 1) /\ (k - 1) + 1 = k /\ 0 \in 0..(k - 1)
    BY <2>1
  <2>4. p[k - 1] \in Users /\ a[p[k - 1]].mgr = x
    BY <2>1, <2>3 DEF Walk
  <2>5. CASE k = 1
    <3>1. p[k - 1] = u
      BY <2>1, <2>5
    <3>2. QED
      BY <2>2, <2>4, <3>1
  <2>6. CASE k # 1
    <3> DEFINE q == [i \in 0..(k - 1) |-> p[i]]
    <3>1. q \in [0..(k - 1) -> Users] /\ Walk(a, q, k - 1)
      BY <2>1, <2>3, WalkLess
    <3>2. q[0] = u /\ q[k - 1] = p[k - 1]
      BY <2>1, <2>3
    <3>3. k - 1 \in 1..n
      BY <2>1, <2>6
    <3> HIDE DEF q
    <3>4. p[k - 1] \in Above(a, u, n)
      BY <2>4, <3>1, <3>2, <3>3, Zenon DEF Above
    <3>5. QED
      BY <2>2, <2>4, <3>4
  <2>7. QED
    BY <2>5, <2>6
<1>4. QED
  BY <1>1, <1>2, <1>3

Climb(a, u) ==
  CHOOSE g : g = [n \in 0..MaxDepth |->
                    IF n = 0 THEN {}
                    ELSE g[n - 1] \cup ({a[v].mgr : v \in g[n - 1] \cup {u}} \ {NoUser})]

LEMMA ClimbIsAbove ==
  ASSUME NEW a, Hierarchy(a), NEW u \in Users
  PROVE  Climb(a, u)[MaxDepth] = Above(a, u, MaxDepth)
<1>0. ASSUME NEW k \in Nat
      PROVE  Above(a, u, k + 1) =
               Above(a, u, k) \cup ({a[v].mgr : v \in Above(a, u, k) \cup {u}} \ {NoUser})
  BY AboveStep
<1> USE AccountsAssumption
<1> DEFINE R == [n \in 0..MaxDepth |-> Above(a, u, n)]
           C == Climb(a, u)
           up(X) == X \cup ({a[v].mgr : v \in X \cup {u}} \ {NoUser})
<1>1. Above(a, u, 0) = {}
  <2>1. 1..0 = {}
    OBVIOUS
  <2>2. QED
    BY <2>1 DEF Above
<1>2. ASSUME NEW n \in 0..MaxDepth, n # 0
      PROVE  n - 1 \in 0..MaxDepth /\ Above(a, u, n) = up(Above(a, u, n - 1))
  <2>1. n - 1 \in Nat /\ (n - 1) + 1 = n /\ n - 1 \in 0..MaxDepth
    BY <1>2
  <2>2. \A k \in Nat : Above(a, u, k + 1) = up(Above(a, u, k))
    BY <1>0, Zenon
  <2> HIDE DEF up
  <2>3. Above(a, u, (n - 1) + 1) = up(Above(a, u, n - 1))
    BY <2>1, <2>2
  <2>4. QED
    BY <2>1, <2>3
<1> HIDE DEF up
<1>3. R = [n \in 0..MaxDepth |-> IF n = 0 THEN {} ELSE up(R[n - 1])]
  <2>1. ASSUME NEW n \in 0..MaxDepth
        PROVE  R[n] = IF n = 0 THEN {} ELSE up(R[n - 1])
    <3>1. CASE n = 0
      BY <1>1, <3>1
    <3>2. CASE n # 0
      <4>1. R[n] = Above(a, u, n) /\ R[n - 1] = Above(a, u, n - 1)
        BY <1>2, <3>2
      <4>2. QED
        BY <1>2, <3>2, <4>1
    <3>3. QED
      BY <3>1, <3>2
  <2>2. R = [n \in 0..MaxDepth |-> R[n]]
    OBVIOUS
  <2> HIDE DEF R
  <2>3. QED
    BY <2>1, <2>2
<1>4. C = [n \in 0..MaxDepth |-> IF n = 0 THEN {} ELSE up(C[n - 1])]
  <2> HIDE DEF R
  <2>1. \E g : g = [n \in 0..MaxDepth |-> IF n = 0 THEN {} ELSE up(g[n - 1])]
    BY <1>3
  <2>2. QED
    BY <2>1, Zenon DEF Climb, up
<1> HIDE DEF C
<1>5. \A n \in 0..MaxDepth : C[n] = R[n]
  <2> DEFINE T == {n \in 0..MaxDepth : C[n] # R[n]}
  <2>1. SUFFICES ASSUME T # {}
                 PROVE  FALSE
    OBVIOUS
  <2>2. T \subseteq Nat
    OBVIOUS
  <2>3. PICK n \in T : \A k \in T : n <= k
    BY <2>1, <2>2, LeastOf
  <2>4. n \in 0..MaxDepth /\ C[n] # R[n]
    BY <2>3
  <2>5. n # 0
    BY <1>1, <1>4, <2>4
  <2>6. n - 1 \in 0..MaxDepth /\ n - 1 \notin T
    BY <2>3, <2>4, <2>5
  <2>7. C[n - 1] = R[n - 1]
    BY <2>6
  <2>8. C[n] = up(C[n - 1])
    BY <1>4, <2>4, <2>5
  <2>9. R[n] = up(R[n - 1])
    BY <1>3, <2>4, <2>5
  <2>10. QED
    BY <2>4, <2>7, <2>8, <2>9
<1>6. QED
  BY <1>5 DEF C

LEMMA ChainIsClimb ==
  ASSUME NEW u
  PROVE  manager_chain(u) = Climb(account, u)[MaxDepth]
BY Zenon DEF manager_chain, Climb

\* A cycle of at most MaxDepth managers.
Cycle(a, p, n) == n \in 1..MaxDepth /\ Walk(a, p, n) /\ p[0] = p[n]

Acyclic(a) == \A n \in 1..MaxDepth : \A p \in [0..n -> Users] : ~Cycle(a, p, n)

LEMMA NobodyAbove ==
  ASSUME NEW a, Hierarchy(a)
  PROVE  Acyclic(a) <=> \A u \in Users : u \notin Above(a, u, MaxDepth)
<1>1. ASSUME NEW n \in 1..MaxDepth, NEW p \in [0..n -> Users], Cycle(a, p, n)
      PROVE  p[0] \in Users /\ p[0] \in Above(a, p[0], MaxDepth)
  <2>1. 0 \in 0..n
    OBVIOUS
  <2>2. p[0] \in Users
    BY <2>1
  <2>3. QED
    BY <1>1, <2>2 DEF Cycle, Above
<1>2. ASSUME NEW u \in Users, u \in Above(a, u, MaxDepth)
      PROVE  \E n \in 1..MaxDepth : \E p \in [0..n -> Users] : Cycle(a, p, n)
  BY <1>2 DEF Above, Cycle
<1>3. QED
  BY <1>1, <1>2 DEF Acyclic

\* Who is on a cycle has his manager on it.
LEMMA WellFoundedAcyclic ==
  ASSUME NEW a, \A S \in SUBSET Users : S # {} => \E v \in S : a[v].mgr \notin S
  PROVE  Acyclic(a)
<1>1. SUFFICES ASSUME NEW n \in 1..MaxDepth, NEW p \in [0..n -> Users], Cycle(a, p, n)
               PROVE  FALSE
  BY DEF Acyclic
<1> DEFINE S == {p[i] : i \in 0..(n - 1)}
<1>2. 0 \in 0..(n - 1) /\ 0..(n - 1) \subseteq 0..n
  BY AccountsAssumption
<1>3. S \in SUBSET Users /\ p[0] \in S
  BY <1>2
<1>4. PICK v \in S : a[v].mgr \notin S
  BY <1>3
<1>5. PICK i \in 0..(n - 1) : v = p[i]
  OBVIOUS
<1>6. a[v].mgr = p[i + 1]
  BY <1>1, <1>5 DEF Cycle, Walk
<1>7. i + 1 \in 0..(n - 1) \/ i + 1 = n
  OBVIOUS
<1>8. p[i + 1] \in S
  <2>1. CASE i + 1 = n
    BY <1>1, <1>3, <2>1 DEF Cycle
  <2>2. CASE i + 1 \in 0..(n - 1)
    BY <2>2
  <2>3. QED
    BY <1>7, <2>1, <2>2
<1>9. QED
  BY <1>4, <1>6, <1>8

\* An assignment that closes a cycle closes one that is a walk from the new
\* manager to the user: the walk that manager_chain looked at.
LEMMA AssignedAcyclic ==
  ASSUME NEW a, NEW b, Hierarchy(a), Acyclic(a), NEW u \in Users, NEW m \in Users, m # u,
         u \notin Above(a, m, MaxDepth),
         \A v \in Users : b[v].mgr = IF v = u THEN m ELSE a[v].mgr
  PROVE  Acyclic(b)
<1> USE AccountsAssumption
<1>1. SUFFICES ASSUME NEW n \in 1..MaxDepth, NEW p \in [0..n -> Users], Cycle(b, p, n)
               PROVE  FALSE
  BY DEF Acyclic
<1>2. Walk(b, p, n) /\ p[0] = p[n] /\ n \in Nat /\ n > 0 /\ n <= MaxDepth
  BY <1>1 DEF Cycle
<1>3. \A k \in 0..(n - 1) : b[p[k]].mgr = p[k + 1] /\ p[k] \in Users
  <2>1. 0..(n - 1) \subseteq 0..n
    BY <1>2
  <2>2. QED
    BY <1>2, <2>1 DEF Walk
<1>4. PICK i \in 0..(n - 1) : p[i] = u
  <2>1. SUFFICES ASSUME \A k \in 0..(n - 1) : p[k] # u
                 PROVE  FALSE
    OBVIOUS
  <2>2. \A k \in 0..(n - 1) : a[p[k]].mgr = p[k + 1]
    BY <1>3, <2>1
  <2>3. Cycle(a, p, n)
    BY <1>1, <1>2, <2>2 DEF Cycle, Walk
  <2>4. QED
    BY <1>1, <2>3 DEF Acyclic
\* The cycle from the manager on; it comes to u.
<1> DEFINE at(j) == IF (i + 1) + j <= n THEN (i + 1) + j ELSE ((i + 1) + j) - n
           q(j) == p[at(j)]
<1>5. \A j \in 0..(n - 1) : at(j) \in 0..n
  BY <1>2
<1>6. at(0) = i + 1 /\ (at(n - 1) = i \/ (i = 0 /\ at(n - 1) = n))
  BY <1>2
<1>7. p[i + 1] = m
  BY <1>3, <1>4
<1>8. q(0) = m /\ q(n - 1) = u
  BY <1>2, <1>4, <1>6, <1>7
<1>9. ASSUME NEW j \in 0..(n - 1), j < n - 1
      PROVE  b[q(j)].mgr = q(j + 1)
  <2>1. CASE (i + 1) + j < n
    <3>1. at(j) = (i + 1) + j /\ at(j + 1) = at(j) + 1 /\ at(j) \in 0..(n - 1)
      BY <1>2, <1>9, <2>1
    <3> HIDE DEF at
    <3>2. QED
      BY <1>3, <3>1
  <2>2. CASE (i + 1) + j = n
    <3>1. at(j) = n /\ at(j + 1) = 1 /\ 0 \in 0..(n - 1) /\ 0 + 1 = 1
      BY <1>2, <1>9, <2>2
    <3> HIDE DEF at
    <3>2. QED
      BY <1>2, <1>3, <3>1
  <2>3. CASE (i + 1) + j > n
    <3>1. at(j) = ((i + 1) + j) - n /\ at(j + 1) = at(j) + 1 /\ at(j) \in 0..(n - 1)
      BY <1>2, <1>9, <2>3
    <3> HIDE DEF at
    <3>2. QED
      BY <1>3, <3>1
  <2>4. QED
    BY <1>2, <2>1, <2>2, <2>3
<1>10. \A j \in 0..(n - 1) : q(j) \in Users
  BY <1>5
<1> HIDE DEF q
<1> DEFINE T == {j \in 0..(n - 1) : q(j) = u}
<1>11. n - 1 \in 0..(n - 1) /\ T \subseteq Nat
  BY <1>2
<1>12. PICK j \in T : \A k \in T : j <= k
  <2>1. T # {}
    BY <1>8, <1>11
  <2> HIDE DEF T
  <2>2. QED
    BY <1>11, <2>1, LeastOf
<1>13. j \in 0..(n - 1) /\ j # 0 /\ q(j) = u
  BY <1>8, <1>12
<1> DEFINE r == [k \in 0..j |-> q(k)]
<1>14. r \in [0..j -> Users] /\ r[0] = m /\ r[j] = u /\ j \in 1..MaxDepth
  <2>1. 0..j \subseteq 0..(n - 1) /\ 0 \in 0..j /\ j \in 0..j /\ j \in 1..MaxDepth
    BY <1>2, <1>13
  <2>2. QED
    BY <1>8, <1>10, <1>13, <2>1
<1>15. ASSUME NEW k \in 0..(j - 1)
       PROVE  a[r[k]].mgr = r[k + 1]
  <2>1. k \in 0..(n - 1) /\ k < n - 1 /\ k < j /\ k \in 0..j /\ k + 1 \in 0..j /\ k \in Nat /\ j \in Nat
    BY <1>2, <1>13
  <2>2. k \notin T
    BY <1>12, <2>1
  <2>3. q(k) # u /\ q(k) \in Users
    BY <1>10, <2>1, <2>2
  <2>4. b[q(k)].mgr = q(k + 1)
    BY <1>9, <2>1
  <2>5. a[q(k)].mgr = q(k + 1)
    BY <2>3, <2>4
  <2>6. r[k] = q(k) /\ r[k + 1] = q(k + 1)
    BY <2>1
  <2>7. QED
    BY <2>5, <2>6
<1> HIDE DEF r, T
<1>16. Walk(a, r, j)
  BY <1>14, <1>15 DEF Walk
<1>17. QED
  BY <1>14, <1>16 DEF Above

-----------------------------------------------------------------------------
(* Reporting lines *)

LEMMA SameManagers ==
  ASSUME NEW a, NEW b, \A v \in Users : b[v].mgr = a[v].mgr
  PROVE  /\ Acyclic(a) => Acyclic(b)
         /\ \A u \in Users : Above(b, u, MaxDepth) \subseteq Above(a, u, MaxDepth)
<1>1. ASSUME NEW n \in Nat, NEW p \in [0..n -> Users], Walk(b, p, n)
      PROVE  Walk(a, p, n)
  <2>1. ASSUME NEW i \in 0..(n - 1)
        PROVE  a[p[i]].mgr = p[i + 1]
    <3>1. p[i] \in Users
      OBVIOUS
    <3>2. b[p[i]].mgr = p[i + 1]
      BY <1>1 DEF Walk
    <3>3. QED
      BY <3>1, <3>2
  <2>2. QED
    BY <1>1, <2>1 DEF Walk
<1>2. 1..MaxDepth \subseteq Nat
  BY AccountsAssumption
<1>3. ASSUME Acyclic(a), NEW n \in 1..MaxDepth, NEW p \in [0..n -> Users], Cycle(b, p, n)
      PROVE  FALSE
  <2>1. Cycle(a, p, n)
    BY <1>1, <1>2, <1>3 DEF Cycle
  <2>2. QED
    BY <1>3, <2>1 DEF Acyclic
<1>4. ASSUME NEW u \in Users, NEW x \in Above(b, u, MaxDepth)
      PROVE  x \in Above(a, u, MaxDepth)
  <2>1. PICK k \in 1..MaxDepth : \E p \in [0..k -> Users] : Walk(b, p, k) /\ p[0] = u /\ p[k] = x
    BY <1>4 DEF Above
  <2>2. \E p \in [0..k -> Users] : Walk(a, p, k) /\ p[0] = u /\ p[k] = x
    BY <1>1, <1>2, <2>1
  <2>3. x \in Users
    BY <1>4 DEF Above
  <2>4. QED
    BY <2>1, <2>2, <2>3 DEF Above
<1>5. QED
  BY <1>3, <1>4 DEF Acyclic

ReportRows == [by : Users \cup {NoUser}, mgr : Users \cup {NoUser},
               status : {"none", "submitted", "approved", "rejected"},
               reviewer : Users \cup {NoUser}, asAdmin : BOOLEAN]

\* An assignment waits between its check and its write; what was checked
\* still holds unless another one was checked meanwhile.
AssignsSound ==
  /\ \A u \in Users : account[u].mgr # u
  /\ \A r \in Requests : At(r, "assign") =>
       request[r].manager \in Users /\ request[r].manager # request[r].user
  /\ ~mgrRace =>
       /\ Acyclic(account)
       /\ \A r, q \in Requests : At(r, "assign") /\ At(q, "assign") => r = q
       /\ \A r \in Requests : At(r, "assign") =>
            request[r].user \notin Above(account, request[r].manager, MaxDepth)

Filed(i) == report[i].by \in Users /\ report[i].mgr \in Users /\ report[i].mgr # report[i].by

\* A report is filed with a manager who is not the submitter and keeps him;
\* who reviews it without being an administrator is this manager.
ReportsUp ==
  /\ report \in [ReportIds -> ReportRows]
  /\ \A i \in ReportIds : report[i] = NoReport \/ Filed(i)
  /\ \A r \in Requests : request[r].op = "submit" => request[r].manager # request[r].user
  /\ \A r \in Requests : request[r].op = "review" =>
       /\ Filed(request[r].report)
       /\ ~request[r].asAdmin => request[r].user = report[request[r].report].mgr
  /\ SubmitterNeverReviews

LinesInv == AssignsSound /\ ReportsUp

\* A step that assigns no manager, files no report and reviews none.
LinesKept ==
  /\ \A u \in Users : account'[u].mgr = account[u].mgr
  /\ report' = report /\ (mgrRace => mgrRace')
  /\ \A q \in Requests : \/ request'[q] = request[q]
                         \/ request'[q].op \notin {"submit", "review"} /\ ~At(q, "assign")'

LEMMA LinesFrame ==
  ASSUME AccountsShape, LinesInv, LinesKept
  PROVE  LinesInv'
<1>1. ASSUME NEW q \in Requests, At(q, "assign")'
      PROVE  request'[q] = request[q] /\ At(q, "assign")
  BY <1>1 DEF LinesKept, At
<1>2. ASSUME NEW q \in Requests, request'[q].op \in {"submit", "review"}
      PROVE  request'[q] = request[q]
  BY <1>2 DEF LinesKept
<1>3. ASSUME ~mgrRace'
      PROVE  /\ Acyclic(account')
             /\ \A r, q \in Requests : At(r, "assign")' /\ At(q, "assign")' => r = q
             /\ \A r \in Requests : At(r, "assign")' =>
                  request'[r].user \notin Above(account', request'[r].manager, MaxDepth)
  <2>1. /\ Acyclic(account)
        /\ \A r, q \in Requests : At(r, "assign") /\ At(q, "assign") => r = q
        /\ \A r \in Requests : At(r, "assign") =>
             /\ request[r].user \notin Above(account, request[r].manager, MaxDepth)
             /\ request[r].manager \in Users
    BY <1>3 DEF LinesInv, AssignsSound, LinesKept
  <2>2. /\ Acyclic(account')
        /\ \A u \in Users : Above(account', u, MaxDepth) \subseteq Above(account, u, MaxDepth)
    BY <2>1, SameManagers DEF LinesKept
  <2>3. QED
    BY <1>1, <2>1, <2>2
<1>4. AssignsSound'
  <2>1. \A u \in Users : account'[u].mgr # u
    BY DEF LinesInv, AssignsSound, LinesKept
  <2>2. \A r \in Requests : At(r, "assign")' =>
          request'[r].manager \in Users /\ request'[r].manager # request'[r].user
    BY <1>1 DEF LinesInv, AssignsSound
  <2>3. QED
    BY <1>3, <2>1, <2>2 DEF AssignsSound
<1>5. ReportsUp'
  <2>1. report' = report
    BY DEF LinesKept
  <2>2. QED
    BY <1>2, <2>1 DEF LinesInv, ReportsUp, Filed, SubmitterNeverReviews
<1>6. QED
  BY <1>4, <1>5 DEF LinesInv

\* Requests, and what they do to the lines when they assign, file and review
\* nothing.
LEMMA MoveKeepsLines ==
  ASSUME NEW r \in Requests, NEW next, UNCHANGED report, mgrRace => mgrRace',
         \A u \in Users : account'[u].mgr = account[u].mgr,
         request'[r] = next,
         \A q \in Requests : q # r => \/ request'[q] = request[q]
                                      \/ request'[q].op = "login" /\ request'[q].pc = "session",
         next.op \notin {"submit", "review"}, next = NoRequest \/ next.pc # "assign"
  PROVE  LinesKept
BY DEF LinesKept, At

LEMMA LinesFinish ==
  ASSUME AccountsShape, NEW r \in Requests, Finish(r), UNCHANGED <<account, report>>, mgrRace => mgrRace'
  PROVE  LinesKept
<1>1. /\ request'[r] = NoRequest /\ \A q \in Requests : q # r => request'[q] = request[q]
  BY DEF Finish, AccountsShape
<1>2. QED
  BY <1>1, NoOp, MoveKeepsLines

LEMMA LinesBegin ==
  ASSUME AccountsShape, NEW r \in Requests, NEW req, Begin(r, req),
         UNCHANGED <<account, report, mgrRace>>,
         req.op \notin {"submit", "review"}, req.pc # "assign"
  PROVE  LinesKept
<1>1. /\ request'[r] = req /\ \A q \in Requests : q # r => request'[q] = request[q]
  BY DEF Begin, AccountsShape
<1>2. QED
  BY <1>1, MoveKeepsLines

LEMMA StepFields ==
  ASSUME NEW q \in UNION {ResetReqs, ToggleReqs, RoleReqs, EditReqs}, NEW pc
  PROVE  [q EXCEPT !.pc = pc].op = q.op /\ [q EXCEPT !.pc = pc].pc = pc
<1>1. CASE q \in ResetReqs
  BY <1>1 DEF ResetReqs
<1>2. CASE q \in ToggleReqs
  BY <1>2 DEF ToggleReqs
<1>3. CASE q \in RoleReqs
  BY <1>3 DEF RoleReqs
<1>4. CASE q \in EditReqs
  BY <1>4 DEF EditReqs
<1>5. QED
  BY <1>1, <1>2, <1>3, <1>4

\* A request that resets a password or changes an account.
LEMMA RevokingRequest ==
  ASSUME AccountsShape, NEW r \in Requests, NEW pc, At(r, pc),
         pc \in {"password", "revoke", "consume", "active", "role", "manager", "assign"}
  PROVE  /\ request[r] \in UNION {ResetReqs, ToggleReqs, RoleReqs, EditReqs}
         /\ request[r] \in RequestStates
         /\ request[r].op \in Revoking /\ request[r].op \notin {"login", "submit", "review"}
         /\ request[r].user \in Users
<1>1. /\ request[r] \in RequestStates /\ request[r] # NoRequest /\ request[r].pc = pc
      /\ request[r].user \in Users
  BY StepKind
<1>2. request[r].op \in {"reset", "toggle", "role", "edit"}
  BY <1>1, RequestSteps
<1>3. request[r] \in UNION {ResetReqs, ToggleReqs, RoleReqs, EditReqs}
  BY <1>1, <1>2, RequestKinds
<1>4. QED
  BY <1>1, <1>2, <1>3 DEF Revoking

LEMMA LinesGoto ==
  ASSUME AccountsShape, NEW r \in Requests, NEW pc, NEW new, At(r, pc), Goto(r, new),
         pc \in {"password", "revoke", "consume", "active", "role", "manager", "assign"},
         new # "assign", \A u \in Users : account'[u].mgr = account[u].mgr, UNCHANGED <<report, mgrRace>>
  PROVE  LinesKept
<1> DEFINE next == [request[r] EXCEPT !.pc = new]
<1>1. request[r].op \notin {"submit", "review"} /\ next.op = request[r].op /\ next.pc = new
  BY RevokingRequest, StepFields
<1>2. /\ request'[r] = next /\ \A q \in Requests : q # r => request'[q] = request[q]
  BY DEF Goto, AccountsShape
<1> HIDE DEF next
<1>3. QED
  BY <1>1, <1>2, MoveKeepsLines

\* The other requests go on as they were, apart from the logins that are
\* marked.
LEMMA OvertakeLeaves ==
  ASSUME AccountsShape, NEW r \in Requests, NEW next, request[r].op # "login",
         request' = Overtake(r, next)
  PROVE  /\ request'[r] = next
         /\ \A q \in Requests : q # r =>
              request'[q] = request[q] \/ (request'[q].op = "login" /\ request'[q].pc = "session")
<1>1. request'[r] = next
  BY DEF Overtake
<1>2. ASSUME NEW q \in Requests, q # r
      PROVE  request'[q] = request[q] \/ (request'[q].op = "login" /\ request'[q].pc = "session")
  <2>1. CASE request[q].op = "login" /\ request[q].user = request[r].user
    <3>1. request[q] \in LoginReqs
      BY <2>1, RequestKinds DEF AccountsShape
    <3>2. request'[q] = [request[q] EXCEPT !.raced = TRUE]
      BY <2>1 DEF Overtake
    <3>3. QED
      BY <3>1, <3>2 DEF LoginReqs
  <2>2. CASE ~(request[q].op = "login" /\ request[q].user = request[r].user)
    BY <1>2, <2>2 DEF Overtake
  <2>3. QED
    BY <2>1, <2>2
<1>3. QED
  BY <1>1, <1>2

LEMMA LinesOvertake ==
  ASSUME AccountsShape, NEW r \in Requests, NEW pc, NEW next, At(r, pc), request' = Overtake(r, next),
         pc \in {"password", "revoke", "consume", "active", "role", "manager", "assign"},
         \/ next = NoRequest
         \/ \E new : new # "assign" /\ next = [request[r] EXCEPT !.pc = new],
         \A u \in Users : account'[u].mgr = account[u].mgr, UNCHANGED <<report, mgrRace>>
  PROVE  LinesKept
<1>1. request[r].op \notin {"login", "submit", "review"}
  BY RevokingRequest
<1>2. next.op \notin {"submit", "review"} /\ (next = NoRequest \/ next.pc # "assign")
  <2>1. CASE next = NoRequest
    BY <2>1, NoOp
  <2>2. CASE \E new : new # "assign" /\ next = [request[r] EXCEPT !.pc = new]
    <3>1. PICK new : new # "assign" /\ next = [request[r] EXCEPT !.pc = new]
      BY <2>2
    <3>2. request[r] \in UNION {ResetReqs, ToggleReqs, RoleReqs, EditReqs}
      BY RevokingRequest
    <3>3. next.op = request[r].op /\ next.pc = new
      BY <3>1, <3>2, StepFields
    <3>4. QED
      BY <1>1, <3>1, <3>3
  <2>3. QED
    BY <2>1, <2>2
<1>3. /\ request'[r] = next
      /\ \A q \in Requests : q # r =>
           request'[q] = request[q] \/ (request'[q].op = "login" /\ request'[q].pc = "session")
  BY <1>1, OvertakeLeaves
<1>4. QED
  BY <1>2, <1>3, MoveKeepsLines

LEMMA AccountChanges ==
  ASSUME AccountsShape, NEW u \in Users, NEW x
  PROVE  \A v \in Users :
           /\ [account EXCEPT ![u].pw = @ + 1][v].mgr = account[v].mgr
           /\ [account EXCEPT ![u].role = x][v].mgr = account[v].mgr
           /\ [account EXCEPT ![u].active = x][v].mgr = account[v].mgr
           /\ [account EXCEPT ![u].mgr = x][v].mgr = IF v = u THEN x ELSE account[v].mgr
BY DEF AccountsShape

LEMMA SessionLines ==
  ASSUME AccountsShape, NEW r \in Requests, SessionStep(r)
  PROVE  LinesKept
<1>1. ASSUME CreateSession(r) \/ MintToken(r) \/ PurgeTokens(r)
      PROVE  LinesKept
  BY <1>1, LinesFinish DEF CreateSession, MintToken, PurgeTokens, history_
<1>2. CASE SetPassword(r)
  <2> DEFINE u   == request[r].user
             new == IF request[r].op = "reset" THEN "revoke" ELSE "manager"
  <2>1. /\ At(r, "password") /\ account' = [account EXCEPT ![u].pw = @ + 1]
        /\ request' = Overtake(r, [request[r] EXCEPT !.pc = new]) /\ UNCHANGED <<report, mgrRace>>
    BY <1>2 DEF SetPassword, history_
  <2>2. u \in Users /\ new # "assign"
    BY <2>1, RevokingRequest
  <2>3. \A v \in Users : account'[v].mgr = account[v].mgr
    BY <2>1, <2>2, AccountChanges
  <2> HIDE DEF new
  <2>4. QED
    BY <2>1, <2>2, <2>3, LinesOvertake
<1>3. CASE ConsumeToken(r)
  <2>1. At(r, "consume") /\ Goto(r, "purge") /\ UNCHANGED <<account, report, mgrRace>>
    BY <1>3 DEF ConsumeToken, history_
  <2>2. QED
    BY <2>1, LinesGoto
<1>4. ASSUME NEW u \in Users, LoginLookup(r, u) \/ ForgotPurge(r, u)
      PROVE  LinesKept
  <2>1. PICK req : /\ Begin(r, req) /\ UNCHANGED <<account, report, mgrRace>>
                   /\ req.op \notin {"submit", "review"} /\ req.pc # "assign"
    BY <1>4 DEF LoginLookup, ForgotPurge, history_
  <2>2. QED
    BY <2>1, LinesBegin
<1>5. ASSUME NEW t \in TokenIds, ResetFind(r, t)
      PROVE  LinesKept
  <2>1. PICK req : /\ Begin(r, req) /\ UNCHANGED <<account, report, mgrRace>>
                   /\ req.op \notin {"submit", "review"} /\ req.pc # "assign"
    BY <1>5 DEF ResetFind
  <2>2. QED
    BY <2>1, LinesBegin
<1>6. QED
  BY <1>1, <1>2, <1>3, <1>4, <1>5 DEF SessionStep

LEMMA AdminLines ==
  ASSUME AccountsShape, NEW r \in Requests,
         \/ SetRole(r) \/ SetActive(r) \/ RevokeSessions(r)
         \/ \E s \in SessionIds, u \in Users :
              \/ toggle_active(r, s, u)
              \/ \E role \in Roles : change_role(r, s, u, role)
              \/ \E form \in Forms : edit(r, s, u, form)
  PROVE  LinesKept
<1>1. CASE SetRole(r)
  <2> DEFINE new == IF request[r].op = "edit" THEN "active" ELSE "revoke"
  <2>1. /\ At(r, "role") /\ account' = [account EXCEPT ![request[r].user].role = request[r].role]
        /\ Goto(r, new) /\ UNCHANGED <<report, mgrRace>> /\ new # "assign"
    BY <1>1 DEF SetRole, history_
  <2>2. \A v \in Users : account'[v].mgr = account[v].mgr
    BY <2>1, RevokingRequest, AccountChanges
  <2> HIDE DEF new
  <2>3. QED
    BY <2>1, <2>2, LinesGoto
<1>2. CASE SetActive(r)
  <2>1. /\ At(r, "active") /\ account' = [account EXCEPT ![request[r].user].active = request[r].active]
        /\ request' = Overtake(r, [request[r] EXCEPT !.pc = "revoke"]) /\ UNCHANGED <<report, mgrRace>>
    BY <1>2 DEF SetActive, history_
  <2>2. \A v \in Users : account'[v].mgr = account[v].mgr
    BY <2>1, RevokingRequest, AccountChanges
  <2>3. QED
    BY <2>1, <2>2, LinesOvertake
<1>3. CASE RevokeSessions(r)
  <2> DEFINE next == IF AfterRevoke(r) = "end" THEN NoRequest
                     ELSE [request[r] EXCEPT !.pc = AfterRevoke(r)]
  <2>1. /\ At(r, "revoke") /\ request' = Overtake(r, next) /\ UNCHANGED <<account, report, mgrRace>>
    BY <1>3 DEF RevokeSessions
  <2>2. AfterRevoke(r) # "assign"
    BY DEF AfterRevoke
  <2>3. next = NoRequest \/ \E new : new # "assign" /\ next = [request[r] EXCEPT !.pc = new]
    BY <2>2, Zenon
  <2> HIDE DEF next
  <2>4. QED
    BY <2>1, <2>3, LinesOvertake
<1>4. ASSUME NEW s \in SessionIds, NEW u \in Users,
             \/ toggle_active(r, s, u)
             \/ \E role \in Roles : change_role(r, s, u, role)
             \/ \E form \in Forms : edit(r, s, u, form)
      PROVE  LinesKept
  <2>1. PICK req : /\ BeginAdmin(r, s, req)
                   /\ req.op \notin {"submit", "review"} /\ req.pc # "assign"
    <3>1. CASE toggle_active(r, s, u)
      BY <3>1 DEF toggle_active
    <3>2. ASSUME NEW role \in Roles, change_role(r, s, u, role)
          PROVE  \E req : /\ BeginAdmin(r, s, req)
                          /\ req.op \notin {"submit", "review"} /\ req.pc # "assign"
      BY <3>2 DEF change_role
    <3>3. ASSUME NEW form \in Forms, edit(r, s, u, form)
          PROVE  \E req : /\ BeginAdmin(r, s, req)
                          /\ req.op \notin {"submit", "review"} /\ req.pc # "assign"
      BY <3>3 DEF edit
    <3>4. QED
      BY <1>4, <3>1, <3>2, <3>3
  <2>2. Begin(r, req) /\ UNCHANGED <<account, report, mgrRace>>
    BY <2>1 DEF BeginAdmin
  <2>3. QED
    BY <2>1, <2>2, LinesBegin
<1>5. QED
  BY <1>1, <1>2, <1>3, <1>4

LEMMA CheckLines ==
  ASSUME AccountsInv, LinesInv, NEW r \in Requests, CheckManager(r)
  PROVE  LinesInv'
<1> DEFINE u == request[r].user
           m == request[r].manager
<1>1. /\ At(r, "manager") /\ UNCHANGED <<account, report>>
      /\ \/ Assignable(u, m) /\ Goto(r, "assign") /\ mgrRace' = (mgrRace \/ \E q \in Requests : At(q, "assign"))
         \/ Finish(r) /\ (mgrRace => mgrRace')
  BY DEF CheckManager, AccountsInv
<1>2. CASE Finish(r) /\ (mgrRace => mgrRace')
  BY <1>1, <1>2, LinesFinish, LinesFrame DEF AccountsInv
<1>3. CASE Assignable(u, m) /\ Goto(r, "assign") /\ mgrRace' = (mgrRace \/ \E q \in Requests : At(q, "assign"))
  <2> DEFINE next == [request[r] EXCEPT !.pc = "assign"]
  <2>1. /\ request[r] \in EditReqs /\ request[r].op = "edit" /\ u \in Users
        /\ request[r] # NoRequest /\ request[r].pc = "manager"
    BY <1>1, StepKind, RequestSteps, RequestKinds DEF AccountsInv
  <2>2. /\ next.pc = "assign" /\ next.op = "edit" /\ next.user = u /\ next.manager = m
    BY <2>1, RequestGoesOn
  <2>3. /\ m \in Users /\ m # u /\ u \notin manager_chain(m)
    BY <1>3, <2>1 DEF Assignable, EditReqs
  <2>4. /\ request'[r] = next /\ \A q \in Requests : q # r => request'[q] = request[q]
    BY <1>3 DEF Goto, AccountsInv, AccountsShape
  <2> HIDE DEF next
  <2>5. Hierarchy(account)
    BY DEF AccountsInv, AccountsShape, Hierarchy
  <2>6. u \notin Above(account, m, MaxDepth)
    BY <2>3, <2>5, ChainIsClimb, ClimbIsAbove
  <2>7. AssignsSound'
    <3>1. \A q \in Requests : At(q, "assign")' => q = r \/ (request'[q] = request[q] /\ At(q, "assign"))
      BY <2>4 DEF At
    <3>2. \A v \in Users : account'[v].mgr # v
      BY <1>1 DEF LinesInv, AssignsSound
    <3>3. \A q \in Requests : At(q, "assign")' =>
            request'[q].manager \in Users /\ request'[q].manager # request'[q].user
      BY <2>2, <2>3, <2>4, <3>1 DEF LinesInv, AssignsSound
    <3>4. ASSUME ~mgrRace'
          PROVE  /\ Acyclic(account')
                 /\ \A q \in Requests : At(q, "assign")' => q = r
      BY <1>1, <1>3, <3>1, <3>4 DEF LinesInv, AssignsSound
    <3>5. request'[r].user \notin Above(account', request'[r].manager, MaxDepth)
      BY <1>1, <2>2, <2>4, <2>6
    <3>6. ASSUME ~mgrRace'
          PROVE  /\ Acyclic(account')
                 /\ \A p, q \in Requests : At(p, "assign")' /\ At(q, "assign")' => p = q
                 /\ \A q \in Requests : At(q, "assign")' =>
                      request'[q].user \notin Above(account', request'[q].manager, MaxDepth)
      BY <3>4, <3>5, <3>6
    <3>7. QED
      BY <3>2, <3>3, <3>6 DEF AssignsSound
  <2>8. ReportsUp'
    <3>1. \A q \in Requests : request'[q].op \in {"submit", "review"} => request'[q] = request[q]
      BY <2>2, <2>4
    <3>2. QED
      BY <1>1, <3>1 DEF LinesInv, ReportsUp, Filed, SubmitterNeverReviews
  <2>9. QED
    BY <2>7, <2>8 DEF LinesInv
<1>4. QED
  BY <1>1, <1>2, <1>3

LEMMA AssignLines ==
  ASSUME AccountsInv, LinesInv, NEW r \in Requests, AssignManager(r)
  PROVE  LinesInv'
<1> DEFINE u == request[r].user
           m == request[r].manager
<1>1. /\ At(r, "assign") /\ UNCHANGED <<report, mgrRace>> /\ Finish(r)
      /\ account' = [account EXCEPT ![u].mgr = m]
  BY DEF AssignManager, history_
<1>2. u \in Users /\ m \in Users /\ m # u
  BY <1>1, RevokingRequest DEF AccountsInv, LinesInv, AssignsSound
<1>3. \A v \in Users : account'[v].mgr = IF v = u THEN m ELSE account[v].mgr
  <2> HIDE DEF u, m
  <2>1. \A v \in Users : [account EXCEPT ![u].mgr = m][v].mgr = IF v = u THEN m ELSE account[v].mgr
    BY <1>2, AccountChanges DEF AccountsInv
  <2>2. QED
    BY <1>1, <2>1
<1>4. /\ request'[r] = NoRequest /\ \A q \in Requests : q # r => request'[q] = request[q]
  BY <1>1 DEF Finish, AccountsInv, AccountsShape
<1>5. \A q \in Requests : At(q, "assign")' => q # r /\ request'[q] = request[q] /\ At(q, "assign")
  BY <1>4 DEF At
<1>6. AssignsSound'
  <2>1. \A v \in Users : account'[v].mgr # v
    BY <1>2, <1>3 DEF LinesInv, AssignsSound
  <2>2. \A q \in Requests : At(q, "assign")' =>
          request'[q].manager \in Users /\ request'[q].manager # request'[q].user
    BY <1>5 DEF LinesInv, AssignsSound
  <2>3. ASSUME ~mgrRace'
        PROVE  Acyclic(account') /\ \A q \in Requests : ~At(q, "assign")'
    <3>1. /\ Acyclic(account) /\ u \notin Above(account, m, MaxDepth)
          /\ \A p, q \in Requests : At(p, "assign") /\ At(q, "assign") => p = q
      BY <1>1, <2>3 DEF LinesInv, AssignsSound
    <3>2. Hierarchy(account)
      BY DEF AccountsInv, AccountsShape, Hierarchy
    <3>3. Acyclic(account')
      BY <1>2, <1>3, <3>1, <3>2, AssignedAcyclic
    <3>4. QED
      BY <1>1, <1>5, <3>1, <3>3
  <2>4. QED
    BY <2>1, <2>2, <2>3 DEF AssignsSound
<1>7. ReportsUp'
  <2>1. \A q \in Requests : request'[q].op \in {"submit", "review"} => request'[q] = request[q]
    BY <1>4, NoOp
  <2>2. QED
    BY <1>1, <2>1 DEF LinesInv, ReportsUp, Filed, SubmitterNeverReviews
<1>8. QED
  BY <1>6, <1>7 DEF LinesInv

\* Requests to file or review assign nothing.
LEMMA AssignsKept ==
  ASSUME AccountsShape, AssignsSound, NEW r \in Requests, UNCHANGED <<account, mgrRace>>, ~At(r, "assign")',
         \A q \in Requests : q # r => request'[q] = request[q]
  PROVE  AssignsSound'
<1>1. \A q \in Requests : At(q, "assign")' => request'[q] = request[q] /\ At(q, "assign")
  BY DEF At
<1>2. QED
  BY <1>1 DEF AssignsSound

LEMMA SubmitLines ==
  ASSUME AccountsInv, LinesInv, NEW r \in Requests, NEW s \in SessionIds, SubmitReport(r, s)
  PROVE  LinesInv'
<1> DEFINE u == session[s].user
           req == [op |-> "submit", pc |-> "insert", user |-> u, manager |-> account[u].mgr]
<1>1. /\ session[s].live /\ Begin(r, req) /\ UNCHANGED <<account, report, mgrRace>>
  BY DEF SubmitReport, _load_user, history_
<1>2. u \in Users
  BY <1>1 DEF AccountsInv, AccountsShape
<1>3. account[u].mgr # u
  BY <1>2 DEF LinesInv, AssignsSound
<1>4. req.op = "submit" /\ req.pc = "insert" /\ req.manager # req.user
  BY <1>3
<1>5. request'[r] = req /\ \A q \in Requests : q # r => request'[q] = request[q]
  BY <1>1 DEF Begin, AccountsInv, AccountsShape
<1> HIDE DEF req
<1>6. AssignsSound'
  <2>1. ~At(r, "assign")'
    BY <1>4, <1>5 DEF At
  <2>2. QED
    BY <1>1, <1>5, <2>1, AssignsKept DEF AccountsInv, LinesInv
<1>7. ReportsUp'
  BY <1>1, <1>4, <1>5 DEF LinesInv, ReportsUp, Filed, SubmitterNeverReviews
<1>8. QED
  BY <1>6, <1>7 DEF LinesInv

LEMMA ReviewLines ==
  ASSUME AccountsInv, LinesInv, NEW r \in Requests, NEW s \in SessionIds, NEW i \in ReportIds,
         NEW st, ReviewReport(r, s, i, st)
  PROVE  LinesInv'
<1> DEFINE u == session[s].user
           req == [op |-> "review", pc |-> "review", user |-> u, report |-> i, status |-> st,
                   asAdmin |-> account[u].role = "admin"]
<1>1. /\ Begin(r, req) /\ UNCHANGED <<account, report, mgrRace>> /\ report[i] # NoReport
      /\ report[i].mgr = u \/ account[u].role = "admin"
  BY DEF ReviewReport, MayReview, history_
<1>2. /\ req.op = "review" /\ req.pc = "review" /\ req.report = i /\ req.user = u
      /\ ~req.asAdmin => report[i].mgr = u
  BY <1>1
<1>3. request'[r] = req /\ \A q \in Requests : q # r => request'[q] = request[q]
  BY <1>1 DEF Begin, AccountsInv, AccountsShape
<1> HIDE DEF req
<1>4. AssignsSound'
  <2>1. ~At(r, "assign")'
    BY <1>2, <1>3 DEF At
  <2>2. QED
    BY <1>1, <1>3, <2>1, AssignsKept DEF AccountsInv, LinesInv
<1>5. Filed(i)
  BY <1>1 DEF LinesInv, ReportsUp
<1>6. ReportsUp'
  BY <1>1, <1>2, <1>3, <1>5 DEF LinesInv, ReportsUp, Filed, SubmitterNeverReviews
<1>7. QED
  BY <1>4, <1>6 DEF LinesInv

LEMMA InsertLines ==
  ASSUME AccountsInv, LinesInv, NEW r \in Requests, InsertReport(r)
  PROVE  LinesInv'
<1> DEFINE u == request[r].user
           m == request[r].manager
           row == [NoReport EXCEPT !.by = u, !.mgr = m, !.status = "submitted"]
<1>1. /\ At(r, "insert") /\ Finish(r) /\ UNCHANGED <<account, mgrRace>>
  BY DEF InsertReport, history_
<1>2. PICK i \in ReportIds : report[i] = NoReport /\ report' = [report EXCEPT ![i] = row]
  BY DEF InsertReport
<1>3. request[r] \in SubmitReqs /\ request[r].op = "submit"
  BY <1>1, StepKind, RequestSteps, RequestKinds DEF AccountsInv
<1>4. u \in Users /\ m \in Users /\ m # u
  BY <1>3 DEF SubmitReqs, LinesInv, ReportsUp
<1>5. row \in ReportRows /\ row.by = u /\ row.mgr = m /\ row.reviewer = NoUser
  BY <1>4 DEF NoReport, ReportRows
<1> HIDE DEF row
<1>6. /\ report' \in [ReportIds -> ReportRows] /\ report'[i] = row
      /\ \A j \in ReportIds : j # i => report'[j] = report[j]
  BY <1>2, <1>5 DEF LinesInv, ReportsUp
<1>7. request'[r] = NoRequest /\ \A q \in Requests : q # r => request'[q] = request[q]
  BY <1>1 DEF Finish, AccountsInv, AccountsShape
<1>8. AssignsSound'
  <2>1. ~At(r, "assign")'
    BY <1>7 DEF At
  <2>2. QED
    BY <1>1, <1>7, <2>1, AssignsKept DEF AccountsInv, LinesInv
<1>9. ReportsUp'
  <2>1. Filed(i)' /\ \A j \in ReportIds : Filed(j) /\ j # i => Filed(j)' /\ report'[j] = report[j]
    BY <1>4, <1>5, <1>6 DEF Filed
  <2>2. ~Filed(i)
    BY <1>2, AccountsAssumption DEF Filed, NoReport
  <2>3. \A j \in ReportIds : report'[j] = NoReport \/ Filed(j)'
    BY <1>6, <2>1 DEF LinesInv, ReportsUp
  <2>4. \A q \in Requests : request'[q].op = "submit" => request'[q].manager # request'[q].user
    BY <1>7, NoOp DEF LinesInv, ReportsUp
  <2>5. ASSUME NEW q \in Requests, request'[q].op = "review"
        PROVE  /\ Filed(request[q].report)'
               /\ ~request'[q].asAdmin => request'[q].user = report'[request'[q].report].mgr
    <3>1. request'[q] = request[q] /\ request[q].op = "review"
      BY <1>7, <2>5, NoOp
    <3>2. request[q].report \in ReportIds
      BY <3>1, RequestKinds DEF ReviewReqs, AccountsInv, AccountsShape
    <3>3. QED
      BY <2>1, <2>2, <3>1, <3>2 DEF LinesInv, ReportsUp, Filed
  <2>6. SubmitterNeverReviews'
    BY <1>5, <1>6 DEF LinesInv, ReportsUp, SubmitterNeverReviews
  <2>7. QED
    BY <1>6, <2>3, <2>4, <2>5, <2>6 DEF ReportsUp
<1>10. QED
  BY <1>8, <1>9 DEF LinesInv

LEMMA WriteLines ==
  ASSUME AccountsInv, LinesInv, NEW r \in Requests, WriteReview(r)
  PROVE  LinesInv'
<1> DEFINE q0 == request[r]
           i == q0.report
           row == [report[i] EXCEPT !.status = q0.status, !.reviewer = q0.user, !.asAdmin = q0.asAdmin]
<1>1. /\ At(r, "review") /\ Finish(r) /\ UNCHANGED <<account, mgrRace>>
      /\ report' = [report EXCEPT ![i].status = q0.status, ![i].reviewer = q0.user, ![i].asAdmin = q0.asAdmin]
  BY DEF WriteReview, history_
<1>2. q0 \in ReviewReqs /\ q0.op = "review"
  BY <1>1, StepKind, RequestSteps, RequestKinds DEF AccountsInv
<1>3. /\ i \in ReportIds /\ q0.user \in Users /\ q0.asAdmin \in BOOLEAN /\ q0.status \in {"approved", "rejected"}
  BY <1>2 DEF ReviewReqs
<1>4. Filed(i) /\ (~q0.asAdmin => q0.user = report[i].mgr)
  BY <1>2 DEF LinesInv, ReportsUp
<1>5. report[i] \in ReportRows
  BY <1>3 DEF LinesInv, ReportsUp
<1>6. /\ row \in ReportRows /\ row.by = report[i].by /\ row.mgr = report[i].mgr
      /\ row.reviewer = q0.user /\ row.asAdmin = q0.asAdmin
  BY <1>3, <1>5 DEF ReportRows
<1>7. report' = [report EXCEPT ![i] = row]
  BY <1>1, <1>3, <1>5 DEF LinesInv, ReportsUp
<1> HIDE DEF row
<1>8. /\ report' \in [ReportIds -> ReportRows] /\ report'[i] = row
      /\ \A j \in ReportIds : j # i => report'[j] = report[j]
  BY <1>3, <1>6, <1>7 DEF LinesInv, ReportsUp
<1>9. request'[r] = NoRequest /\ \A q \in Requests : q # r => request'[q] = request[q]
  BY <1>1 DEF Finish, AccountsInv, AccountsShape
<1>10. AssignsSound'
  <2>1. ~At(r, "assign")'
    BY <1>9 DEF At
  <2>2. QED
    BY <1>1, <1>9, <2>1, AssignsKept DEF AccountsInv, LinesInv
<1>11. ReportsUp'
  <2>1. \A j \in ReportIds : report'[j].by = report[j].by /\ report'[j].mgr = report[j].mgr
    BY <1>6, <1>8
  <2>2. \A j \in ReportIds : Filed(j) => Filed(j)'
    BY <2>1 DEF Filed
  <2>3. \A j \in ReportIds : report'[j] = NoReport \/ Filed(j)'
    BY <1>4, <1>8, <2>2 DEF LinesInv, ReportsUp
  <2>4. \A q \in Requests : request'[q].op = "submit" => request'[q].manager # request'[q].user
    BY <1>9, NoOp DEF LinesInv, ReportsUp
  <2>5. ASSUME NEW q \in Requests, request'[q].op = "review"
        PROVE  /\ Filed(request[q].report)'
               /\ ~request'[q].asAdmin => request'[q].user = report'[request'[q].report].mgr
    <3>1. request'[q] = request[q] /\ request[q].op = "review"
      BY <1>9, <2>5, NoOp
    <3>2. request[q].report \in ReportIds
      BY <3>1, RequestKinds DEF ReviewReqs, AccountsInv, AccountsShape
    <3>3. Filed(request[q].report)' /\ report'[request[q].report].mgr = report[request[q].report].mgr
      BY <2>1, <2>2, <3>1, <3>2 DEF LinesInv, ReportsUp
    <3>4. QED
      BY <3>1, <3>3 DEF LinesInv, ReportsUp, Filed
  <2>6. SubmitterNeverReviews'
    BY <1>4, <1>6, <1>8 DEF LinesInv, ReportsUp, SubmitterNeverReviews, Filed
  <2>7. QED
    BY <1>8, <2>3, <2>4, <2>5, <2>6 DEF ReportsUp
<1>12. QED
  BY <1>10, <1>11 DEF LinesInv

LEMMA LinesStep ==
  ASSUME AccountsInv, LinesInv, [AccountsNext]_accountVars
  PROVE  LinesInv'
<1>1. CASE UNCHANGED accountVars
  <2>1. LinesKept
    BY <1>1 DEF accountVars, history_, LinesKept
  <2>2. QED
    BY <2>1, LinesFrame DEF AccountsInv
<1>2. ASSUME NEW r \in Requests, SessionStep(r)
      PROVE  LinesInv'
  BY <1>2, SessionLines, LinesFrame DEF AccountsInv
<1>3. ASSUME NEW r \in Requests, AdminStep(r)
      PROVE  LinesInv'
  BY <1>3, AdminLines, CheckLines, AssignLines, LinesFrame DEF AdminStep, AccountsInv
<1>4. ASSUME NEW r \in Requests, ReportStep(r)
      PROVE  LinesInv'
  BY <1>4, SubmitLines, InsertLines, ReviewLines, WriteLines DEF ReportStep
<1>5. ASSUME NEW r \in Requests, RequestDies(r)
      PROVE  LinesInv'
  BY <1>5, LinesFinish, LinesFrame DEF RequestDies, AccountsInv
<1>6. ASSUME \/ \E s \in SessionIds : Logout(s)
             \/ \E t \in TokenIds : TokenExpires(t)
      PROVE  LinesInv'
  <2>1. LinesKept
    BY <1>6 DEF Logout, TokenExpires, history_, LinesKept
  <2>2. QED
    BY <2>1, LinesFrame DEF AccountsInv
<1>7. QED
  BY <1>1, <1>2, <1>3, <1>4, <1>5, <1>6 DEF AccountsNext

LEMMA LinesStart == AccountsInit => LinesInv
<1>1. SUFFICES ASSUME AccountsInit
               PROVE  LinesInv
  OBVIOUS
<1>2. \A r \in Requests : request[r] = NoRequest /\ request[r].op = "none"
  BY <1>1, NoOp DEF AccountsInit
<1>3. \A u \in Users : account[u].mgr = InitManager[u]
  BY <1>1 DEF AccountsInit
<1>4. \A S \in SUBSET Users : S # {} => \E v \in S : account[v].mgr \notin S
  BY <1>3, AccountsAssumption
<1>5. Acyclic(account)
  BY <1>4, WellFoundedAcyclic
<1>6. ASSUME NEW u \in Users
      PROVE  account[u].mgr # u
  <2>1. {u} \in SUBSET Users /\ {u} # {}
    OBVIOUS
  <2>2. QED
    BY <1>4, <2>1
<1>7. AssignsSound
  BY <1>2, <1>5, <1>6 DEF AssignsSound, At
<1>8. /\ NoReport \in ReportRows /\ NoReport.reviewer = NoUser
      /\ \A i \in ReportIds : report[i] = NoReport
      /\ report = [i \in ReportIds |-> NoReport]
  BY <1>1 DEF AccountsInit, NoReport, ReportRows
<1>9. ReportsUp
  BY <1>2, <1>8 DEF ReportsUp, SubmitterNeverReviews
<1>10. QED
  BY <1>7, <1>9 DEF LinesInv

\* For any users, hierarchies and requests, whatever the depth manager_chain
\* looks to: no chain of managers of that length leads back to its start
\* unless two assignments had been checked together, and nobody reviews his
\* own report except as an administrator.
THEOREM ReportsGoUp == AccountsSpec => []ReportingLinesSound
<1>1. AccountsInv /\ LinesInv => ReportingLinesSound
  <2>1. SUFFICES ASSUME AccountsInv, LinesInv
                 PROVE  HierarchyIsAcyclic /\ SubmitterNeverReviews
    BY DEF ReportingLinesSound
  <2>2. Hierarchy(account)
    BY <2>1 DEF AccountsInv, AccountsShape, Hierarchy
  <2>3. ASSUME ~mgrRace, NEW u \in Users
        PROVE  u \notin manager_chain(u)
    <3>1. Acyclic(account)
      BY <2>1, <2>3 DEF LinesInv, AssignsSound
    <3>2. u \notin Above(account, u, MaxDepth)
      BY <2>2, <3>1, NobodyAbove
    <3>3. QED
      BY <2>2, <3>2, ChainIsClimb, ClimbIsAbove
  <2>4. QED
    BY <2>1, <2>3 DEF HierarchyIsAcyclic, LinesInv, ReportsUp
<1>2. AccountsInv /\ LinesInv /\ [AccountsNext]_accountVars => LinesInv'
  BY LinesStep
<1>3. QED
  BY LinesStart, AccountsInvariance, <1>1, <1>2, PTL DEF AccountsSpec

-----------------------------------------------------------------------------
(* Types *)

\* The requests that are yet to set the password of a reset link.
ToReset(t) == {r \in Requests : Resets(r, t) /\ request[r].pc = "password"}

\* Every use of a link is one of the requests served.
UsesServed ==
  /\ served \in 0..MaxRequests
  /\ \A t \in TokenIds : /\ IsFiniteSet(ToReset(t))
                         /\ token[t].uses + Cardinality(ToReset(t)) <= served

UsesKept ==
  /\ served' \in 0..MaxRequests /\ served <= served'
  /\ \A t \in TokenIds : token'[t].uses <= token[t].uses
  /\ \A q \in Requests :
       \/ request'[q] = request[q]
       \/ request'[q].op # "reset"
       \/ request'[q].pc # "password"

LEMMA UsesFrame ==
  ASSUME AccountsShape, AccountsShape', UsesServed, UsesKept
  PROVE  UsesServed'
<1>1. ASSUME NEW t \in TokenIds
      PROVE  /\ IsFiniteSet(ToReset(t)')
             /\ token'[t].uses + Cardinality(ToReset(t)') <= served'
  <2>1. ToReset(t)' \subseteq ToReset(t)
    BY DEF UsesKept, ToReset, Resets
  <2>2. IsFiniteSet(ToReset(t)) /\ token[t].uses + Cardinality(ToReset(t)) <= served
    BY DEF UsesServed
  <2>3. /\ IsFiniteSet(ToReset(t)') /\ Cardinality(ToReset(t)') <= Cardinality(ToReset(t))
        /\ Cardinality(ToReset(t)) \in Nat /\ Cardinality(ToReset(t)') \in Nat
    BY <2>1, <2>2, FS_Subset, FS_CardinalityType
  <2>4. token[t].uses \in Nat /\ token'[t].uses \in Nat /\ token'[t].uses <= token[t].uses
    BY DEF AccountsShape, UsesKept
  <2>5. served \in Nat /\ served' \in Nat /\ served <= served'
    BY AccountsAssumption DEF UsesServed, UsesKept
  <2>6. QED
    BY <2>2, <2>3, <2>4, <2>5
<1>2. QED
  BY <1>1 DEF UsesServed, UsesKept

\* Steps of requests other than those that find a link or set a password.
LEMMA MoveKeepsUses ==
  ASSUME UsesServed, NEW r \in Requests, UNCHANGED served,
         \A t \in TokenIds : token'[t].uses <= token[t].uses,
         \A q \in Requests : q # r => \/ request'[q] = request[q]
                                      \/ request'[q].op = "login",
         request'[r].op # "reset" \/ request'[r].pc # "password"
  PROVE  UsesKept
BY AccountsAssumption DEF UsesKept, UsesServed

LEMMA BeginKeepsUses ==
  ASSUME AccountsShape, UsesServed, NEW r \in Requests, NEW req, Begin(r, req), req.op # "reset",
         \A t \in TokenIds : token'[t].uses <= token[t].uses
  PROVE  UsesKept
<1>1. request'[r] = req /\ \A q \in Requests : q # r => request'[q] = request[q]
  BY DEF Begin, AccountsShape
<1>2. served' = served + 1 /\ served < MaxRequests
  BY DEF Begin
<1>3. served' \in 0..MaxRequests /\ served <= served'
  BY <1>2, AccountsAssumption DEF UsesServed
<1>4. QED
  BY <1>1, <1>3 DEF UsesKept

LEMMA FinishKeepsUses ==
  ASSUME AccountsShape, UsesServed, NEW r \in Requests, Finish(r),
         \A t \in TokenIds : token'[t].uses <= token[t].uses
  PROVE  UsesKept
<1>1. request'[r] = NoRequest /\ \A q \in Requests : q # r => request'[q] = request[q]
  BY DEF Finish, AccountsShape
<1>2. UNCHANGED served
  BY DEF Finish
<1>3. QED
  BY <1>1, <1>2, NoOp, MoveKeepsUses

LEMMA GotoKeepsUses ==
  ASSUME AccountsShape, UsesServed, NEW r \in Requests, NEW pc, NEW new, At(r, pc), Goto(r, new),
         pc \in {"password", "revoke", "consume", "active", "role", "manager", "assign"},
         new # "password", \A t \in TokenIds : token'[t].uses <= token[t].uses
  PROVE  UsesKept
<1> DEFINE next == [request[r] EXCEPT !.pc = new]
<1>1. next.pc = new
  BY RevokingRequest, StepFields
<1>2. /\ request'[r] = next /\ \A q \in Requests : q # r => request'[q] = request[q]
  BY DEF Goto, AccountsShape
<1>3. UNCHANGED served
  BY DEF Goto
<1> HIDE DEF next
<1>4. QED
  BY <1>1, <1>2, <1>3, MoveKeepsUses

LEMMA OvertakeKeepsUses ==
  ASSUME AccountsShape, UsesServed, NEW r \in Requests, NEW pc, NEW next, At(r, pc),
         request' = Overtake(r, next), UNCHANGED served,
         pc \in {"password", "revoke", "consume", "active", "role", "manager", "assign"},
         \/ next = NoRequest
         \/ \E new : /\ next = [request[r] EXCEPT !.pc = new]
                     /\ new # "password" \/ request[r].op # "reset",
         \A t \in TokenIds : token'[t].uses <= token[t].uses
  PROVE  UsesKept
<1>1. request[r].op # "login"
  BY RevokingRequest
<1>2. next.op # "reset" \/ next.pc # "password"
  <2>1. CASE next = NoRequest
    BY <2>1, NoOp
  <2>2. ASSUME NEW new, next = [request[r] EXCEPT !.pc = new], new # "password" \/ request[r].op # "reset"
        PROVE  next.op # "reset" \/ next.pc # "password"
    <3>1. request[r] \in UNION {ResetReqs, ToggleReqs, RoleReqs, EditReqs}
      BY RevokingRequest
    <3>2. next.op = request[r].op /\ next.pc = new
      BY <2>2, <3>1, StepFields
    <3>3. QED
      BY <2>2, <3>2
  <2>3. QED
    BY <2>1, <2>2
<1>3. /\ request'[r] = next
      /\ \A q \in Requests : q # r => request'[q] = request[q] \/ request'[q].op = "login"
  BY <1>1, OvertakeLeaves
<1>4. QED
  BY <1>2, <1>3, MoveKeepsUses

\* The uses of the tokens on the steps that count none.
LEMMA TokenUses ==
  ASSUME AccountsShape
  PROVE  /\ token' = token => \A t \in TokenIds : token'[t].uses <= token[t].uses
         /\ \A u \in Users : token' = PurgeOf(u) => \A t \in TokenIds : token'[t].uses <= token[t].uses
         /\ \A t \in TokenIds : \A st \in {"used", "gone"} : token' = [token EXCEPT ![t].st = st] =>
              \A z \in TokenIds : token'[z].uses <= token[z].uses
         /\ \A t \in TokenIds, u \in Users : token' = [token EXCEPT ![t] = [user |-> u, st |-> "valid", uses |-> 0]] =>
              \A z \in TokenIds : token'[z].uses <= token[z].uses
<1>1. \A t \in TokenIds : token[t].uses \in Nat
  BY DEF AccountsShape
<1>2. \A n \in Nat : n <= n /\ 0 <= n
  OBVIOUS
<1>3. ASSUME token' = token
      PROVE  \A t \in TokenIds : token'[t].uses <= token[t].uses
  BY <1>1, <1>2, <1>3
<1>4. ASSUME NEW u \in Users, token' = PurgeOf(u)
      PROVE  \A t \in TokenIds : token'[t].uses <= token[t].uses
  BY <1>1, <1>2, <1>4, PurgedTokens
<1>5. ASSUME NEW t \in TokenIds, NEW st \in {"used", "gone"}, token' = [token EXCEPT ![t].st = st], NEW z \in TokenIds
      PROVE  token'[z].uses <= token[z].uses
  <2>1. token'[z].uses = token[z].uses
    BY <1>5 DEF AccountsShape
  <2>2. QED
    BY <1>1, <1>2, <2>1
<1>6. ASSUME NEW t \in TokenIds, NEW u \in Users, token' = [token EXCEPT ![t] = [user |-> u, st |-> "valid", uses |-> 0]], NEW z \in TokenIds
      PROVE  token'[z].uses <= token[z].uses
  <2>1. token'[z].uses = token[z].uses \/ token'[z].uses = 0
    BY <1>6 DEF AccountsShape
  <2>2. QED
    BY <1>1, <1>2, <2>1
<1>7. QED
  BY <1>3, <1>4, <1>5, <1>6

LEMMA SessionUses ==
  ASSUME AccountsShape, UsesServed, NEW r \in Requests,
         \/ CreateSession(r) \/ MintToken(r) \/ ConsumeToken(r) \/ PurgeTokens(r)
         \/ \E u \in Users : LoginLookup(r, u) \/ ForgotPurge(r, u)
  PROVE  UsesKept
<1>1. CASE CreateSession(r)
  BY <1>1, TokenUses, FinishKeepsUses DEF CreateSession
<1>2. CASE MintToken(r)
  <2>1. PICK t \in TokenIds : token' = [token EXCEPT ![t] = [user |-> request[r].user, st |-> "valid", uses |-> 0]]
    BY <1>2 DEF MintToken
  <2>2. At(r, "mint") /\ Finish(r)
    BY <1>2 DEF MintToken
  <2>3. request[r].user \in Users
    BY <2>2, StepKind
  <2>4. QED
    BY <2>1, <2>2, <2>3, TokenUses, FinishKeepsUses
<1>3. CASE ConsumeToken(r)
  <2>1. At(r, "consume") /\ Goto(r, "purge")
    BY <1>3 DEF ConsumeToken
  <2>2. request[r].token \in TokenIds
    BY <2>1, StepKind, RequestSteps, RequestKinds DEF ResetReqs
  <2>3. token' = token \/ token' = [token EXCEPT ![request[r].token].st = "used"]
    BY <1>3 DEF ConsumeToken
  <2>4. QED
    BY <2>1, <2>2, <2>3, TokenUses, GotoKeepsUses
<1>4. CASE PurgeTokens(r)
  <2>1. At(r, "purge") /\ Finish(r) /\ token' = PurgeOf(request[r].user)
    BY <1>4 DEF PurgeTokens
  <2>2. request[r].user \in Users
    BY <2>1, StepKind
  <2>3. QED
    BY <2>1, <2>2, TokenUses, FinishKeepsUses
<1>5. ASSUME NEW u \in Users, LoginLookup(r, u) \/ ForgotPurge(r, u)
      PROVE  UsesKept
  <2>1. PICK req : /\ Begin(r, req) /\ req.op # "reset"
                   /\ token' = token \/ token' = PurgeOf(u)
    BY <1>5 DEF LoginLookup, ForgotPurge
  <2>2. QED
    BY <2>1, TokenUses, BeginKeepsUses
<1>6. QED
  BY <1>1, <1>2, <1>3, <1>4, <1>5

LEMMA AdminUses ==
  ASSUME AccountsShape, UsesServed, NEW r \in Requests, AdminStep(r)
  PROVE  UsesKept
<1>1. token' = token
  BY DEF AdminStep, SetRole, SetActive, RevokeSessions, CheckManager, AssignManager, toggle_active,
     change_role, edit, BeginAdmin
<1>2. \A t \in TokenIds : token'[t].uses <= token[t].uses
  BY <1>1, TokenUses
<1>3. CASE SetRole(r)
  <2> DEFINE new == IF request[r].op = "edit" THEN "active" ELSE "revoke"
  <2>1. At(r, "role") /\ Goto(r, new) /\ new # "password"
    BY <1>3 DEF SetRole
  <2> HIDE DEF new
  <2>2. QED
    BY <1>2, <2>1, GotoKeepsUses
<1>4. CASE SetActive(r)
  <2>1. At(r, "active") /\ request' = Overtake(r, [request[r] EXCEPT !.pc = "revoke"]) /\ UNCHANGED served
    BY <1>4 DEF SetActive
  <2>2. QED
    BY <1>2, <2>1, OvertakeKeepsUses
<1>5. CASE RevokeSessions(r)
  <2> DEFINE next == IF AfterRevoke(r) = "end" THEN NoRequest
                     ELSE [request[r] EXCEPT !.pc = AfterRevoke(r)]
  <2>1. At(r, "revoke") /\ request' = Overtake(r, next) /\ UNCHANGED served
    BY <1>5 DEF RevokeSessions
  <2>2. AfterRevoke(r) # "password" \/ request[r].op # "reset"
    BY DEF AfterRevoke
  <2>3. \/ next = NoRequest
        \/ \E new : /\ next = [request[r] EXCEPT !.pc = new]
                    /\ new # "password" \/ request[r].op # "reset"
    BY <2>2, Zenon
  <2> HIDE DEF next
  <2>4. QED
    BY <1>2, <2>1, <2>3, OvertakeKeepsUses
<1>6. CASE CheckManager(r)
  <2>1. At(r, "manager") /\ (Goto(r, "assign") \/ Finish(r))
    BY <1>6 DEF CheckManager
  <2>2. QED
    BY <1>2, <2>1, GotoKeepsUses, FinishKeepsUses
<1>7. CASE AssignManager(r)
  BY <1>2, <1>7, FinishKeepsUses DEF AssignManager
<1>8. ASSUME NEW s \in SessionIds, NEW u \in Users,
             \/ toggle_active(r, s, u)
             \/ \E role \in Roles : change_role(r, s, u, role)
             \/ \E form \in Forms : edit(r, s, u, form)
      PROVE  UsesKept
  <2>1. PICK req : BeginAdmin(r, s, req) /\ req.op # "reset"
    <3>1. CASE toggle_active(r, s, u)
      BY <3>1 DEF toggle_active
    <3>2. ASSUME NEW role \in Roles, change_role(r, s, u, role)
          PROVE  \E req : BeginAdmin(r, s, req) /\ req.op # "reset"
      BY <3>2 DEF change_role
    <3>3. ASSUME NEW form \in Forms, edit(r, s, u, form)
          PROVE  \E req : BeginAdmin(r, s, req) /\ req.op # "reset"
      BY <3>3 DEF edit
    <3>4. QED
      BY <1>8, <3>1, <3>2, <3>3
  <2>2. Begin(r, req)
    BY <2>1 DEF BeginAdmin
  <2>3. QED
    BY <1>2, <2>1, <2>2, BeginKeepsUses
<1>9. QED
  BY <1>3, <1>4, <1>5, <1>6, <1>7, <1>8 DEF AdminStep

LEMMA ReportUses ==
  ASSUME AccountsShape, UsesServed, NEW r \in Requests, ReportStep(r)
  PROVE  UsesKept
<1>1. token' = token
  BY DEF ReportStep, InsertReport, WriteReview, SubmitReport, ReviewReport
<1>2. \A t \in TokenIds : token'[t].uses <= token[t].uses
  BY <1>1, TokenUses
<1>3. CASE InsertReport(r) \/ WriteReview(r)
  BY <1>2, <1>3, FinishKeepsUses DEF InsertReport, WriteReview
<1>4. ASSUME NEW s \in SessionIds,
             \/ SubmitReport(r, s)
             \/ \E i \in ReportIds, st \in {"approved", "rejected"} : ReviewReport(r, s, i, st)
      PROVE  UsesKept
  <2>1. PICK req : Begin(r, req) /\ req.op # "reset"
    <3>1. CASE SubmitReport(r, s)
      BY <3>1 DEF SubmitReport
    <3>2. ASSUME NEW i \in ReportIds, NEW st \in {"approved", "rejected"}, ReviewReport(r, s, i, st)
          PROVE  \E req : Begin(r, req) /\ req.op # "reset"
      BY <3>2 DEF ReviewReport
    <3>3. QED
      BY <1>4, <3>1, <3>2
  <2>2. QED
    BY <1>2, <2>1, BeginKeepsUses
<1>5. QED
  BY <1>3, <1>4 DEF ReportStep

\* A request that finds a link counts as served before it uses it.
LEMMA FindUses ==
  ASSUME AccountsShape, UsesServed, NEW r \in Requests, NEW t0 \in TokenIds, ResetFind(r, t0)
  PROVE  UsesServed'
<1> DEFINE req == [op |-> "reset", pc |-> "password", user |-> token[t0].user, token |-> t0]
<1>1. Begin(r, req) /\ token' = token
  BY DEF ResetFind
<1>2. req.op = "reset" /\ req.pc = "password" /\ req.token = t0
  OBVIOUS
<1> HIDE DEF req
<1>3. /\ request[r] = NoRequest /\ served' = served + 1 /\ served < MaxRequests
      /\ request'[r] = req /\ \A q \in Requests : q # r => request'[q] = request[q]
  BY <1>1 DEF Begin, AccountsShape
<1>4. served \in Nat /\ served' \in 0..MaxRequests
  BY <1>3, AccountsAssumption DEF UsesServed
<1>5. ASSUME NEW t \in TokenIds
      PROVE  /\ IsFiniteSet(ToReset(t)')
             /\ token'[t].uses + Cardinality(ToReset(t)') <= served'
  <2>1. IsFiniteSet(ToReset(t)) /\ token[t].uses + Cardinality(ToReset(t)) <= served
    BY DEF UsesServed
  <2>2. token[t].uses \in Nat
    BY DEF AccountsShape
  <2>3. r \notin ToReset(t)
    BY <1>3, NoOp DEF ToReset, Resets
  <2>4. ToReset(t)' \subseteq ToReset(t) \cup {r}
    BY <1>3 DEF ToReset, Resets
  <2>5. /\ IsFiniteSet(ToReset(t) \cup {r})
        /\ Cardinality(ToReset(t) \cup {r}) = Cardinality(ToReset(t)) + 1
    BY <2>1, <2>3, FS_AddElement
  <2>6. /\ IsFiniteSet(ToReset(t)') /\ Cardinality(ToReset(t)') <= Cardinality(ToReset(t) \cup {r})
    BY <2>4, <2>5, FS_Subset
  <2>7. Cardinality(ToReset(t)) \in Nat /\ Cardinality(ToReset(t)') \in Nat
    BY <2>1, <2>6, FS_CardinalityType
  <2>8. QED
    BY <1>1, <1>3, <1>4, <2>1, <2>2, <2>5, <2>6, <2>7
<1>6. QED
  BY <1>4, <1>5 DEF UsesServed

LEMMA PasswordUses ==
  ASSUME AccountsInv, UsesServed, AccountsShape', NEW r \in Requests, SetPassword(r)
  PROVE  UsesServed'
<1>1. At(r, "password") /\ UNCHANGED served
  BY DEF SetPassword
<1>2. CASE request[r].op # "reset"
  <2>1. token' = token /\ request' = Overtake(r, [request[r] EXCEPT !.pc = "manager"])
    BY <1>2 DEF SetPassword
  <2>2. \A t \in TokenIds : token'[t].uses <= token[t].uses
    BY <2>1, TokenUses DEF AccountsInv
  <2>3. UsesKept
    BY <1>1, <2>1, <2>2, OvertakeKeepsUses DEF AccountsInv
  <2>4. QED
    BY <2>3, UsesFrame DEF AccountsInv
<1>3. CASE request[r].op = "reset"
  <2> DEFINE t0   == request[r].token
             next == [request[r] EXCEPT !.pc = "revoke"]
  <2>1. token' = [token EXCEPT ![t0].uses = @ + 1] /\ request' = Overtake(r, next)
    BY <1>3 DEF SetPassword
  <2>2. request[r] \in ResetReqs /\ request[r].pc = "password"
    BY <1>1, <1>3, StepKind, RequestKinds DEF AccountsInv
  <2>3. t0 \in TokenIds /\ next.pc = "revoke"
    BY <2>2 DEF ResetReqs
  <2>4. /\ request'[r] = next
        /\ \A q \in Requests : q # r => request'[q] = request[q] \/ request'[q].op = "login"
    BY <1>3, <2>1, OvertakeLeaves DEF AccountsInv
  <2> HIDE DEF next
  <2>5. ASSUME NEW t \in TokenIds
        PROVE  /\ IsFiniteSet(ToReset(t)')
               /\ token'[t].uses + Cardinality(ToReset(t)') <= served'
    <3>1. IsFiniteSet(ToReset(t)) /\ token[t].uses + Cardinality(ToReset(t)) <= served
      BY DEF UsesServed
    <3>2. token[t].uses \in Nat /\ served \in Nat /\ served' = served
      BY <1>1, AccountsAssumption DEF AccountsInv, AccountsShape, UsesServed
    <3>3. ToReset(t)' \subseteq ToReset(t) \ {r}
      BY <2>3, <2>4 DEF ToReset, Resets
    <3>4. /\ IsFiniteSet(ToReset(t) \ {r})
          /\ Cardinality(ToReset(t) \ {r}) = IF r \in ToReset(t) THEN Cardinality(ToReset(t)) - 1
                                             ELSE Cardinality(ToReset(t))
      BY <3>1, FS_RemoveElement
    <3>5. /\ IsFiniteSet(ToReset(t)') /\ Cardinality(ToReset(t)') <= Cardinality(ToReset(t) \ {r})
      BY <3>3, <3>4, FS_Subset
    <3>6. Cardinality(ToReset(t)) \in Nat /\ Cardinality(ToReset(t)') \in Nat
      BY <3>1, <3>5, FS_CardinalityType
    <3>7. CASE t = t0
      <4>1. r \in ToReset(t)
        BY <1>3, <2>2, <3>7 DEF ToReset, Resets
      <4>2. token'[t].uses = token[t].uses + 1
        BY <2>1, <2>3, <3>7 DEF AccountsInv, AccountsShape
      <4>3. QED
        BY <3>1, <3>2, <3>4, <3>5, <3>6, <4>1, <4>2
    <3>8. CASE t # t0
      <4>1. token'[t] = token[t]
        BY <2>1, <2>3, <3>8 DEF AccountsInv, AccountsShape
      <4>2. QED
        BY <3>1, <3>2, <3>4, <3>5, <3>6, <4>1
    <3>9. QED
      BY <3>7, <3>8
  <2>6. QED
    BY <1>1, <2>5 DEF UsesServed
<1>4. QED
  BY <1>2, <1>3

LEMMA UsesStep ==
  ASSUME AccountsInv, UsesServed, [AccountsNext]_accountVars
  PROVE  UsesServed'
<1> USE DEF AccountsInv
<1>1. AccountsShape /\ AccountsShape'
  BY AccountsStep
<1>2. CASE UNCHANGED accountVars
  <2>1. UNCHANGED <<token, request, served>>
    BY <1>2 DEF accountVars
  <2>2. QED
    BY <2>1 DEF UsesServed, ToReset, Resets
<1>3. ASSUME NEW r \in Requests, SessionStep(r)
      PROVE  UsesServed'
  BY <1>1, <1>3, SessionUses, FindUses, PasswordUses, UsesFrame DEF SessionStep
<1>4. ASSUME NEW r \in Requests, AdminStep(r) \/ ReportStep(r)
      PROVE  UsesServed'
  BY <1>1, <1>4, AdminUses, ReportUses, UsesFrame
<1>5. ASSUME NEW r \in Requests, RequestDies(r)
      PROVE  UsesServed'
  <2>1. Finish(r) /\ token' = token
    BY <1>5 DEF RequestDies
  <2>2. UsesKept
    BY <1>1, <2>1, TokenUses, FinishKeepsUses
  <2>3. QED
    BY <1>1, <2>2, UsesFrame
<1>6. ASSUME \/ \E s \in SessionIds : Logout(s)
             \/ \E t \in TokenIds : TokenExpires(t)
      PROVE  UsesServed'
  <2>1. /\ UNCHANGED <<request, served>>
        /\ token' = token \/ \E t \in TokenIds : token' = [token EXCEPT ![t].st = "gone"]
    BY <1>6 DEF Logout, TokenExpires
  <2>2. \A t \in TokenIds : token'[t].uses <= token[t].uses
    BY <1>1, <2>1, TokenUses
  <2>3. UsesKept
    BY <2>1, <2>2, AccountsAssumption DEF UsesKept, UsesServed
  <2>4. QED
    BY <1>1, <2>3, UsesFrame
<1>7. QED
  BY <1>2, <1>3, <1>4, <1>5, <1>6 DEF AccountsNext

LEMMA UsesStart == AccountsInit => UsesServed
<1>1. SUFFICES ASSUME AccountsInit
               PROVE  UsesServed
  OBVIOUS
<1>2. served \in 0..MaxRequests /\ served = 0
  <2>1. served = 0 /\ MaxRequests \in Nat
    BY <1>1, AccountsAssumption DEF AccountsInit
  <2>2. QED
    BY <2>1
<1>3. ASSUME NEW t \in TokenIds
      PROVE  ToReset(t) = {} /\ token[t].uses = 0
  BY <1>1, NoOp DEF AccountsInit, ToReset, Resets, NoToken
<1>4. QED
  BY <1>2, <1>3, FS_EmptySet DEF UsesServed

LEMMA AccountsTypes == AccountsInv /\ LinesInv /\ UsesServed => AccountsTypeOK
<1>1. SUFFICES ASSUME AccountsInv, LinesInv, UsesServed
               PROVE  AccountsTypeOK
  OBVIOUS
<1> DEFINE Tokens == [user : Users \cup {NoUser}, uses : 0..MaxRequests,
                      st : {"none", "valid", "used", "gone"}]
<1>2. ASSUME NEW t \in TokenIds
      PROVE  token[t] \in Tokens
  <2>1. token[t] \in [user : Users \cup {NoUser}, uses : Nat, st : {"none", "valid", "used", "gone"}]
    BY <1>1 DEF AccountsInv, AccountsShape
  <2>2. /\ IsFiniteSet(ToReset(t)) /\ token[t].uses + Cardinality(ToReset(t)) <= served
        /\ served \in 0..MaxRequests
    BY <1>1 DEF UsesServed
  <2>3. Cardinality(ToReset(t)) \in Nat
    BY <2>2, FS_CardinalityType
  <2>4. token[t].uses \in 0..MaxRequests
    BY <2>1, <2>2, <2>3, AccountsAssumption
  <2>5. QED
    BY <2>1, <2>4
<1>3. token \in [TokenIds -> Tokens]
  <2>1. token = [t \in TokenIds |-> token[t]]
    BY <1>1 DEF AccountsInv, AccountsShape
  <2>2. QED
    BY <1>2, <2>1
<1>4. QED
  BY <1>1, <1>3 DEF AccountsTypeOK, AccountsInv, AccountsShape, LinesInv, AssignsSound, ReportsUp, ReportRows

\* The rows of users, sessions, tokens and reports have their types, for any
\* number of requests: a reset link never counts more uses than requests.
THEOREM AccountsTyped == AccountsSpec => []AccountsTypeOK
<1>1. AccountsInv /\ LinesInv /\ [AccountsNext]_accountVars => LinesInv'
  BY LinesStep
<1>2. AccountsInv /\ UsesServed /\ [AccountsNext]_accountVars => UsesServed'
  BY UsesStep
<1>3. QED
  BY LinesStart, UsesStart, AccountsInvariance, AccountsTypes, <1>1, <1>2, PTL DEF AccountsSpec
=============================================================================
