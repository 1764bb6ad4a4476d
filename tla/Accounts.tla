------------------------------ MODULE Accounts ------------------------------
(***************************************************************************)
(* User accounts, the sessions and reset tokens that hang on them, the     *)
(* reporting hierarchy and the reports sent along it.  Every repository    *)
(* call is a transaction of its own, so a request is a series of steps     *)
(* that others fall between, and it may stop after any of them: an error   *)
(* is caught by the route, a worker may die.                               *)
(*                                                                         *)
(* A password is its version number.  The fields raced, orphaned, shared   *)
(* and so on are history: they record that a request met another one in    *)
(* the middle, which is what the properties except.                        *)
(***************************************************************************)
EXTENDS Integers, FiniteSets

CONSTANTS Users, NoUser,
          Requests,      \* request threads
          InitRole, InitManager,  \* role and manager of each user at the start
          InitSession,   \* the users signed in at the start, a sequence
          Forms,         \* what an admin may submit on the edit page:
                         \* [role, active, password, manager]
          Menus,         \* sets of the kinds of request a behaviour contains
          MaxDepth,      \* max_depth of manager_chain
          MaxPassword, MaxSessions, MaxTokens, MaxReports, MaxRequests

Roles      == {"admin", "manager", "viewer"}
SessionIds == 1..MaxSessions
TokenIds   == 1..MaxTokens
ReportIds  == 1..MaxReports

\* The installation has an administrator, and its hierarchy has no cycle: in
\* any group somebody's manager stands outside it.
ASSUME AccountsAssumption ==
  /\ NoUser \notin Users
  /\ InitRole \in [Users -> Roles] /\ \E u \in Users : InitRole[u] = "admin"
  /\ InitManager \in [Users -> Users \cup {NoUser}]
  /\ \A group \in SUBSET Users : group # {} => \E u \in group : InitManager[u] \notin group
  /\ \A s \in SessionIds : s \in DOMAIN InitSession => InitSession[s] \in Users
  /\ Forms \subseteq [role : Roles, active : BOOLEAN, password : BOOLEAN, manager : Users \cup {NoUser}]
  /\ MaxPassword \in Nat \ {0} /\ MaxDepth \in Nat /\ MaxRequests \in Nat
  /\ MaxSessions \in Nat /\ MaxTokens \in Nat /\ MaxReports \in Nat

VARIABLES
  account,     \* users: [pw, active, role, mgr]
  session,     \* user_sessions: [user, pw, live, raced]
  token,       \* password_reset_tokens: [user, st, uses]
  report,      \* reports: [by, mgr, status, reviewer, asAdmin]
  request,     \* what each thread does
  served,      \* requests begun, bounded by MaxRequests
  menu,        \* the kinds of request of this behaviour
  orphaned,    \* users whose sessions a stopped request did not revoke
  shared,      \* tokens that two requests, or a stopped one, found valid
  adminRace,   \* an admin acted while being changed, or when inactive
  mgrRace      \* two assignments were checked before either was made

history_    == <<orphaned, shared, adminRace, mgrRace>>
accountVars == <<account, session, token, report, request, served, menu, history_>>

NoRequest == [op |-> "none"]
NoSession == [user |-> NoUser, pw |-> 0, live |-> FALSE, raced |-> FALSE]
NoToken   == [user |-> NoUser, st |-> "none", uses |-> 0]
NoReport  == [by |-> NoUser, mgr |-> NoUser, status |-> "none", reviewer |-> NoUser, asAdmin |-> FALSE]

AccountsTypeOK ==
  /\ account \in [Users -> [pw : 1..MaxPassword, active : BOOLEAN, role : Roles,
                            mgr : Users \cup {NoUser}]]
  /\ session \in [SessionIds -> [user : Users \cup {NoUser}, pw : 0..MaxPassword,
                                 live : BOOLEAN, raced : BOOLEAN]]
  /\ token \in [TokenIds -> [user : Users \cup {NoUser}, uses : 0..MaxRequests,
                             st : {"none", "valid", "used", "gone"}]]
  /\ report \in [ReportIds -> [by : Users \cup {NoUser}, mgr : Users \cup {NoUser},
                               status : {"none", "submitted", "approved", "rejected"},
                               reviewer : Users \cup {NoUser}, asAdmin : BOOLEAN]]
  /\ \A u \in Users : account[u].mgr # u

AccountsInit ==
  /\ account = [u \in Users |-> [pw |-> 1, active |-> TRUE, role |-> InitRole[u], mgr |-> InitManager[u]]]
  /\ session = [s \in SessionIds |->
       IF s \in DOMAIN InitSession THEN [NoSession EXCEPT !.user = InitSession[s], !.pw = 1, !.live = TRUE]
       ELSE NoSession]
  /\ token = [t \in TokenIds |-> NoToken] /\ report = [i \in ReportIds |-> NoReport]
  /\ request = [r \in Requests |-> NoRequest] /\ served = 0 /\ menu \in Menus
  /\ orphaned = {} /\ shared = {} /\ adminRace = FALSE /\ mgrRace = FALSE

-----------------------------------------------------------------------------
(* Requests *)

Begin(r, req) ==
  /\ request[r] = NoRequest /\ served < MaxRequests /\ req.op \in menu
  /\ request' = [request EXCEPT ![r] = req]
  /\ served' = served + 1 /\ UNCHANGED menu

Goto(r, pc) == request' = [request EXCEPT ![r].pc = pc] /\ UNCHANGED <<served, menu>>
Finish(r)   == request' = [request EXCEPT ![r] = NoRequest] /\ UNCHANGED <<served, menu>>

At(r, pc)  == request[r] # NoRequest /\ request[r].pc = pc
InFlight(ops) == {r \in Requests : request[r].op \in ops}

\* Requests that change an account and revoke its sessions.
Revoking == {"reset", "toggle", "role", "edit"}
Revokes(u) == \E r \in InFlight(Revoking) : request[r].user = u

\* Logins that have read the account before this step of request r.
Overtake(r, req) ==
  [q \in Requests |->
     IF request[q].op = "login" /\ request[q].user = request[r].user
     THEN [request[q] EXCEPT !.raced = TRUE] ELSE IF q = r THEN req ELSE request[q]]

\* _load_user: the cookie's session is active.  is_active is not looked at.
_load_user(s) == session[s].live

-----------------------------------------------------------------------------
(* Signing in and out *)

\* authenticate reads the row and verifies against the hash it holds.
LoginLookup(r, u) ==
  /\ account[u].active
  /\ Begin(r, [op |-> "login", pc |-> "session", user |-> u, pw |-> account[u].pw, raced |-> FALSE])
  /\ UNCHANGED <<account, session, token, report, history_>>

CreateSession(r) ==
  LET u == request[r].user IN
  /\ At(r, "session")
  /\ \E s \in SessionIds :
       /\ session[s] = NoSession /\ \A q \in SessionIds : q < s => session[q] # NoSession
       /\ session' = [session EXCEPT ![s] = [user |-> u, pw |-> request[r].pw, live |-> TRUE,
                                             raced |-> request[r].raced \/ Revokes(u)]]
  /\ Finish(r)
  /\ UNCHANGED <<account, token, report, history_>>

Logout(s) ==
  /\ _load_user(s) /\ "logout" \in menu
  /\ session' = [session EXCEPT ![s].live = FALSE]
  /\ UNCHANGED <<account, token, report, request, served, menu, history_>>

-----------------------------------------------------------------------------
(* Password reset *)

PurgeOf(u) == [t \in TokenIds |-> IF token[t].user = u THEN [token[t] EXCEPT !.st = "gone"] ELSE token[t]]

\* request_password_reset drops the account's tokens, then stores a new one.
ForgotPurge(r, u) ==
  /\ account[u].active
  /\ Begin(r, [op |-> "forgot", pc |-> "mint", user |-> u])
  /\ token' = PurgeOf(u)
  /\ UNCHANGED <<account, session, report, history_>>

MintToken(r) ==
  /\ At(r, "mint")
  /\ \E t \in TokenIds :
       /\ token[t].st = "none" /\ \A q \in TokenIds : q < t => token[q].st # "none"
       /\ token' = [token EXCEPT ![t] = [user |-> request[r].user, st |-> "valid", uses |-> 0]]
  /\ Finish(r)
  /\ UNCHANGED <<account, session, report, history_>>

\* A token that has expired is no longer found.
TokenExpires(t) ==
  /\ token[t].st = "valid"
  /\ token' = [token EXCEPT ![t].st = "gone"]
  /\ UNCHANGED <<account, session, report, request, served, menu, history_>>

ResetFind(r, t) ==
  /\ token[t].st = "valid"
  /\ Begin(r, [op |-> "reset", pc |-> "password", user |-> token[t].user, token |-> t])
  /\ shared' = shared \cup (IF \E q \in InFlight({"reset"}) : request[q].token = t THEN {t} ELSE {})
  /\ UNCHANGED <<account, session, token, report, orphaned, adminRace, mgrRace>>

\* set_password, of a reset and of the edit page.
SetPassword(r) ==
  LET u == request[r].user IN
  /\ At(r, "password") /\ account[u].pw < MaxPassword
  /\ account' = [account EXCEPT ![u].pw = @ + 1]
  /\ token' = IF request[r].op = "reset" THEN [token EXCEPT ![request[r].token].uses = @ + 1] ELSE token
  /\ request' = Overtake(r, [request[r] EXCEPT !.pc = IF request[r].op = "reset" THEN "revoke" ELSE "manager"])
  /\ UNCHANGED <<session, report, served, menu, history_>>

ConsumeToken_Skipped(r) ==
  /\ At(r, "consume")
  /\ Finish(r)
  /\ UNCHANGED <<account, session, token, report, history_>>

\* consume_reset_token, an UPDATE that finds the row or not.
ConsumeToken(r) ==
  LET t == request[r].token IN
  /\ At(r, "consume")
  /\ token' = IF token[t].st = "valid" THEN [token EXCEPT ![t].st = "used"] ELSE token
  /\ Goto(r, "purge")
  /\ UNCHANGED <<account, session, report, history_>>

PurgeTokens(r) ==
  /\ At(r, "purge")
  /\ token' = PurgeOf(request[r].user)
  /\ Finish(r)
  /\ UNCHANGED <<account, session, report, history_>>

-----------------------------------------------------------------------------
(* User management *)

BeginAdmin_Self(r, s, req) ==
  LET a == session[s].user IN
  /\ _load_user(s) /\ account[a].role = "admin"
  /\ Begin(r, req)
  /\ adminRace' = (\/ adminRace \/ ~account[a].active
                   \/ \E q \in InFlight(Revoking) : request[q].user = a)
  /\ UNCHANGED <<account, session, token, report, orphaned, shared, mgrRace>>

\* An admin route: the caller's session and role are read, the target is not
\* the caller, and the target's row is read.
BeginAdmin(r, s, req) ==
  LET a == session[s].user IN
  /\ _load_user(s) /\ account[a].role = "admin" /\ a # req.user
  /\ Begin(r, req)
  /\ adminRace' = (\/ adminRace \/ ~account[a].active
                   \/ \E q \in InFlight(Revoking) : request[q].user = a)
  /\ UNCHANGED <<account, session, token, report, orphaned, shared, mgrRace>>

toggle_active(r, s, u) ==
  BeginAdmin(r, s, [op |-> "toggle", pc |-> "active", user |-> u, active |-> ~account[u].active])

change_role(r, s, u, role) ==
  BeginAdmin(r, s, [op |-> "role", pc |-> "role", user |-> u, role |-> role])

edit(r, s, u, form) ==
  BeginAdmin(r, s, [op |-> "edit", pc |-> "role", user |-> u, role |-> form.role,
                    active |-> form.active, password |-> form.password, manager |-> form.manager])

SetRole(r) ==
  /\ At(r, "role")
  /\ account' = [account EXCEPT ![request[r].user].role = request[r].role]
  /\ Goto(r, IF request[r].op = "edit" THEN "active" ELSE "revoke")
  /\ UNCHANGED <<session, token, report, history_>>

SetActive(r) ==
  /\ At(r, "active")
  /\ account' = [account EXCEPT ![request[r].user].active = request[r].active]
  /\ request' = Overtake(r, [request[r] EXCEPT !.pc = "revoke"])
  /\ UNCHANGED <<session, token, report, served, menu, history_>>

AfterRevoke(r) ==
  CASE request[r].op = "reset" -> "consume"
    [] request[r].op = "edit"  -> IF request[r].password THEN "password" ELSE "manager"
    [] OTHER                   -> "end"

RevokeSessions_Newest(r) ==
  LET u == request[r].user
      mine == {s \in SessionIds : session[s].user = u} IN
  /\ At(r, "revoke")
  /\ session' = [s \in SessionIds |->
       IF s \in mine /\ \A q \in mine : q <= s THEN [session[s] EXCEPT !.live = FALSE] ELSE session[s]]
  /\ request' = Overtake(r, IF AfterRevoke(r) = "end" THEN NoRequest
                            ELSE [request[r] EXCEPT !.pc = AfterRevoke(r)])
  /\ orphaned' = orphaned \ {u}
  /\ UNCHANGED <<account, token, report, served, menu, shared, adminRace, mgrRace>>

\* delete_sessions_for_user.
RevokeSessions(r) ==
  LET u == request[r].user IN
  /\ At(r, "revoke")
  /\ session' = [s \in SessionIds |->
       IF session[s].user = u THEN [session[s] EXCEPT !.live = FALSE] ELSE session[s]]
  /\ request' = Overtake(r, IF AfterRevoke(r) = "end" THEN NoRequest
                            ELSE [request[r] EXCEPT !.pc = AfterRevoke(r)])
  /\ orphaned' = orphaned \ {u}
  /\ UNCHANGED <<account, token, report, served, menu, shared, adminRace, mgrRace>>

\* The managers above u, as many as the walk looks at; u itself is among them
\* when the walk meets it again.
manager_chain(u) ==
  LET up[n \in 0..MaxDepth] ==
        IF n = 0 THEN {}
        ELSE LET c == up[n - 1] IN
             c \cup ({account[v].mgr : v \in c \cup {u}} \ {NoUser})
  IN up[MaxDepth]

Assignable_OneLevel(u, m) ==
  m # u /\ m # NoUser /\ account[m].active /\ u # account[m].mgr

\* The checks of set_reporting_manager; no manager at all is refused too.
Assignable(u, m) ==
  m # u /\ m # NoUser /\ account[m].active /\ u \notin manager_chain(m)

CheckManager(r) ==
  LET ok == Assignable(request[r].user, request[r].manager) IN
  /\ At(r, "manager")
  /\ IF ok THEN Goto(r, "assign") ELSE Finish(r)
  /\ mgrRace' = (mgrRace \/ (ok /\ \E q \in Requests : At(q, "assign")))
  /\ UNCHANGED <<account, session, token, report, orphaned, shared, adminRace>>

AssignManager(r) ==
  /\ At(r, "assign")
  /\ account' = [account EXCEPT ![request[r].user].mgr = request[r].manager]
  /\ Finish(r)
  /\ UNCHANGED <<session, token, report, history_>>

-----------------------------------------------------------------------------
(* Reports *)

\* submit_report: the manager is read, the row inserted later.
SubmitReport(r, s) ==
  LET u == session[s].user IN
  /\ _load_user(s) /\ account[u].mgr # NoUser
  /\ Begin(r, [op |-> "submit", pc |-> "insert", user |-> u, manager |-> account[u].mgr])
  /\ UNCHANGED <<account, session, token, report, history_>>

InsertReport(r) ==
  /\ At(r, "insert")
  /\ \E i \in ReportIds :
       /\ report[i] = NoReport /\ \A q \in ReportIds : q < i => report[q] # NoReport
       /\ report' = [report EXCEPT ![i] = [NoReport EXCEPT !.by = request[r].user,
                                             !.mgr = request[r].manager, !.status = "submitted"]]
  /\ Finish(r)
  /\ UNCHANGED <<account, session, token, history_>>

MayReview(u, i) == report[i].mgr = u \/ account[u].role = "admin"

\* review_report: ownership is checked on a first read, the status, any of
\* REPORT_STATUSES, is written by a second statement.
ReviewReport(r, s, i, status) ==
  LET u == session[s].user IN
  /\ _load_user(s) /\ report[i] # NoReport /\ MayReview(u, i)
  /\ Begin(r, [op |-> "review", pc |-> "review", user |-> u, report |-> i, status |-> status,
               asAdmin |-> account[u].role = "admin"])
  /\ UNCHANGED <<account, session, token, report, history_>>

WriteReview(r) ==
  LET q == request[r] IN
  /\ At(r, "review")
  /\ report' = [report EXCEPT ![q.report].status = q.status, ![q.report].reviewer = q.user,
                              ![q.report].asAdmin = q.asAdmin]
  /\ Finish(r)
  /\ UNCHANGED <<account, session, token, history_>>

-----------------------------------------------------------------------------
\* A request stops between two of its transactions.
RequestDies(r) ==
  LET q == request[r] IN
  /\ q # NoRequest
  /\ orphaned' = orphaned \cup (IF q.pc = "revoke" THEN {q.user} ELSE {})
  /\ shared' = shared \cup (IF q.op = "reset" /\ q.pc \in {"revoke", "consume"} THEN {q.token} ELSE {})
  /\ Finish(r)
  /\ UNCHANGED <<account, session, token, report, adminRace, mgrRace>>

SessionStep(r) ==
  \/ CreateSession(r) \/ MintToken(r) \/ SetPassword(r) \/ ConsumeToken(r) \/ PurgeTokens(r)
  \/ \E u \in Users : LoginLookup(r, u) \/ ForgotPurge(r, u)
  \/ \E t \in TokenIds : ResetFind(r, t)

AdminStep(r) ==
  \/ SetRole(r) \/ SetActive(r) \/ RevokeSessions(r) \/ CheckManager(r) \/ AssignManager(r)
  \/ \E s \in SessionIds, u \in Users :
       \/ toggle_active(r, s, u)
       \/ \E role \in Roles : change_role(r, s, u, role)
       \/ \E form \in Forms : edit(r, s, u, form)

ReportStep(r) ==
  \/ InsertReport(r) \/ WriteReview(r)
  \/ \E s \in SessionIds : \/ SubmitReport(r, s)
                           \/ \E i \in ReportIds, st \in {"approved", "rejected"} : ReviewReport(r, s, i, st)

AccountsNext ==
  \/ \E r \in Requests : SessionStep(r) \/ AdminStep(r) \/ ReportStep(r) \/ RequestDies(r)
  \/ \E s \in SessionIds : Logout(s)
  \/ \E t \in TokenIds : TokenExpires(t)

AccountsSpec == AccountsInit /\ [][AccountsNext]_accountVars

-----------------------------------------------------------------------------
(* Properties *)

\* "Every live cookie for this account dies with the old password", and with
\* its deactivation: a live session belongs to an active account and was
\* opened with the password in force, except one whose login overlapped the
\* change and those a stopped request left.
LiveSessionsAreCurrent ==
  \A s \in SessionIds :
    LET u == session[s].user IN
    session[s].live /\ ~session[s].raced /\ u \notin orphaned /\ ~Revokes(u)
      => account[u].active /\ session[s].pw = account[u].pw

\* A reset link sets the password at most once, unless two requests had found
\* it valid together or one stopped before it was consumed.
TokenUsedOnce == \A t \in TokenIds \ shared : token[t].uses <= 1

\* Nobody can disable or demote himself, so an active administrator remains,
\* unless admins acted on each other at the same time or an inactive one
\* still had a session.
AdminRemains ==
  ~adminRace => \E u \in Users : account[u].active /\ account[u].role = "admin"

\* "Circular hierarchy is rejected", unless two assignments were checked
\* before either was made.
HierarchyIsAcyclic == ~mgrRace => \A u \in Users : u \notin manager_chain(u)

\* The submitter of a report never reviews it, also when managers are
\* reassigned while reports wait, except as an administrator.
SubmitterNeverReviews ==
  \A i \in ReportIds :
    report[i].reviewer # NoUser /\ ~report[i].asAdmin => report[i].reviewer # report[i].by

\* Reports go up: no one stands above himself in the hierarchy, and no one
\* reviews what he sent along it.
ReportingLinesSound == HierarchyIsAcyclic /\ SubmitterNeverReviews
=============================================================================
