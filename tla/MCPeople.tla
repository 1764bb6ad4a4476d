------------------------------ MODULE MCPeople ------------------------------
(***************************************************************************)
(* Values for TLC of the parts that serve the users: the login lockout,    *)
(* accounts with their sessions and reports, scheduled audit reports and   *)
(* notifications.  They share no state, so a behaviour is one of one of    *)
(* them; focus says which.                                                 *)
(***************************************************************************)
EXTENDS Lockout, Accounts, AuditReports, Notices

CONSTANTS a1, a2

\* Two administrators and a viewer, each the manager of the next, signed in.
Role    == [ann |-> "admin", bob |-> "admin", cat |-> "viewer"]
Manager == [ann |-> NoUser, bob |-> "ann", cat |-> "bob"]
SignedIn == <<"ann", "bob", "cat">>

\* A new password and manager, a deactivation, a change of the hierarchy.
EditForms ==
  {[role |-> "viewer", active |-> TRUE, password |-> TRUE, manager |-> "ann"],
   [role |-> "admin", active |-> FALSE, password |-> FALSE, manager |-> "bob"],
   [role |-> "manager", active |-> TRUE, password |-> FALSE, manager |-> "cat"]}

\* Requests that touch the same rows.
RequestMixes ==
  {{"login", "logout", "reset", "forgot"}, {"login", "edit"},
   {"toggle", "role", "login"}, {"edit", "submit", "review"}}

\* Every component's variables have their types.
TypeOK == LockoutTypeOK /\ AccountsTypeOK /\ ReportsTypeOK /\ NoticesTypeOK

VARIABLE focus

Init ==
  /\ focus \in {"lockout", "accounts", "reports", "notices"}
  /\ LockoutInit /\ AccountsInit /\ ReportsInit /\ NoticesInit
  /\ focus # "accounts" => menu = {"login", "edit"}

Next ==
  /\ UNCHANGED focus
  /\ \/ focus = "lockout" /\ LockoutNext /\ UNCHANGED <<accountVars, reportVars, noticeVars>>
     \/ focus = "accounts" /\ AccountsNext /\ UNCHANGED <<lockoutVars, reportVars, noticeVars>>
     \/ focus = "reports" /\ ReportsNext /\ UNCHANGED <<lockoutVars, accountVars, noticeVars>>
     \/ focus = "notices" /\ NoticesNext /\ UNCHANGED <<lockoutVars, accountVars, reportVars>>

Spec == Init /\ [][Next]_<<focus, lockoutVars, accountVars, reportVars, noticeVars>>
=============================================================================
