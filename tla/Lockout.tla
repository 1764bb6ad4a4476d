------------------------------ MODULE Lockout -------------------------------
(***************************************************************************)
(* Failed logins of one account.  Each web process counts them in          *)
(* _failed_logins under one threading lock that spans the gate, the        *)
(* password check and the count, so a process has one attempt at a time;   *)
(* all processes count them in the account's rate_limit_state row too, in  *)
(* transactions of their own.  A lockout ends LOCKOUT_MINUTES after the    *)
(* first failure of its window.                                            *)
(***************************************************************************)
EXTENDS Integers, Sequences, FiniteSets

CONSTANTS Procs,                \* web processes
          MAX_FAILED_ATTEMPTS,
          LOCKOUT_MINUTES,
          MaxMinute,            \* minutes the clock may advance
          MaxLogins             \* attempts that get past the gates

ASSUME LockoutAssumption ==
  /\ IsFiniteSet(Procs) /\ MAX_FAILED_ATTEMPTS \in Nat \ {0}
  /\ LOCKOUT_MINUTES \in Nat /\ MaxMinute \in Nat /\ MaxLogins \in Nat

VARIABLES
  entries,    \* _failed_logins of each process: times, oldest first
  limit,      \* the row of rate_limit_state
  attempt,    \* step of the attempt each process is in
  minute,     \* the clock
  logins      \* attempts so far, bounded by MaxLogins

lockoutVars == <<entries, limit, attempt, minute, logins>>

NoLimit  == [count |-> 0, start |-> 0, expires |-> 0]
MaxCount == MAX_FAILED_ATTEMPTS + Cardinality(Procs) - 1

LockoutTypeOK ==
  /\ \A p \in Procs : Len(entries[p]) <= MAX_FAILED_ATTEMPTS
  /\ limit \in [count : Nat, start : 0..MaxMinute, expires : 0..(MaxMinute + LOCKOUT_MINUTES)]
  /\ attempt \in [Procs -> {"none", "gate", "verify", "append", "pop"}]
  /\ minute \in 0..MaxMinute /\ logins \in 0..MaxLogins

LockoutInit ==
  /\ entries = [p \in Procs |-> <<>>] /\ limit = NoLimit
  /\ attempt = [p \in Procs |-> "none"] /\ minute = 0 /\ logins = 0

-----------------------------------------------------------------------------
Elapsed(p) == entries[p] # <<>> /\ entries[p][1] < minute - LOCKOUT_MINUTES

\* Gate 1: the process' own entries; a full window refuses the attempt.
Gate(p) ==
  /\ attempt[p] = "none" /\ logins < MaxLogins
  /\ Elapsed(p) \/ Len(entries[p]) < MAX_FAILED_ATTEMPTS
  /\ entries' = IF Elapsed(p) THEN [entries EXCEPT ![p] = <<>>] ELSE entries
  /\ attempt' = [attempt EXCEPT ![p] = "gate"] /\ logins' = logins + 1
  /\ UNCHANGED <<limit, minute>>

\* Failures the row stands for: none once its window or its lease is over.
Counted == IF limit.start < minute - LOCKOUT_MINUTES \/ limit.expires < minute THEN 0 ELSE limit.count

Locked_AfterMax == Counted > MAX_FAILED_ATTEMPTS

Locked == Counted >= MAX_FAILED_ATTEMPTS

\* Gate 2.
_check_rate_limit(p) ==
  /\ attempt[p] = "gate"
  /\ attempt' = [attempt EXCEPT ![p] = IF Locked THEN "none" ELSE "verify"]
  /\ UNCHANGED <<entries, limit, minute, logins>>

\* A wrong password; the row's window starts again when the old one is over,
\* and every failure extends its lease.
_record_failed_attempt(p) ==
  LET old  == limit.count = 0 \/ limit.start < minute - LOCKOUT_MINUTES IN
  /\ attempt[p] = "verify"
  /\ limit' = [count |-> IF old THEN 1 ELSE limit.count + 1,
               start |-> IF old THEN minute ELSE limit.start,
               expires |-> minute + LOCKOUT_MINUTES]
  /\ attempt' = [attempt EXCEPT ![p] = "append"]
  /\ UNCHANGED <<entries, minute, logins>>

AppendEntry(p) ==
  /\ attempt[p] = "append"
  /\ entries' = [entries EXCEPT ![p] = Append(@, minute)]
  /\ attempt' = [attempt EXCEPT ![p] = "none"]
  /\ UNCHANGED <<limit, minute, logins>>

\* The right password clears the shared row, then this process' entries only.
_clear_rate_limit(p) ==
  /\ attempt[p] = "verify"
  /\ limit' = NoLimit
  /\ attempt' = [attempt EXCEPT ![p] = "pop"]
  /\ UNCHANGED <<entries, minute, logins>>

PopEntries(p) ==
  /\ attempt[p] = "pop"
  /\ entries' = [entries EXCEPT ![p] = <<>>]
  /\ attempt' = [attempt EXCEPT ![p] = "none"]
  /\ UNCHANGED <<limit, minute, logins>>

\* A worker that is restarted forgets its entries and its attempt.
Restart(p) ==
  /\ entries' = [entries EXCEPT ![p] = <<>>]
  /\ attempt' = [attempt EXCEPT ![p] = "none"]
  /\ UNCHANGED <<limit, minute, logins>>

\* The retention job drops rows whose lease is over.
sp_retention_purge_rate_limit_state ==
  /\ limit.count > 0 /\ limit.expires < minute
  /\ limit' = NoLimit
  /\ UNCHANGED <<entries, attempt, minute, logins>>

Minute ==
  /\ minute < MaxMinute /\ minute' = minute + 1
  /\ UNCHANGED <<entries, limit, attempt, logins>>

LockoutNext ==
  \/ \E p \in Procs : \/ Gate(p) \/ _check_rate_limit(p) \/ _record_failed_attempt(p)
                      \/ AppendEntry(p) \/ _clear_rate_limit(p) \/ PopEntries(p) \/ Restart(p)
  \/ sp_retention_purge_rate_limit_state \/ Minute

LockoutSpec == LockoutInit /\ [][LockoutNext]_lockoutVars

-----------------------------------------------------------------------------
(* Properties *)

\* However attempts of several processes interleave, and through restarts,
\* logins that succeed, windows that end and purges, one window takes at most
\* one failure per process beyond the threshold: those whose check came
\* before the failure that reached it.
LockoutBound == limit.count <= MaxCount
=============================================================================
