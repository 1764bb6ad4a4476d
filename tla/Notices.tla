------------------------------ MODULE Notices -------------------------------
(***************************************************************************)
(* Notifications.  A dashboard that is not cached starts a daemon thread   *)
(* that runs the stock checks behind get_or_set on global_cache: one       *)
(* notification for each product that is low or out, and each active       *)
(* manager.  The key that throttles the checks lives in the cache that     *)
(* every write busts.  Each check reads, and each product's rows are       *)
(* written, in transactions of their own.  The notification center marks   *)
(* and deletes rows meanwhile.                                             *)
(***************************************************************************)
EXTENDS Integers, FiniteSets

CONSTANTS Checkers,      \* daemon threads
          NoChecker,     \* owner of the free rebuild lock
          Goods,         \* products
          Staff,         \* admins and managers
          MaxNotices,    \* rows of notifications
          MaxReopened    \* times the throttle opens again

ASSUME NoticesAssumption ==
  /\ NoChecker \notin Checkers /\ IsFiniteSet(Staff)
  /\ MaxNotices \in Nat /\ MaxReopened \in Nat

NoticeIds == 1..MaxNotices
Levels    == {"ok", "low", "out"}

VARIABLES
  level,      \* stock level of each product; "out" is low too
  staff,      \* the active ones
  notices,    \* notifications: id -> [user, about, st]
  checker,    \* what each thread does
  checkLock,  \* the rebuild lock of 'notif_monitor_last'
  checked,    \* 'notif_monitor_last' is cached
  reopened    \* history: how often the entry was dropped or a check failed

noticeVars == <<level, staff, notices, checker, checkLock, checked, reopened>>

NoNotice == [user |-> "none", about |-> <<"none", "none">>, st |-> "none"]
Asleep   == [pc |-> "asleep", todo |-> {}, users |-> {}]
Subjects == {"reorder", "out"} \X Goods

NoticesTypeOK ==
  /\ level \in [Goods -> Levels] /\ staff \subseteq Staff
  /\ \A i \in NoticeIds : notices[i] = NoNotice \/
       notices[i] \in [user : Staff, about : Subjects, st : {"unread", "read", "gone"}]
  /\ checker \in [Checkers ->
       [pc : {"asleep", "wait", "recheck", "stale", "reorder", "out", "set"},
        todo : SUBSET Subjects, users : SUBSET Staff]]
  /\ checkLock \in Checkers \cup {NoChecker}
  /\ checked \in BOOLEAN /\ reopened \in 0..MaxReopened
  \* the thread that checks holds the lock, and leaves it to the next
  /\ \A c \in Checkers : checkLock = c <=> checker[c].pc \notin {"asleep", "wait"}

NoticesInit ==
  /\ level = [p \in Goods |-> "ok"] /\ staff = Staff
  /\ notices = [i \in NoticeIds |-> NoNotice]
  /\ checker = [c \in Checkers |-> Asleep] /\ checkLock = NoChecker
  /\ checked = FALSE /\ reopened = 0

-----------------------------------------------------------------------------
(* run_monitoring_checks *)

CheckAt(c, pc)   == checker[c].pc = pc
CheckGoto(c, pc) == checker' = [checker EXCEPT ![c] = [@ EXCEPT !.pc = pc, !.todo = {}, !.users = {}]]
Sleep(c)    == checker' = [checker EXCEPT ![c] = Asleep] /\ checkLock' = NoChecker

\* get() misses.
StartChecks(c) ==
  /\ CheckAt(c, "asleep") /\ ~checked
  /\ CheckGoto(c, "wait")
  /\ UNCHANGED <<level, staff, notices, checkLock, checked, reopened>>

LockChecks(c) ==
  /\ CheckAt(c, "wait") /\ checkLock = NoChecker
  /\ checkLock' = c /\ CheckGoto(c, "recheck")
  /\ UNCHANGED <<level, staff, notices, checked, reopened>>

RecheckEntry_Skipped(c) ==
  /\ CheckAt(c, "recheck")
  /\ CheckGoto(c, "stale")
  /\ UNCHANGED <<level, staff, notices, checkLock, checked, reopened>>

\* The second look, under the lock.
RecheckEntry(c) ==
  /\ CheckAt(c, "recheck")
  /\ IF checked THEN Sleep(c) ELSE CheckGoto(c, "stale") /\ UNCHANGED checkLock
  /\ UNCHANGED <<level, staff, notices, checked, reopened>>

Rows == {i \in NoticeIds : notices[i] # NoNotice}

\* The oldest rows, any number of them, are older than 30 days.
clear_stale_notifications(c) ==
  /\ CheckAt(c, "stale")
  /\ \E k \in 0..Cardinality(Rows) :
       notices' = [i \in NoticeIds |-> IF i <= k THEN [notices[i] EXCEPT !.st = "gone"] ELSE notices[i]]
  /\ CheckGoto(c, "reorder")
  /\ UNCHANGED <<level, staff, checkLock, checked, reopened>>

\* The products a check is about: on_order is part of the level.
Concerned(kind) ==
  {<<kind, p>> : p \in {q \in Goods : level[q] = "out" \/ (kind = "reorder" /\ level[q] = "low")}}

\* check_reorder_alerts and check_out_of_stock: the products ...
ReadGoods(c, kind, next) ==
  /\ CheckAt(c, kind) /\ checker[c].todo = {}
  /\ IF Concerned(kind) = {} THEN CheckGoto(c, next)
     ELSE checker' = [checker EXCEPT ![c].todo = Concerned(kind)]
  /\ UNCHANGED <<level, staff, notices, checkLock, checked, reopened>>

\* ... the users, if there are any ...
ReadStaff(c, kind, next) ==
  /\ CheckAt(c, kind) /\ checker[c].todo # {} /\ checker[c].users = {}
  /\ IF staff = {} THEN CheckGoto(c, next) ELSE checker' = [checker EXCEPT ![c].users = staff]
  /\ UNCHANGED <<level, staff, notices, checkLock, checked, reopened>>

_bulk_create(users, about) ==
  LET n == Cardinality(Rows) IN
  \E f \in [1..Cardinality(users) -> users] :
    /\ \A u \in users : \E i \in DOMAIN f : f[i] = u
    /\ n + Cardinality(users) <= MaxNotices
    /\ notices' = [i \in NoticeIds |->
         IF i - n \in DOMAIN f THEN [user |-> f[i - n], about |-> about, st |-> "unread"] ELSE notices[i]]

\* ... and the rows of one product after the other.
SendNotices(c, kind, next) ==
  /\ CheckAt(c, kind) /\ checker[c].users # {}
  /\ \E t \in checker[c].todo :
       /\ _bulk_create(checker[c].users, t)
       /\ IF checker[c].todo = {t} THEN CheckGoto(c, next) ELSE checker' = [checker EXCEPT ![c].todo = @ \ {t}]
  /\ UNCHANGED <<level, staff, checkLock, checked, reopened>>

Check(c, kind, next) == ReadGoods(c, kind, next) \/ ReadStaff(c, kind, next) \/ SendNotices(c, kind, next)

StoreChecked(c) ==
  /\ CheckAt(c, "set")
  /\ checked' = TRUE /\ Sleep(c)
  /\ UNCHANGED <<level, staff, notices, reopened>>

\* A query fails: nothing is cached, what was sent is not taken back.
ChecksFail(c) ==
  /\ ~CheckAt(c, "asleep") /\ ~CheckAt(c, "wait") /\ reopened < MaxReopened
  /\ Sleep(c) /\ reopened' = reopened + 1
  /\ UNCHANGED <<level, staff, notices, checked>>

\* The ten minutes are over, or some write busts global_cache.
Reopen ==
  /\ checked /\ reopened < MaxReopened
  /\ checked' = FALSE /\ reopened' = reopened + 1
  /\ UNCHANGED <<level, staff, notices, checker, checkLock>>

-----------------------------------------------------------------------------
(* Others *)

StockChanges(p, l) ==
  /\ level[p] # l /\ level' = [level EXCEPT ![p] = l]
  /\ UNCHANGED <<staff, notices, checker, checkLock, checked, reopened>>

StaffChanges(u) ==
  /\ staff' = (staff \cup {u}) \ (staff \cap {u})
  /\ UNCHANGED <<level, notices, checker, checkLock, checked, reopened>>

Mine(u, st) == {i \in NoticeIds : notices[i].user = u /\ notices[i].st \in st}

Mark(ids, st) ==
  /\ ids # {}
  /\ notices' = [i \in NoticeIds |-> IF i \in ids THEN [notices[i] EXCEPT !.st = st] ELSE notices[i]]
  /\ UNCHANGED <<level, staff, checker, checkLock, checked, reopened>>

mark_read(u)           == \E i \in Mine(u, {"unread"}) : Mark({i}, "read")
mark_all_read(u)       == Mark(Mine(u, {"unread"}), "read")
delete_notification(u) == \E i \in Mine(u, {"unread", "read"}) : Mark({i}, "gone")

NoticesNext ==
  \/ \E c \in Checkers : \/ StartChecks(c) \/ LockChecks(c) \/ RecheckEntry(c)
                         \/ clear_stale_notifications(c)
                         \/ Check(c, "reorder", "out") \/ Check(c, "out", "set")
                         \/ StoreChecked(c) \/ ChecksFail(c)
  \/ \E p \in Goods, l \in Levels : StockChanges(p, l)
  \/ \E u \in Staff : StaffChanges(u) \/ mark_read(u) \/ mark_all_read(u) \/ delete_notification(u)
  \/ Reopen

NoticesSpec == NoticesInit /\ [][NoticesNext]_noticeVars

-----------------------------------------------------------------------------
(* Properties *)

\* "concurrent cold callers cannot both pass the guard and double-fire the
\* checks": nobody is told of a product more often than the throttle was
\* opened, by a bust, by its ten minutes or by a check that failed.
NoticesThrottled ==
  \A u \in Staff, s \in Subjects :
    Cardinality({i \in NoticeIds : notices[i].user = u /\ notices[i].about = s}) <= 1 + reopened
=============================================================================
