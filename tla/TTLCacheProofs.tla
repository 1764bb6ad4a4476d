--------------------------- MODULE TTLCacheProofs ---------------------------
(***************************************************************************)
(* Theorems about the read-through caches, for any set of views read       *)
(* together, any number of threads and of writes.                          *)
(***************************************************************************)
EXTENDS TTLCache, FiniteSetTheorems, SequenceTheorems, WellFoundedInduction, TLAPS

-----------------------------------------------------------------------------
(* Threads *)

Reading == [pc : {"get", "wait", "check", "produce", "set"}, entry : entries,
            done : Nat, seen : [Kinds -> Int]]

Calls == {c \in Seq(Call) : Len(c) > 0}
Busts == [pc : {"bust"}, calls : Calls]

\* TypeOK without the bound on the writes, which is a sum over their kinds.
Shape ==
  /\ entries \subseteq DOMAIN Views
  /\ committed \in [Kinds -> Int]
  /\ DOMAIN store = entries
  /\ keyLock \in [entries -> Threads \cup {NoThread}]
  /\ thread \in [Threads -> Reading \cup Busts \cup {Idle}]

\* What a thread's pc says about it.
LEMMA ThreadKind ==
  ASSUME Shape, NEW t \in Threads
  PROVE  /\ thread[t].pc \in {"get", "wait", "check", "produce", "set"} =>
              thread[t] \in Reading /\ thread[t].entry \in entries
         /\ thread[t].pc = "bust" => thread[t] \in Busts
         /\ thread[t].pc = "idle" => thread[t] = Idle
BY DEF Shape, Reading, Busts, Idle

LEMMA SeeType ==
  ASSUME Shape, NEW seen \in [Kinds -> Int], NEW tables
  PROVE  See(seen, tables) \in [Kinds -> Int]
BY DEF Shape, See

\* Lists of the lengths that the cache_bust_* functions have.
LEMMA Lists ==
  ASSUME NEW S, NEW a \in S, NEW b \in S, NEW c \in S, NEW d \in S, NEW e \in S, NEW f \in S
  PROVE  /\ <<a>> \in Seq(S) /\ Len(<<a>>) = 1
         /\ <<a, b>> \in Seq(S) /\ Len(<<a, b>>) = 2
         /\ <<a, b, c, d>> \in Seq(S) /\ Len(<<a, b, c, d>>) = 4
         /\ <<a, b, c, d, e>> \in Seq(S) /\ Len(<<a, b, c, d, e>>) = 5
         /\ <<a, b, c, d, e, f>> \in Seq(S) /\ Len(<<a, b, c, d, e, f>>) = 6
OBVIOUS

LEMMA ShortCallLists ==
  ASSUME NEW a \in Call, NEW b \in Call
  PROVE  <<a>> \in Calls /\ <<a, b>> \in Calls
BY Lists DEF Calls

LEMMA CallLists ==
  ASSUME NEW a \in Call, NEW b \in Call, NEW c \in Call, NEW d \in Call, NEW e \in Call,
         NEW f \in Call
  PROVE  /\ <<a, b, c, d>> \in Calls /\ <<a, b, c, d, e>> \in Calls
         /\ <<a, b, c, d, e, f>> \in Calls
BY Lists DEF Calls

\* The calls that follow a write.
LEMMA BustCallsType ==
  ASSUME NEW k \in Kinds
  PROVE  BustCalls(k) \in Calls
<1>1. /\ <<"products", "">> \in Call /\ <<"dashboard", "dashboard:">> \in Call
      /\ <<"reports", "">> \in Call /\ <<"reports", "reports:">> \in Call
      /\ <<"global", "">> \in Call /\ <<"api", "product">> \in Call
      /\ <<"api", "suppliers">> \in Call /\ <<"api", "movements">> \in Call
      /\ <<"api", "purchase_orders">> \in Call /\ <<"api", "purchase_orders:board">> \in Call
      /\ <<"api", "settings">> \in Call /\ <<"landing", "">> \in Call
      /\ <<"suppliers", "">> \in Call /\ <<"monitoring", "">> \in Call
  BY DEF Call
<1> HIDE DEF Call
<1>2. BustProducts \in Calls
  BY <1>1, CallLists DEF BustProducts
<1>3. BustSuppliers \in Calls
  BY <1>1, CallLists DEF BustSuppliers
<1>4. BustMovements \in Calls
  BY <1>1, CallLists DEF BustMovements
<1>5. BustOrders \in Calls
  BY <1>1, CallLists DEF BustOrders
<1>6. BustSettings \in Calls
  BY <1>1, ShortCallLists DEF BustSettings
<1>7. <<<<"monitoring", "">>>> \in Calls
  BY <1>1, ShortCallLists
<1>8. QED
  BY <1>2, <1>3, <1>4, <1>5, <1>6, <1>7 DEF BustCalls, Kinds

LEMMA Tails ==
  ASSUME NEW S, NEW c \in Seq(S), Len(c) > 0, Len(c) # 1
  PROVE  /\ Tail(c) \in Seq(S) /\ Len(Tail(c)) = Len(c) - 1 /\ Len(Tail(c)) > 0
         /\ \A i \in 1..Len(c) - 1 : Tail(c)[i] = c[i + 1]
<1>1. Tail(c) \in Seq(S) /\ Len(Tail(c)) = Len(c) - 1 /\ Len(Tail(c)) > 0
  OBVIOUS
<1>2. \A i \in 1..Len(c) - 1 : Tail(c)[i] = c[i + 1]
  OBVIOUS
<1>3. QED
  BY <1>1, <1>2

\* What is left of a list of calls after its first.
LEMMA TailOfCalls ==
  ASSUME NEW c \in Calls, Len(c) # 1
  PROVE  /\ Tail(c) \in Calls /\ Len(Tail(c)) = Len(c) - 1
         /\ \A i \in 1..Len(c) - 1 : Tail(c)[i] = c[i + 1]
<1>1. c \in Seq(Call) /\ Len(c) > 0
  BY DEF Calls
<1>2. QED
  BY <1>1, Tails DEF Calls

\* A step of thread t alone.
OnlyThread(t) == \A u \in Threads : u # t => thread'[u] = thread[u]

LEMMA BecomeThread ==
  ASSUME Shape, NEW t \in Threads, NEW state, Become(t, state)
  PROVE  /\ thread'[t] = state /\ OnlyThread(t)
         /\ state \in Reading \cup Busts \cup {Idle} =>
              thread' \in [Threads -> Reading \cup Busts \cup {Idle}]
BY DEF Shape, Become, OnlyThread

LEMMA GotoThread ==
  ASSUME Shape, NEW t \in Threads, thread[t].pc \in {"get", "wait", "check"},
         NEW pc \in {"wait", "check", "produce"}, Goto(t, pc)
  PROVE  /\ thread'[t].pc = pc /\ thread'[t].entry = thread[t].entry /\ OnlyThread(t)
         /\ thread' \in [Threads -> Reading \cup Busts \cup {Idle}]
<1>1. thread[t] \in Reading
  BY ThreadKind
<1>2. [thread[t] EXCEPT !.pc = pc] \in Reading
  BY <1>1 DEF Reading
<1>3. thread' = [thread EXCEPT ![t] = [thread[t] EXCEPT !.pc = pc]]
  BY DEF Goto
<1>4. [thread[t] EXCEPT !.pc = pc].pc = pc /\ [thread[t] EXCEPT !.pc = pc].entry = thread[t].entry
  BY <1>1 DEF Reading
<1>5. QED
  BY <1>2, <1>3, <1>4 DEF Shape, OnlyThread

\* One batch of queries: the thread reads on or has its value.
LEMMA ProduceThread ==
  ASSUME Shape, NEW t \in Threads, Produce(t)
  PROVE  /\ thread[t].pc = "produce" /\ thread'[t].pc \in {"produce", "set"}
         /\ thread'[t].entry = thread[t].entry /\ OnlyThread(t)
         /\ thread' \in [Threads -> Reading \cup Busts \cup {Idle}]
<1> DEFINE th == thread[t]
           reads == Views[th.entry].reads
           pc == IF th.done + 1 = Len(reads) THEN "set" ELSE "produce"
           seen == See(th.seen, reads[th.done + 1])
           new == [th EXCEPT !.done = @ + 1, !.seen = See(@, reads[th.done + 1]), !.pc = pc]
<1>1. th.pc = "produce" /\ Become(t, new)
  BY DEF Produce
<1>2. th \in Reading
  BY <1>1, ThreadKind
<1>3. seen \in [Kinds -> Int] /\ th.done + 1 \in Nat /\ pc \in {"produce", "set"}
  BY <1>2, SeeType DEF Reading
<1>4. new = [th EXCEPT !.done = th.done + 1, !.seen = seen, !.pc = pc]
  BY <1>2 DEF Reading
<1> HIDE DEF seen, pc
<1>5. /\ new \in Reading
      /\ new.pc = pc /\ new.entry = th.entry
  BY <1>2, <1>3, <1>4 DEF Reading
<1> HIDE DEF new
<1>6. QED
  BY <1>1, <1>3, <1>5, BecomeThread

-----------------------------------------------------------------------------
(* The rebuild locks *)

\* The thread is inside the locked part of get_or_set for entry e.
InLock(t, e) == /\ e \notin Unlocked
                /\ thread[t].pc \in {"check", "produce", "set"}
                /\ thread[t].entry = e

\* The lock's owner is the thread inside, and the settings, which are loaded
\* without a lock, never wait for one.
LockInv ==
  /\ Shape
  /\ \A t \in Threads, e \in entries : keyLock[e] = t <=> InLock(t, e)
  /\ \A t \in Threads : thread[t].pc \in {"wait", "check"} => thread[t].entry \notin Unlocked

\* A step that takes thread t neither in nor out.
LEMMA LockFrame ==
  ASSUME LockInv, Shape', NEW t \in Threads, OnlyThread(t), UNCHANGED <<entries, keyLock>>,
         \A e \in entries : InLock(t, e)' <=> InLock(t, e),
         thread'[t].pc \in {"wait", "check"} => thread'[t].entry \notin Unlocked
  PROVE  LockInv'
<1>1. \A u \in Threads, e \in entries : InLock(u, e)' <=> InLock(u, e)
  BY DEF InLock, OnlyThread
<1>2. QED
  BY <1>1 DEF LockInv, OnlyThread

\* The end of get_or_set: thread t leaves and the lock is free, if it had one.
LEMMA LeaveFrame ==
  ASSUME LockInv, Shape', NEW t \in Threads, OnlyThread(t), entries' = entries,
         thread[t].pc \in {"check", "produce", "set"}, thread'[t] = Idle,
         IF thread[t].entry \in Unlocked THEN UNCHANGED keyLock ELSE Unlock(thread[t].entry)
  PROVE  LockInv'
<1>1. thread[t].entry \in entries /\ thread'[t].pc = "idle"
  BY ThreadKind DEF LockInv, Idle
<1>2. \A u \in Threads, e \in entries : InLock(u, e)' <=> InLock(u, e) /\ u # t
  BY <1>1 DEF InLock, OnlyThread
<1>3. \A e \in entries : keyLock'[e] = IF e = thread[t].entry /\ e \notin Unlocked
                                      THEN NoThread ELSE keyLock[e]
  BY <1>1 DEF Unlock, LockInv, Shape
<1>4. \A u \in Threads, e \in entries : keyLock'[e] = u <=> InLock(u, e)'
  <2>1. SUFFICES ASSUME NEW u \in Threads, NEW e \in entries
                 PROVE  keyLock'[e] = u <=> InLock(u, e) /\ u # t
    BY <1>2
  <2>2. CASE e = thread[t].entry /\ e \notin Unlocked
    <3>1. keyLock[e] = t /\ keyLock'[e] = NoThread
      BY <1>3, <2>2 DEF LockInv, InLock
    <3>2. InLock(u, e) => u = t
      BY <3>1 DEF LockInv
    <3>3. QED
      BY <3>1, <3>2, NoThreadAssumption
  <2>3. CASE ~(e = thread[t].entry /\ e \notin Unlocked)
    <3>1. keyLock'[e] = keyLock[e] /\ ~InLock(t, e)
      BY <1>3, <2>3 DEF InLock
    <3>2. QED
      BY <3>1 DEF LockInv
  <2>4. QED
    BY <2>2, <2>3
<1>5. QED
  BY <1>1, <1>4 DEF LockInv, OnlyThread

LEMMA LockStep ==
  ASSUME LockInv, [Next]_vars
  PROVE  LockInv'
<1> Shape
  BY DEF LockInv
<1>1. ASSUME NEW t \in Threads, NEW e \in entries, Request(t, e)
      PROVE  LockInv'
  <2> DEFINE new == [pc |-> "get", entry |-> e, done |-> 0, seen |-> See(NothingSeen, Views[e].before)]
  <2>1. new \in Reading
    <3>1. NothingSeen \in [Kinds -> Int]
      BY MaxWritesAssumption DEF NothingSeen
    <3>2. QED
      BY <3>1, SeeType DEF Reading
  <2>2. thread[t] = Idle /\ Become(t, new) /\ new.pc = "get"
    BY <1>1 DEF Request
  <2> HIDE DEF new
  <2>3. Shape' /\ OnlyThread(t) /\ thread'[t].pc = "get"
    BY <1>1, <2>1, <2>2, BecomeThread DEF Request, Shape, Reading
  <2>4. QED
    BY <1>1, <2>2, <2>3, LockFrame DEF Request, InLock, Idle
<1>2. ASSUME NEW t \in Threads, Get(t)
      PROVE  LockInv'
  <2>1. thread[t].pc = "get" /\ UNCHANGED <<entries, committed, store, keyLock>>
    BY <1>2 DEF Get
  <2>2. CASE Become(t, Idle)
    <3>1. Shape' /\ OnlyThread(t) /\ thread'[t].pc = "idle"
      BY <2>1, <2>2, BecomeThread DEF Shape, Idle, Reading
    <3>2. QED
      BY <2>1, <3>1, LockFrame DEF InLock
  <2>3. CASE Goto(t, IF thread[t].entry \in Unlocked THEN "produce" ELSE "wait")
    <3>1. /\ Shape' /\ OnlyThread(t) /\ thread'[t].entry = thread[t].entry
          /\ thread'[t].pc = IF thread[t].entry \in Unlocked THEN "produce" ELSE "wait"
      BY <2>1, <2>3, GotoThread DEF Shape, Reading
    <3>2. QED
      BY <2>1, <3>1, LockFrame DEF InLock
  <2>4. QED
    BY <1>2, <2>2, <2>3 DEF Get
<1>3. ASSUME NEW t \in Threads, Acquire(t)
      PROVE  LockInv'
  <2> DEFINE e == thread[t].entry
  <2>1. /\ thread[t].pc = "wait" /\ e \in entries /\ e \notin Unlocked /\ keyLock[e] = NoThread
        /\ keyLock' = [keyLock EXCEPT ![e] = t] /\ UNCHANGED <<entries, committed, store>>
    BY <1>3, ThreadKind DEF Acquire, KeyFree, LockInv
  <2>2. /\ thread'[t].pc = "check" /\ thread'[t].entry = e /\ OnlyThread(t)
        /\ thread' \in [Threads -> Reading \cup Busts \cup {Idle}]
    BY <1>3, <2>1, GotoThread DEF Acquire
  <2>3. Shape'
    BY <2>1, <2>2 DEF Shape, Reading
  <2>4. \A u \in Threads, x \in entries : u # t => (InLock(u, x)' <=> InLock(u, x))
    BY <2>2 DEF InLock, OnlyThread
  <2>5. \A x \in entries : (InLock(t, x)' <=> x = e) /\ ~InLock(t, x)
    BY <2>1, <2>2 DEF InLock
  <2>6. \A u \in Threads : ~InLock(u, e)
    BY <2>1, NoThreadAssumption DEF LockInv
  <2>7. /\ keyLock'[e] = t
        /\ \A x \in entries : x # e => keyLock'[x] = keyLock[x]
    BY <2>1 DEF Shape
  <2>8. \A u \in Threads, x \in entries : keyLock'[x] = u <=> InLock(u, x)'
    BY <2>4, <2>5, <2>6, <2>7 DEF LockInv
  <2>9. QED
    BY <2>1, <2>2, <2>3, <2>8 DEF LockInv, OnlyThread
<1>4. ASSUME NEW t \in Threads, Recheck(t)
      PROVE  LockInv'
  <2>1. thread[t].pc = "check" /\ UNCHANGED <<entries, committed, store>>
        /\ thread[t].entry \in entries /\ thread[t].entry \notin Unlocked
    BY <1>4, ThreadKind DEF Recheck, LockInv
  <2>2. CASE Unlock(thread[t].entry) /\ Become(t, Idle)
    <3>1. thread'[t] = Idle /\ OnlyThread(t) /\ Shape'
      BY <2>1, <2>2, BecomeThread DEF Shape, Unlock, Reading
    <3>2. QED
      BY <2>1, <2>2, <3>1, LeaveFrame
  <2>3. CASE Goto(t, "produce") /\ UNCHANGED keyLock
    <3>1. /\ Shape' /\ OnlyThread(t) /\ thread'[t].entry = thread[t].entry
          /\ thread'[t].pc = "produce"
      BY <2>1, <2>3, GotoThread DEF Shape, Reading
    <3>2. QED
      BY <2>1, <2>3, <3>1, LockFrame DEF InLock
  <2>4. QED
    BY <1>4, <2>2, <2>3 DEF Recheck
<1>5. ASSUME NEW t \in Threads, Produce(t)
      PROVE  LockInv'
  <2>1. Shape' /\ UNCHANGED <<entries, keyLock>>
    BY <1>5, ProduceThread DEF Produce, Shape, Reading
  <2>2. QED
    BY <1>5, <2>1, ProduceThread, LockFrame DEF InLock
<1>6. ASSUME NEW t \in Threads, ProduceFails(t) \/ Set(t)
      PROVE  LockInv'
  <2>1. /\ thread[t].pc \in {"produce", "set"} /\ UNCHANGED <<entries, committed>>
        /\ Become(t, Idle) /\ DOMAIN store' = DOMAIN store
        /\ IF thread[t].entry \in Unlocked THEN UNCHANGED keyLock ELSE Unlock(thread[t].entry)
    BY <1>6 DEF ProduceFails, Set
  <2>2. thread'[t] = Idle /\ OnlyThread(t) /\ Shape'
    BY <2>1, BecomeThread, ThreadKind DEF Shape, Unlock, Reading
  <2>3. QED
    BY <2>1, <2>2, LeaveFrame
<1>7. ASSUME NEW t \in Threads, Invalidate(t)
      PROVE  LockInv'
  <2> DEFINE calls == thread[t].calls
             new == IF Len(calls) = 1 THEN Idle ELSE [pc |-> "bust", calls |-> Tail(calls)]
  <2>1. thread[t].pc = "bust" /\ calls \in Calls
    BY <1>7, ThreadKind DEF Invalidate, Busts
  <2>2. new \in Busts \cup {Idle} /\ new.pc \in {"bust", "idle"}
    BY <2>1, TailOfCalls DEF Busts, Idle
  <2>3. Become(t, new) /\ UNCHANGED <<entries, committed, keyLock>> /\ DOMAIN store' = entries
    BY <1>7 DEF Invalidate
  <2> HIDE DEF new
  <2>4. Shape' /\ OnlyThread(t) /\ thread'[t].pc \in {"bust", "idle"}
    BY <2>2, <2>3, BecomeThread DEF Shape, Reading
  <2>5. QED
    BY <2>1, <2>3, <2>4, LockFrame DEF InLock
<1>8. ASSUME NEW t \in Threads, NEW k \in Writes, Commit(t, k)
      PROVE  LockInv'
  <2> DEFINE new == [pc |-> "bust", calls |-> BustCalls(k)]
  <2>1. k \in Kinds
    BY DEF Writes
  <2>2. new \in Busts /\ new.pc = "bust"
    BY <2>1, BustCallsType DEF Busts
  <2>3. /\ Become(t, new) /\ UNCHANGED <<entries, store, keyLock>> /\ thread[t] = Idle
        /\ committed' = [committed EXCEPT ![k] = @ + 1]
    BY <1>8 DEF Commit
  <2> HIDE DEF new
  <2>4. Shape' /\ OnlyThread(t) /\ thread'[t].pc = "bust"
    BY <2>1, <2>2, <2>3, BecomeThread DEF Shape, Reading
  <2>5. QED
    BY <2>3, <2>4, LockFrame DEF InLock, Idle
<1>9. ASSUME NEW t \in Threads, NEW k \in Writes, CommitUnbusted(t, k)
      PROVE  LockInv'
  <2>1. k \in Kinds
    BY DEF Writes
  <2>2. Shape' /\ UNCHANGED <<entries, keyLock, thread>>
    BY <1>9, <2>1 DEF CommitUnbusted, Shape, Reading
  <2>3. QED
    BY <2>2, LockFrame DEF InLock, OnlyThread, LockInv
<1>10. ASSUME NEW e \in entries, Drop(e)
      PROVE  LockInv'
  <2>1. Shape' /\ UNCHANGED <<entries, keyLock, thread>>
    BY <1>10 DEF Drop, Shape, Reading
  <2>2. QED
    BY <2>1 DEF LockInv, InLock
<1>11. CASE UNCHANGED vars
  BY <1>11 DEF vars, LockInv, Shape, InLock, Reading
<1>12. QED
  BY <1>1, <1>2, <1>3, <1>4, <1>5, <1>6, <1>7, <1>8, <1>9, <1>10, <1>11 DEF Next

LEMMA LockInit == Init => LockInv
<1>1. SUFFICES ASSUME Init
               PROVE  LockInv
  OBVIOUS
<1>2. Shape
  BY <1>1, WorkloadsAssumption DEF Init, Shape
<1>3. \A t \in Threads : thread[t].pc = "idle"
  BY <1>1 DEF Init, Idle
<1>4. QED
  BY <1>1, <1>2, <1>3, NoThreadAssumption DEF Init, LockInv, InLock

\* The inductive invariant of the rebuild locks.
THEOREM LockInvariance == Spec => []LockInv
<1>1. LockInv /\ [Next]_vars => LockInv'
  BY LockStep
<1>2. QED
  BY LockInit, <1>1, PTL DEF Spec

\* "Only one thread rebuilds, others wait and read", and a rebuild that ends in
\* whatever way leaves its lock free.
THEOREM ExclusiveRebuilds == Spec => []RebuildsAreExclusive
<1>1. LockInv => RebuildsAreExclusive
  <2>1. SUFFICES ASSUME LockInv
                 PROVE  RebuildsAreExclusive
    OBVIOUS
  <2>2. OneRebuild
    BY <2>1 DEF OneRebuild, Rebuilding, LockInv, InLock
  <2>3. RebuildLockHeld
    BY <2>1 DEF RebuildLockHeld, LockInv, InLock, Shape
  <2>4. QED
    BY <2>2, <2>3 DEF RebuildsAreExclusive
<1>2. QED
  BY <1>1, LockInvariance, PTL

-----------------------------------------------------------------------------
(* The views and the calls that drop them *)

\* The views, by name.
LEMMA ViewNames ==
  DOMAIN Views =
    {"dashboard", "reports", "period_reports", "inventory", "reorder_alerts", "eoq",
     "warehouses", "suppliers", "movements", "board", "monitoring", "reorder_count",
     "settings", "live", "api_products", "api_product", "api_suppliers",
     "api_supplier", "api_recent"}
BY DEF Views

LEMMA ViewOf ==
  /\ Views["dashboard"] = DashboardView /\ Views["reports"] = ReportsView
  /\ Views["period_reports"] = PeriodReportsView /\ Views["inventory"] = InventoryView
  /\ Views["reorder_alerts"] = ReorderAlertsView /\ Views["eoq"] = EoqView
  /\ Views["warehouses"] = WarehousesView /\ Views["suppliers"] = SuppliersView
  /\ Views["movements"] = MovementsView /\ Views["board"] = BoardView
  /\ Views["monitoring"] = MonitoringView /\ Views["reorder_count"] = ReorderCountView
  /\ Views["settings"] = SettingsView /\ Views["live"] = LiveView
  /\ Views["api_products"] = ApiProducts /\ Views["api_product"] = ApiProduct
  /\ Views["api_suppliers"] = ApiSuppliers /\ Views["api_supplier"] = ApiSupplier
  /\ Views["api_recent"] = ApiRecent
BY DEF Views

\* A view of the dashboard or the reports cache has the prefix that its busts
\* name, and every view has the empty one.
KeysMatch(v) ==
  /\ v.cache = "dashboard" => "dashboard:" \in v.prefixes
  /\ v.cache = "reports" => "reports:" \in v.prefixes
  /\ "" \in v.prefixes

LEMMA Prefixes ==
  ASSUME NEW e \in DOMAIN Views
  PROVE  KeysMatch(Views[e])
<1>1. KeysMatch(DashboardView) /\ KeysMatch(ReportsView) /\ KeysMatch(PeriodReportsView)
  BY DEF KeysMatch, View, DashboardView, ReportsView, PeriodReportsView
<1>2. KeysMatch(InventoryView) /\ KeysMatch(ReorderAlertsView) /\ KeysMatch(EoqView) /\ KeysMatch(WarehousesView)
  BY DEF KeysMatch, View, InventoryView, ReorderAlertsView, EoqView, WarehousesView
<1>3. KeysMatch(SuppliersView) /\ KeysMatch(MovementsView) /\ KeysMatch(BoardView) /\ KeysMatch(MonitoringView)
  BY DEF KeysMatch, View, SuppliersView, MovementsView, BoardView, MonitoringView
<1>4. KeysMatch(ReorderCountView) /\ KeysMatch(SettingsView) /\ KeysMatch(LiveView) /\ KeysMatch(ApiProducts)
  BY DEF KeysMatch, View, ReorderCountView, SettingsView, LiveView, ApiProducts
<1>5. KeysMatch(ApiProduct) /\ KeysMatch(ApiSuppliers) /\ KeysMatch(ApiSupplier) /\ KeysMatch(ApiRecent)
  BY DEF KeysMatch, View, ApiProduct, ApiSuppliers, ApiSupplier, ApiRecent
<1>6. QED
  BY <1>1, <1>2, <1>3, <1>4, <1>5, ViewNames, ViewOf

\* The pairs of OwnListsFresh.
OwnLists == {<<"suppliers", "supplier">>, <<"api_suppliers", "supplier">>,
             <<"movements", "movement">>, <<"api_recent", "movement">>,
             <<"board", "order">>, <<"api_products", "product">>,
             <<"api_product", "product">>, <<"settings", "settings">>,
             <<"monitoring", "etl">>, <<"monitoring", "restore">>}

StockCaches == {"products", "dashboard", "reports", "global"}

\* The views and the writes that CoveredViewsFresh speaks of.
Covered(e, k) ==
  /\ Affects(k, e)
  /\ \/ Views[e].cache \in StockCaches /\ k \in {"product", "movement", "order"}
     \/ <<e, k>> \in OwnLists

\* Some call of the list drops the entry.
Drops(calls, e) == \E i \in 1..Len(calls) : Dropped(calls[i], e)

\* cache_bust_products, _movements and _purchase_orders each drop every view of the stock caches.
LEMMA StockDropped ==
  ASSUME NEW e \in DOMAIN Views, Views[e].cache \in StockCaches,
         NEW k \in {"product", "movement", "order"}
  PROVE  Drops(BustCalls(k), e)
<1>1. KeysMatch(Views[e])
  BY Prefixes
<1>2. CASE k = "product"
  <2>1. BustCalls(k) = BustProducts
    BY <1>2 DEF BustCalls
  <2>2. \/ Dropped(BustProducts[1], e) \/ Dropped(BustProducts[2], e)
        \/ Dropped(BustProducts[3], e) \/ Dropped(BustProducts[4], e)
    BY <1>1 DEF BustProducts, KeysMatch, Dropped, StockCaches
  <2>3. {1, 2, 3, 4} \subseteq 1..Len(BustProducts)
    BY DEF BustProducts
  <2>4. QED
    BY <2>1, <2>2, <2>3 DEF Drops
<1>3. CASE k = "movement"
  <2>1. BustCalls(k) = BustMovements
    BY <1>3 DEF BustCalls
  <2>2. \/ Dropped(BustMovements[1], e) \/ Dropped(BustMovements[2], e)
        \/ Dropped(BustMovements[3], e) \/ Dropped(BustMovements[4], e)
    BY <1>1 DEF BustMovements, KeysMatch, Dropped, StockCaches
  <2>3. {1, 2, 3, 4} \subseteq 1..Len(BustMovements)
    BY DEF BustMovements
  <2>4. QED
    BY <2>1, <2>2, <2>3 DEF Drops
<1>4. CASE k = "order"
  <2>1. BustCalls(k) = BustOrders
    BY <1>4 DEF BustCalls
  <2>2. \/ Dropped(BustOrders[1], e) \/ Dropped(BustOrders[2], e)
        \/ Dropped(BustOrders[3], e) \/ Dropped(BustOrders[4], e)
    BY <1>1 DEF BustOrders, KeysMatch, Dropped, StockCaches
  <2>3. {1, 2, 3, 4} \subseteq 1..Len(BustOrders)
    BY DEF BustOrders
  <2>4. QED
    BY <2>1, <2>2, <2>3 DEF Drops
<1>5. QED
  BY <1>2, <1>3, <1>4

\* The bust that follows a write drops the list that shows its rows.
LEMMA OwnDropped ==
  ASSUME NEW e, NEW k, <<e, k>> \in OwnLists
  PROVE  Drops(BustCalls(k), e)
<1>1. CASE e = "suppliers" /\ k = "supplier"
  <2>1. BustCalls(k) = BustSuppliers /\ Views[e] = SuppliersView
    BY <1>1, ViewOf DEF BustCalls
  <2>2. SuppliersView.cache = "suppliers" /\ "" \in SuppliersView.prefixes
    BY DEF SuppliersView, View
  <2>3. Dropped(BustSuppliers[1], e)
    BY <2>1, <2>2 DEF BustSuppliers, Dropped
  <2>4. 1 \in 1..Len(BustSuppliers)
    BY DEF BustSuppliers
  <2>5. QED
    BY <2>1, <2>3, <2>4 DEF Drops
<1>2. CASE e = "api_suppliers" /\ k = "supplier"
  <2>1. BustCalls(k) = BustSuppliers /\ Views[e] = ApiSuppliers
    BY <1>2, ViewOf DEF BustCalls
  <2>2. ApiSuppliers.cache = "api" /\ "suppliers" \in ApiSuppliers.prefixes
    BY DEF ApiSuppliers, View
  <2>3. Dropped(BustSuppliers[3], e)
    BY <2>1, <2>2 DEF BustSuppliers, Dropped
  <2>4. 3 \in 1..Len(BustSuppliers)
    BY DEF BustSuppliers
  <2>5. QED
    BY <2>1, <2>3, <2>4 DEF Drops
<1>3. CASE e = "movements" /\ k = "movement"
  <2>1. BustCalls(k) = BustMovements /\ Views[e] = MovementsView
    BY <1>3, ViewOf DEF BustCalls
  <2>2. MovementsView.cache = "api" /\ "movements" \in MovementsView.prefixes
    BY DEF MovementsView, View
  <2>3. Dropped(BustMovements[5], e)
    BY <2>1, <2>2 DEF BustMovements, Dropped
  <2>4. 5 \in 1..Len(BustMovements)
    BY DEF BustMovements
  <2>5. QED
    BY <2>1, <2>3, <2>4 DEF Drops
<1>4. CASE e = "api_recent" /\ k = "movement"
  <2>1. BustCalls(k) = BustMovements /\ Views[e] = ApiRecent
    BY <1>4, ViewOf DEF BustCalls
  <2>2. ApiRecent.cache = "api" /\ "movements" \in ApiRecent.prefixes
    BY DEF ApiRecent, View
  <2>3. Dropped(BustMovements[5], e)
    BY <2>1, <2>2 DEF BustMovements, Dropped
  <2>4. 5 \in 1..Len(BustMovements)
    BY DEF BustMovements
  <2>5. QED
    BY <2>1, <2>3, <2>4 DEF Drops
<1>5. CASE e = "board" /\ k = "order"
  <2>1. BustCalls(k) = BustOrders /\ Views[e] = BoardView
    BY <1>5, ViewOf DEF BustCalls
  <2>2. BoardView.cache = "api" /\ "purchase_orders" \in BoardView.prefixes
    BY DEF BoardView, View
  <2>3. Dropped(BustOrders[5], e)
    BY <2>1, <2>2 DEF BustOrders, Dropped
  <2>4. 5 \in 1..Len(BustOrders)
    BY DEF BustOrders
  <2>5. QED
    BY <2>1, <2>3, <2>4 DEF Drops
<1>6. CASE e = "api_products" /\ k = "product"
  <2>1. BustCalls(k) = BustProducts /\ Views[e] = ApiProducts
    BY <1>6, ViewOf DEF BustCalls
  <2>2. ApiProducts.cache = "api" /\ "product" \in ApiProducts.prefixes
    BY DEF ApiProducts, View
  <2>3. Dropped(BustProducts[5], e)
    BY <2>1, <2>2 DEF BustProducts, Dropped
  <2>4. 5 \in 1..Len(BustProducts)
    BY DEF BustProducts
  <2>5. QED
    BY <2>1, <2>3, <2>4 DEF Drops
<1>7. CASE e = "api_product" /\ k = "product"
  <2>1. BustCalls(k) = BustProducts /\ Views[e] = ApiProduct
    BY <1>7, ViewOf DEF BustCalls
  <2>2. ApiProduct.cache = "api" /\ "product" \in ApiProduct.prefixes
    BY DEF ApiProduct, View
  <2>3. Dropped(BustProducts[5], e)
    BY <2>1, <2>2 DEF BustProducts, Dropped
  <2>4. 5 \in 1..Len(BustProducts)
    BY DEF BustProducts
  <2>5. QED
    BY <2>1, <2>3, <2>4 DEF Drops
<1>8. CASE e = "settings" /\ k = "settings"
  <2>1. BustCalls(k) = BustSettings /\ Views[e] = SettingsView
    BY <1>8, ViewOf DEF BustCalls
  <2>2. SettingsView.cache = "global" /\ "" \in SettingsView.prefixes
    BY DEF SettingsView, View
  <2>3. Dropped(BustSettings[1], e)
    BY <2>1, <2>2 DEF BustSettings, Dropped
  <2>4. 1 \in 1..Len(BustSettings)
    BY DEF BustSettings
  <2>5. QED
    BY <2>1, <2>3, <2>4 DEF Drops
<1>9. CASE e = "monitoring" /\ k \in {"etl", "restore"}
  <2>1. BustCalls(k) = <<<<"monitoring", "">>>> /\ Views[e] = MonitoringView
    BY <1>9, ViewOf DEF BustCalls
  <2>2. MonitoringView.cache = "monitoring" /\ "" \in MonitoringView.prefixes
    BY DEF MonitoringView, View
  <2>3. Dropped(<<<<"monitoring", "">>>>[1], e)
    BY <2>1, <2>2 DEF Dropped
  <2>4. 1 \in 1..Len(<<<<"monitoring", "">>>>)
    OBVIOUS
  <2>5. QED
    BY <2>1, <2>3, <2>4 DEF Drops
<1>10. QED
  BY <1>1, <1>2, <1>3, <1>4, <1>5, <1>6, <1>7, <1>8, <1>9 DEF OwnLists

\* Each of these lists reads a table that the write changes.
LEMMA OwnAffects ==
  ASSUME NEW e, NEW k, <<e, k>> \in OwnLists
  PROVE  Affects(k, e)
<1>1. CASE e = "suppliers" /\ k = "supplier"
  <2>1. Views[e] = SuppliersView
    BY <1>1, ViewOf
  <2>2. 1 \in 1..Len(SuppliersView.reads) /\ SuppliersView.reads[1] = {"suppliers", "products"}
    BY DEF SuppliersView, View
  <2>3. Touches(k, {"suppliers", "products"})
    BY <1>1 DEF Touches, Changes
  <2>4. QED
    BY <2>1, <2>2, <2>3 DEF Affects
<1>2. CASE e = "api_suppliers" /\ k = "supplier"
  <2>1. Views[e] = ApiSuppliers
    BY <1>2, ViewOf
  <2>2. 1 \in 1..Len(ApiSuppliers.reads) /\ ApiSuppliers.reads[1] = {"suppliers", "products"}
    BY DEF ApiSuppliers, View
  <2>3. Touches(k, {"suppliers", "products"})
    BY <1>2 DEF Touches, Changes
  <2>4. QED
    BY <2>1, <2>2, <2>3 DEF Affects
<1>3. CASE e = "movements" /\ k = "movement"
  <2>1. Views[e] = MovementsView
    BY <1>3, ViewOf
  <2>2. 1 \in 1..Len(MovementsView.reads) /\ MovementsView.reads[1] = {"movements", "products"}
    BY DEF MovementsView, View
  <2>3. Touches(k, {"movements", "products"})
    BY <1>3 DEF Touches, Changes
  <2>4. QED
    BY <2>1, <2>2, <2>3 DEF Affects
<1>4. CASE e = "api_recent" /\ k = "movement"
  <2>1. Views[e] = ApiRecent
    BY <1>4, ViewOf
  <2>2. 1 \in 1..Len(ApiRecent.reads) /\ ApiRecent.reads[1] = {"movements"}
    BY DEF ApiRecent, View
  <2>3. Touches(k, {"movements"})
    BY <1>4 DEF Touches, Changes
  <2>4. QED
    BY <2>1, <2>2, <2>3 DEF Affects
<1>5. CASE e = "board" /\ k = "order"
  <2>1. Views[e] = BoardView
    BY <1>5, ViewOf
  <2>2. 4 \in 1..Len(BoardView.reads) /\ BoardView.reads[4] = {"orders"}
    BY DEF BoardView, View
  <2>3. Touches(k, {"orders"})
    BY <1>5 DEF Touches, Changes
  <2>4. QED
    BY <2>1, <2>2, <2>3 DEF Affects
<1>6. CASE e = "api_products" /\ k = "product"
  <2>1. Views[e] = ApiProducts
    BY <1>6, ViewOf
  <2>2. 1 \in 1..Len(ApiProducts.reads) /\ ApiProducts.reads[1] = {"products", "suppliers"}
    BY DEF ApiProducts, View
  <2>3. Touches(k, {"products", "suppliers"})
    BY <1>6 DEF Touches, Changes
  <2>4. QED
    BY <2>1, <2>2, <2>3 DEF Affects
<1>7. CASE e = "api_product" /\ k = "product"
  <2>1. Views[e] = ApiProduct
    BY <1>7, ViewOf
  <2>2. 1 \in 1..Len(ApiProduct.reads) /\ ApiProduct.reads[1] = {"products"}
    BY DEF ApiProduct, View
  <2>3. Touches(k, {"products"})
    BY <1>7 DEF Touches, Changes
  <2>4. QED
    BY <2>1, <2>2, <2>3 DEF Affects
<1>8. CASE e = "settings" /\ k = "settings"
  <2>1. Views[e] = SettingsView
    BY <1>8, ViewOf
  <2>2. 1 \in 1..Len(SettingsView.reads) /\ SettingsView.reads[1] = {"settings"}
    BY DEF SettingsView, View
  <2>3. Touches(k, {"settings"})
    BY <1>8 DEF Touches, Changes
  <2>4. QED
    BY <2>1, <2>2, <2>3 DEF Affects
<1>9. CASE e = "monitoring" /\ k \in {"etl", "restore"}
  <2>1. Views[e] = MonitoringView
    BY <1>9, ViewOf
  <2>2. 1 \in 1..Len(MonitoringView.reads) /\ MonitoringView.reads[1] = {"facts"}
    BY DEF MonitoringView, View
  <2>3. Touches(k, {"facts"})
    BY <1>9 DEF Touches, Changes
  <2>4. QED
    BY <2>1, <2>2, <2>3 DEF Affects
<1>10. QED
  BY <1>1, <1>2, <1>3, <1>4, <1>5, <1>6, <1>7, <1>8, <1>9 DEF OwnLists

\* What is covered is dropped by one of the calls.
LEMMA BustCovers ==
  ASSUME NEW e \in DOMAIN Views, NEW k, Covered(e, k)
  PROVE  Drops(BustCalls(k), e)
BY StockDropped, OwnDropped DEF Covered

-----------------------------------------------------------------------------
(* Freshness *)

\* The thread has still to make a call that drops the entry.
Pending(t, e) == thread[t].pc = "bust" /\ Drops(thread[t].calls, e)

\* Every stale view that is covered is about to be dropped.
FreshInv ==
  /\ LockInv
  /\ missed \subseteq entries
  /\ \A e \in entries \ missed, k \in Kinds :
       Covered(e, k) => Fresh(e, k) \/ \E t \in Threads : Pending(t, e)

\* A step of thread t that leaves the counts alone, adds no value, and takes
\* no pending call away unmade.
LEMMA FreshFrame ==
  ASSUME FreshInv, LockInv', NEW t \in Threads, OnlyThread(t), UNCHANGED <<entries, committed>>,
         missed' \subseteq entries, missed \subseteq missed',
         \A e \in entries : store'[e] \in {store[e], Missing},
         \A e \in entries : Pending(t, e) => store'[e] = Missing \/ Pending(t, e)'
  PROVE  FreshInv'
<1>1. SUFFICES ASSUME NEW e \in entries \ missed', NEW k \in Kinds, Covered(e, k)
               PROVE  Fresh(e, k)' \/ \E u \in Threads : Pending(u, e)'
  BY DEF FreshInv
<1>2. e \in entries /\ e \notin missed
  OBVIOUS
<1>3. CASE Fresh(e, k)
  BY <1>2, <1>3 DEF Fresh
<1>4. ASSUME NEW u \in Threads, Pending(u, e)
      PROVE  Fresh(e, k)' \/ Pending(u, e)'
  BY <1>2, <1>4 DEF Fresh, Pending, OnlyThread
<1>5. Fresh(e, k) \/ \E u \in Threads : Pending(u, e)
  BY <1>1, <1>2 DEF FreshInv
<1>6. QED
  BY <1>3, <1>4, <1>5

LEMMA FreshStep ==
  ASSUME FreshInv, [Next]_vars
  PROVE  FreshInv'
<1>1. LockInv /\ LockInv' /\ Shape
  BY LockStep DEF FreshInv, LockInv
<1>2. ASSUME NEW t \in Threads, NEW e \in entries, Request(t, e)
      PROVE  FreshInv'
  <2>1. OnlyThread(t) /\ UNCHANGED <<entries, committed, store, missed>> /\ thread[t] = Idle
    BY <1>1, <1>2, BecomeThread DEF Request
  <2>2. QED
    BY <1>1, <2>1, FreshFrame DEF Pending, Idle, FreshInv
<1>3. ASSUME NEW t \in Threads, Get(t) \/ Acquire(t) \/ Recheck(t) \/ Produce(t) \/ ProduceFails(t)
      PROVE  FreshInv'
  <2>1. /\ UNCHANGED <<entries, committed, store, missed>>
        /\ thread[t].pc \in {"get", "wait", "check", "produce"}
    BY <1>3 DEF Get, Acquire, Recheck, Produce, ProduceFails
  <2>2. OnlyThread(t)
    <3>1. CASE Produce(t)
      BY <1>1, <3>1, ProduceThread
    <3>2. ASSUME NEW state, thread' = [thread EXCEPT ![t] = state]
          PROVE  OnlyThread(t)
      BY <1>1, <3>2 DEF OnlyThread, Shape
    <3>3. CASE Get(t)
      BY <3>2, <3>3 DEF Get, Become, Goto
    <3>4. CASE Acquire(t) \/ Recheck(t) \/ ProduceFails(t)
      BY <3>2, <3>4 DEF Acquire, Recheck, ProduceFails, Become, Goto
    <3>5. QED
      BY <1>3, <3>1, <3>3, <3>4
  <2>3. QED
    BY <1>1, <2>1, <2>2, FreshFrame DEF Pending, FreshInv
<1>4. ASSUME NEW t \in Threads, Set(t)
      PROVE  FreshInv'
  <2> DEFINE e == thread[t].entry
             value == thread[t].seen
  <2>1. /\ thread[t].pc = "set" /\ UNCHANGED <<entries, committed>> /\ OnlyThread(t)
        /\ store' = [store EXCEPT ![e] = value] /\ e \in entries
        /\ missed' = IF Current(value, e) THEN missed \ {e} ELSE missed \cup {e}
    BY <1>1, <1>4, ThreadKind DEF Set, Become, OnlyThread
  <2>2. SUFFICES ASSUME NEW x \in entries \ missed', NEW k \in Kinds, Covered(x, k)
                 PROVE  Fresh(x, k)' \/ \E u \in Threads : Pending(u, x)'
    BY <1>1, <2>1 DEF FreshInv
  <2>3. CASE x = e
    <3>1. Current(value, e) /\ Affects(k, e)
      BY <2>1, <2>2, <2>3 DEF Covered
    <3>2. value[k] = committed[k]
      BY <3>1 DEF Current
    <3>3. store'[x] = value
      BY <1>1, <2>1, <2>3 DEF Shape
    <3>4. QED
      BY <2>1, <3>2, <3>3 DEF Fresh
  <2>4. CASE x # e
    <3>1. x \in entries \ missed /\ store'[x] = store[x]
      BY <1>1, <2>1, <2>4 DEF Shape
    <3>2. \A u \in Threads : Pending(u, x) => Pending(u, x)'
      BY <2>1 DEF Pending, OnlyThread
    <3>3. Fresh(x, k) => Fresh(x, k)'
      BY <2>1, <3>1 DEF Fresh
    <3>4. QED
      BY <2>2, <3>1, <3>2, <3>3 DEF FreshInv
  <2>5. QED
    BY <2>3, <2>4
<1>5. ASSUME NEW t \in Threads, Invalidate(t)
      PROVE  FreshInv'
  <2> DEFINE calls == thread[t].calls
  <2>1. thread[t].pc = "bust" /\ calls \in Calls /\ OnlyThread(t)
    BY <1>1, <1>5, ThreadKind DEF Invalidate, Busts, Become, OnlyThread
  <2>2. /\ UNCHANGED <<entries, committed, missed>>
        /\ \A x \in entries : store'[x] = IF Dropped(Head(calls), x) THEN Missing ELSE store[x]
    BY <1>5 DEF Invalidate
  <2>3. ASSUME NEW x \in entries, Drops(calls, x), ~Dropped(Head(calls), x)
        PROVE  Pending(t, x)'
    <3>1. PICK i \in 1..Len(calls) : Dropped(calls[i], x)
      BY <2>3 DEF Drops
    <3>2. i # 1 /\ Len(calls) # 1 /\ i \in Nat /\ Len(calls) \in Nat
      BY <2>1, <2>3, <3>1 DEF Calls
    <3>3. thread'[t] = [pc |-> "bust", calls |-> Tail(calls)]
      BY <1>1, <1>5, <3>2 DEF Invalidate, Become, Shape
    <3>4. /\ i - 1 \in 1..Len(Tail(calls)) /\ Tail(calls)[i - 1] = calls[i]
      BY <2>1, <3>1, <3>2, TailOfCalls
    <3>5. Drops(Tail(calls), x)
      BY <3>1, <3>4 DEF Drops
    <3>6. QED
      BY <3>3, <3>5 DEF Pending
  <2>4. \A x \in entries : Pending(t, x) => store'[x] = Missing \/ Pending(t, x)'
    BY <2>2, <2>3 DEF Pending
  <2>5. QED
    BY <1>1, <2>1, <2>2, <2>4, FreshFrame DEF FreshInv
<1>6. ASSUME NEW t \in Threads, NEW w \in Writes, Commit(t, w)
      PROVE  FreshInv'
  <2>1. /\ thread[t] = Idle /\ UNCHANGED <<entries, store, missed>> /\ OnlyThread(t)
        /\ thread'[t] = [pc |-> "bust", calls |-> BustCalls(w)]
        /\ committed' = [committed EXCEPT ![w] = @ + 1]
    BY <1>1, <1>6 DEF Commit, Become, OnlyThread, Shape
  <2>2. SUFFICES ASSUME NEW x \in entries \ missed, NEW k \in Kinds, Covered(x, k)
                 PROVE  Fresh(x, k)' \/ \E u \in Threads : Pending(u, x)'
    BY <1>1, <2>1 DEF FreshInv
  <2>3. CASE k = w
    <3>1. Drops(BustCalls(w), x)
      BY <1>1, <2>2, <2>3, BustCovers DEF Shape
    <3>2. Pending(t, x)'
      BY <2>1, <3>1 DEF Pending
    <3>3. QED
      BY <3>2
  <2>4. CASE k # w
    <3>1. Fresh(x, k) => Fresh(x, k)'
      BY <1>1, <2>1, <2>4 DEF Fresh, Shape
    <3>2. \A u \in Threads : Pending(u, x) => Pending(u, x)'
      BY <2>1 DEF Pending, OnlyThread, Idle
    <3>3. QED
      BY <2>2, <3>1, <3>2 DEF FreshInv
  <2>5. QED
    BY <2>3, <2>4
<1>7. ASSUME NEW t \in Threads, NEW w \in Writes, CommitUnbusted(t, w)
      PROVE  FreshInv'
  BY <1>1, <1>7 DEF CommitUnbusted, FreshInv
<1>8. ASSUME NEW e \in entries, Drop(e)
      PROVE  FreshInv'
  <2>1. UNCHANGED <<entries, committed, missed, thread>>
    BY <1>8 DEF Drop
  <2>2. \A x \in entries : store'[x] \in {store[x], Missing}
    BY <1>1, <1>8 DEF Drop, Shape
  <2>3. \A x \in entries, k \in Kinds : Fresh(x, k) => Fresh(x, k)'
    BY <2>1, <2>2 DEF Fresh
  <2>4. \A x \in entries, t \in Threads : Pending(t, x) => Pending(t, x)'
    BY <2>1 DEF Pending
  <2>5. QED
    BY <1>1, <2>1, <2>3, <2>4 DEF FreshInv
<1>9. CASE UNCHANGED vars
  BY <1>1, <1>9 DEF vars, FreshInv, Fresh, Pending
<1>10. QED
  BY <1>2, <1>3, <1>4, <1>5, <1>6, <1>7, <1>8, <1>9 DEF Next

\* The inductive invariant of the freshness of the views: a covered view that does
\* not reflect a committed write is one that a bust under way has yet to drop.
THEOREM FreshInvariance == Spec => []FreshInv
<1>1. Init => FreshInv
  <2>1. SUFFICES ASSUME Init
                 PROVE  \A e \in entries, k \in Kinds : Fresh(e, k)
    BY LockInit DEF Init, FreshInv
  <2>2. QED
    BY <2>1 DEF Init, Fresh
<1>2. FreshInv /\ [Next]_vars => FreshInv'
  BY FreshStep
<1>3. QED
  BY <1>1, <1>2, PTL DEF Spec

\* Between requests, what cache_bust_* covers is fresh, whatever rebuilds and busts
\* were interleaved, but for the entries a bust missed.
THEOREM FreshViews == Spec => []CoveredViewsFresh
<1>1. FreshInv => CoveredViewsFresh
  <2>1. SUFFICES ASSUME FreshInv, ~Busting
                 PROVE  StockViewsFresh /\ OwnListsFresh
    BY DEF CoveredViewsFresh, StockViewsFresh, OwnListsFresh
  <2>2. \A e \in entries \ missed, k \in Kinds : Covered(e, k) => Fresh(e, k)
    BY <2>1 DEF FreshInv, Busting, Pending
  <2>3. StockViewsFresh
    BY <2>2 DEF StockViewsFresh, Covered, StockCaches, Kinds
  <2>4. ASSUME NEW e \in entries \ missed, NEW k, <<e, k>> \in OwnLists
        PROVE  Fresh(e, k)
    <3>1. k \in Kinds
      BY <2>4 DEF OwnLists, Kinds
    <3>2. QED
      BY <2>2, <2>4, <3>1, OwnAffects DEF Covered
  <2>5. OwnListsFresh
    BY <2>4 DEF OwnListsFresh, OwnLists
  <2>6. QED
    BY <2>3, <2>5
<1>2. QED
  BY <1>1, FreshInvariance, PTL

-----------------------------------------------------------------------------
(* Types.  The bound on the writes is a sum over their kinds; that no kind    *)
(* has more writes than all of them together comes from a counterexample of   *)
(* least cardinality.                                                         *)

LEMMA LeastOf ==
  ASSUME NEW T, T \subseteq Nat, T # {}
  PROVE  \E x \in T : \A y \in T : x <= y
<1>1. PICK x \in T : \A y \in T : ~(<<y, x>> \in OpToRel(<, Nat))
  BY NatLessThanWellFounded, WFMin, Zenon
<1>2. ASSUME NEW y \in T
      PROVE  x <= y
  <2>1. x \in Nat /\ y \in Nat /\ ~(y < x)
    BY <1>1 DEF OpToRel
  <2>2. QED
    BY <2>1
<1>3. QED
  BY <1>2

First(s) == CHOOSE x \in s : TRUE

\* One unfolding of the sum of f over s, given the sums g over smaller sets.
Unfold(f, g, s) == IF s = {} THEN 0 ELSE f[First(s)] + g[s \ {First(s)}]

Partial(f, S) == CHOOSE g : g = [s \in SUBSET S |-> Unfold(f, g, s)]

LEMMA FirstIn ==
  ASSUME NEW s, s # {}
  PROVE  First(s) \in s
BY Zenon DEF First

LEMMA CanWriteSum == CanWrite <=> Partial(committed, DOMAIN committed)[DOMAIN committed] < MaxWrites
BY Zenon DEF CanWrite, FoldFunction, FoldFunctionOnSet, MapThenFoldSet, Partial, Unfold, First

\* Taking an element out of a subset of a finite set.
LEMMA Smaller ==
  ASSUME NEW S, IsFiniteSet(S), NEW t \in SUBSET S, NEW x \in t
  PROVE  /\ t \ {x} \in SUBSET S
         /\ Cardinality(t) \in Nat /\ Cardinality(t \ {x}) \in Nat
         /\ Cardinality(t \ {x}) = Cardinality(t) - 1
<1>1. IsFiniteSet(t)
  BY FS_Subset
<1>2. QED
  BY <1>1, FS_RemoveElement, FS_CardinalityType

\* The recursion is well founded on the subsets of a finite set.
LEMMA PartialExists ==
  ASSUME NEW f, NEW S, IsFiniteSet(S)
  PROVE  \E g : g = [s \in SUBSET S |-> Unfold(f, g, s)]
<1> DEFINE Small(n) == {s \in SUBSET S : Cardinality(s) <= n}
           Has(n) == \E g : g = [s \in Small(n) |-> Unfold(f, g, s)]
           N == Cardinality(S)
           T == {n \in Nat : ~Has(n)}
<1>1. N \in Nat
  BY FS_CardinalityType
<1>2. \A s \in SUBSET S : Cardinality(s) \in Nat /\ Cardinality(s) <= N
  BY FS_Subset, FS_CardinalityType
<1>3. \A s \in SUBSET S : s # {} => /\ First(s) \in s /\ s \ {First(s)} \in SUBSET S
                                    /\ Cardinality(s \ {First(s)}) = Cardinality(s) - 1
  BY FirstIn, Smaller
<1>4. Has(0)
  <2> DEFINE g == [s \in Small(0) |-> 0]
  <2>1. ASSUME NEW s \in Small(0)
        PROVE  s = {}
    <3>1. SUFFICES ASSUME s # {} PROVE FALSE
      OBVIOUS
    <3>2. s \in SUBSET S /\ Cardinality(s) = 0
      BY <1>2, <2>1
    <3>3. s \ {First(s)} \in SUBSET S /\ Cardinality(s \ {First(s)}) = 0 - 1
      BY <1>3, <3>1, <3>2
    <3>4. Cardinality(s \ {First(s)}) \in Nat
      BY <1>2, <3>3
    <3>5. QED
      BY <3>3, <3>4
  <2> HIDE DEF g
  <2>2. ASSUME NEW s \in Small(0)
        PROVE  Unfold(f, g, s) = 0
    BY <2>1, <2>2, Zenon DEF Unfold
  <2>3. g = [s \in Small(0) |-> Unfold(f, g, s)]
    BY <2>2, Zenon DEF g
  <2>4. QED
    BY <2>3
<1>5. ASSUME NEW n \in Nat, Has(n)
      PROVE  Has(n + 1)
  <2>1. PICK g : g = [s \in Small(n) |-> Unfold(f, g, s)]
    BY <1>5
  <2> DEFINE h == [s \in Small(n + 1) |-> Unfold(f, g, s)]
  <2>2. ASSUME NEW s \in Small(n)
        PROVE  s \in Small(n + 1) /\ h[s] = g[s]
    <3>1. s \in Small(n + 1)
      BY <1>2, <2>2
    <3>2. h[s] = Unfold(f, g, s)
      BY <3>1
    <3>3. g[s] = Unfold(f, g, s)
      BY <2>1, <2>2
    <3>4. QED
      BY <3>1, <3>2, <3>3
  <2> HIDE DEF h
  <2>3. ASSUME NEW s \in Small(n + 1)
        PROVE  Unfold(f, g, s) = Unfold(f, h, s)
    <3>1. CASE s = {}
      BY <3>1 DEF Unfold
    <3>2. CASE s # {}
      <4>1. s \ {First(s)} \in Small(n)
        BY <1>2, <1>3, <2>3, <3>2
      <4>2. h[s \ {First(s)}] = g[s \ {First(s)}]
        BY <2>2, <4>1
      <4>3. QED
        BY <4>2, Zenon DEF Unfold
    <3>3. QED
      BY <3>1, <3>2
  <2>4. h = [s \in Small(n + 1) |-> Unfold(f, h, s)]
    BY <2>3, Zenon DEF h
  <2>5. QED
    BY <2>4
<1> HIDE DEF Has
<1>6. T = {}
  <2>1. SUFFICES ASSUME T # {} PROVE FALSE
    OBVIOUS
  <2>2. PICK n \in T : \A m \in T : n <= m
    BY <2>1, LeastOf
  <2>3. n # 0
    BY <1>4, <2>2
  <2>4. n - 1 \in Nat /\ n - 1 \notin T
    BY <2>2, <2>3
  <2>5. Has((n - 1) + 1)
    BY <1>5, <2>4
  <2>6. QED
    BY <2>2, <2>5
<1>7. Has(N)
  BY <1>1, <1>6
<1>8. Small(N) = SUBSET S
  BY <1>2
<1>9. QED
  BY <1>7, <1>8, Zenon DEF Has

LEMMA PartialUnfolds ==
  ASSUME NEW f, NEW S, IsFiniteSet(S), NEW t \in SUBSET S
  PROVE  Partial(f, S)[t] = Unfold(f, Partial(f, S), t)
<1>1. Partial(f, S) = [s \in SUBSET S |-> Unfold(f, Partial(f, S), s)]
  BY PartialExists, Zenon DEF Partial
<1>2. QED
  BY <1>1, Zenon

\* A sum of naturals is at least as large as each of them.
LEMMA SumBounds ==
  ASSUME NEW S, IsFiniteSet(S), NEW f \in [S -> Nat]
  PROVE  \A t \in SUBSET S : Partial(f, S)[t] \in Nat /\ \A k \in t : f[k] <= Partial(f, S)[t]
<1> DEFINE I == Partial(f, S)
           Good(t) == I[t] \in Nat /\ \A k \in t : f[k] <= I[t]
           T == {Cardinality(t) : t \in {t \in SUBSET S : ~Good(t)}}
<1>1. \A t \in SUBSET S : I[t] = Unfold(f, I, t)
  BY PartialUnfolds
<1> HIDE DEF I
<1>2. SUFFICES ASSUME T # {} PROVE FALSE
  BY DEF I
<1>3. T \subseteq Nat
  BY FS_Subset, FS_CardinalityType
<1>4. PICK n \in T : \A m \in T : n <= m
  BY <1>2, <1>3, LeastOf
<1>5. PICK t \in SUBSET S : ~Good(t) /\ n = Cardinality(t)
  BY <1>4
<1> HIDE DEF Good
<1>6. t # {}
  BY <1>1, <1>5 DEF Unfold, Good
<1> DEFINE x == First(t)
<1>7. x \in t /\ I[t] = f[x] + I[t \ {x}]
  BY <1>1, <1>6, FirstIn DEF Unfold
<1> HIDE DEF x
<1>8. t \ {x} \in SUBSET S /\ n \in Nat /\ Cardinality(t \ {x}) = n - 1
  BY <1>5, <1>7, Smaller
<1>9. n - 1 \notin T
  BY <1>4, <1>8
<1>10. Good(t \ {x})
  BY <1>8, <1>9
<1>11. f[x] \in Nat /\ I[t \ {x}] \in Nat
  BY <1>7, <1>10 DEF Good
<1>12. I[t] \in Nat
  BY <1>7, <1>11
<1>13. ASSUME NEW k \in t
       PROVE  f[k] <= I[t]
  <2>1. CASE k = x
    BY <1>7, <1>11, <2>1
  <2>2. CASE k # x
    <3>1. f[k] \in Nat /\ f[k] <= I[t \ {x}]
      BY <1>10, <2>2 DEF Good
    <3>2. QED
      BY <1>7, <1>11, <3>1
  <2>3. QED
    BY <2>1, <2>2
<1>14. QED
  BY <1>5, <1>12, <1>13 DEF Good

LEMMA RoomForWrite ==
  ASSUME committed \in Value, CanWrite, NEW k \in Kinds
  PROVE  committed[k] + 1 \in 0..MaxWrites
<1>1. IsFiniteSet(Kinds)
  <2>1. IsFiniteSet({"product"} \cup {"supplier"})
    BY FS_Singleton, FS_AddElement
  <2>2. IsFiniteSet(({"product"} \cup {"supplier"}) \cup {"movement"})
    BY <2>1, FS_AddElement
  <2>3. IsFiniteSet((({"product"} \cup {"supplier"}) \cup {"movement"}) \cup {"order"})
    BY <2>2, FS_AddElement
  <2>4. IsFiniteSet({"settings"} \cup {"etl"})
    BY FS_Singleton, FS_AddElement
  <2>5. IsFiniteSet(({"settings"} \cup {"etl"}) \cup {"restore"})
    BY <2>4, FS_AddElement
  <2>6. Kinds = ((({"product"} \cup {"supplier"}) \cup {"movement"}) \cup {"order"})
                \cup (({"settings"} \cup {"etl"}) \cup {"restore"})
    BY DEF Kinds
  <2>7. QED
    BY <2>3, <2>5, <2>6, FS_Union
<1>2. committed \in [Kinds -> Nat] /\ DOMAIN committed = Kinds
  BY DEF Value
<1> DEFINE I == Partial(committed, Kinds)[Kinds]
<1>3. I \in Nat /\ committed[k] <= I
  BY <1>1, <1>2, SumBounds
<1>4. I < MaxWrites
  BY <1>2, CanWriteSum
<1> HIDE DEF I
<1>5. committed[k] \in Nat
  BY <1>2
<1>6. QED
  BY <1>3, <1>4, <1>5, MaxWritesAssumption

\* How many batches of queries a view has.
LEMMA Batches ==
  ASSUME NEW e \in DOMAIN Views
  PROVE  /\ Len(Views[e].reads) \in Nat
         /\ 1 <= Len(Views[e].reads) /\ Len(Views[e].reads) <= 20
<1> DEFINE Tables == {"products", "suppliers", "movements", "orders", "settings", "facts",
                      "etl_state"}
           Fits(v) == Len(v.reads) \in Nat /\ 1 <= Len(v.reads) /\ Len(v.reads) <= 20
<1>1. /\ Fits(InventoryView) /\ Fits(ReorderAlertsView) /\ Fits(EoqView) /\ Fits(WarehousesView)
      /\ Fits(SuppliersView) /\ Fits(MovementsView) /\ Fits(BoardView) /\ Fits(MonitoringView)
  BY DEF View, InventoryView, ReorderAlertsView, EoqView, WarehousesView, SuppliersView,
         MovementsView, BoardView, MonitoringView
<1>2. /\ Fits(ReorderCountView) /\ Fits(SettingsView) /\ Fits(LiveView) /\ Fits(ApiProducts)
      /\ Fits(ApiProduct) /\ Fits(ApiSuppliers) /\ Fits(ApiSupplier) /\ Fits(ApiRecent)
  BY DEF View, ReorderCountView, SettingsView, LiveView, ApiProducts, ApiProduct, ApiSuppliers,
         ApiSupplier, ApiRecent
<1>3. Fits(DashboardView)
  <2>1. DashboardKpis \in Seq(SUBSET Tables) /\ Len(DashboardKpis) = 3
    BY DEF DashboardKpis
  <2>2. DashboardPanels \in Seq(SUBSET Tables) /\ Len(DashboardPanels) = 3
    BY DEF DashboardPanels
  <2>3. DashboardAnalysis \in Seq(SUBSET Tables) /\ Len(DashboardAnalysis) = 2
    BY DEF DashboardAnalysis
  <2>4. DashboardKpis \o DashboardPanels \in Seq(SUBSET Tables)
    BY <2>1, <2>2, ConcatProperties, Zenon
  <2>5. Len(DashboardKpis \o DashboardPanels) = Len(DashboardKpis) + Len(DashboardPanels)
    BY <2>1, <2>2, ConcatProperties, Zenon
  <2>6. Len(DashboardKpis \o DashboardPanels \o DashboardAnalysis) =
          Len(DashboardKpis \o DashboardPanels) + Len(DashboardAnalysis)
    BY <2>3, <2>4, ConcatProperties, Zenon
  <2>7. DashboardView.reads = DashboardKpis \o DashboardPanels \o DashboardAnalysis
    BY Zenon DEF View, DashboardView
  <2>8. Len(DashboardView.reads) = (3 + 3) + 2
    BY <2>1, <2>2, <2>3, <2>5, <2>6, <2>7, Zenon
  <2>9. QED
    BY <2>8
<1>4. ASSUME NEW period \in BOOLEAN
      PROVE  Len(ReportReads(period)) = 18
  <2> DEFINE R == Seq(SUBSET Tables)
             cat(s, t) == s \o t
             size(s) == Len(s)
             a == cat(ReportKpis(period), ReportWarehouses)
             b == cat(a, ReportSuppliers)
             c == cat(b, ReportHealth)
             d == cat(c, ReportActivity)
             f == cat(d, ReportPeriods)
             g == cat(f, ReportYears)
             h == cat(g, ReportOrders)
             i == cat(h, ReportSales)
             j == cat(i, ReportSalesMonths)
             k == cat(j, ReportSalesYears)
             l == cat(k, ReportSpend)
  <2> HIDE DEF R, cat, size, a, b, c, d, f, g, h, i, j, k, l
  <2>0. ASSUME NEW s \in R, NEW t \in R
        PROVE  cat(s, t) \in R /\ size(cat(s, t)) = size(s) + size(t)
    BY ConcatProperties DEF R, cat, size
  <2>1. ReportKpis(period) \in R /\ size(ReportKpis(period)) = 1
    BY DEF ReportKpis, R, size
  <2>2. ReportWarehouses \in R /\ size(ReportWarehouses) = 2
    BY DEF ReportWarehouses, R, size
  <2>3. ReportSuppliers \in R /\ size(ReportSuppliers) = 2
    BY DEF ReportSuppliers, R, size
  <2>4. ReportHealth \in R /\ size(ReportHealth) = 1 /\ ReportActivity \in R /\ size(ReportActivity) = 1
    BY DEF ReportHealth, ReportActivity, R, size
  <2>5. ReportPeriods \in R /\ size(ReportPeriods) = 2 /\ ReportYears \in R /\ size(ReportYears) = 1
    BY DEF ReportPeriods, ReportYears, R, size
  <2>6. ReportOrders \in R /\ size(ReportOrders) = 3 /\ ReportSales \in R /\ size(ReportSales) = 1
    BY DEF ReportOrders, ReportSales, R, size
  <2>7. /\ ReportSalesMonths \in R /\ size(ReportSalesMonths) = 1
        /\ ReportSalesYears \in R /\ size(ReportSalesYears) = 1
        /\ ReportSpend \in R /\ size(ReportSpend) = 2
    BY DEF ReportSalesMonths, ReportSalesYears, ReportSpend, R, size
  <2>8. a \in R /\ size(a) = 3
    BY <2>0, <2>1, <2>2 DEF a
  <2>9. b \in R /\ size(b) = 5
    BY <2>0, <2>3, <2>8 DEF b
  <2>10. c \in R /\ size(c) = 6
    BY <2>0, <2>4, <2>9 DEF c
  <2>11. d \in R /\ size(d) = 7
    BY <2>0, <2>4, <2>10 DEF d
  <2>12. f \in R /\ size(f) = 9
    BY <2>0, <2>5, <2>11 DEF f
  <2>13. g \in R /\ size(g) = 10
    BY <2>0, <2>5, <2>12 DEF g
  <2>14. h \in R /\ size(h) = 13
    BY <2>0, <2>6, <2>13 DEF h
  <2>15. i \in R /\ size(i) = 14
    BY <2>0, <2>6, <2>14 DEF i
  <2>16. j \in R /\ size(j) = 15
    BY <2>0, <2>7, <2>15 DEF j
  <2>17. k \in R /\ size(k) = 16
    BY <2>0, <2>7, <2>16 DEF k
  <2>18. l \in R /\ size(l) = 18
    BY <2>0, <2>7, <2>17 DEF l
  <2>19. ReportReads(period) = l
    BY Zenon DEF ReportReads, cat, a, b, c, d, f, g, h, i, j, k, l
  <2>20. QED
    BY <2>18, <2>19 DEF size
<1>5. Fits(ReportsView) /\ Fits(PeriodReportsView)
  <2>1. ReportsView.reads = ReportReads(FALSE) /\ PeriodReportsView.reads = ReportReads(TRUE)
    BY DEF View, ReportsView, PeriodReportsView
  <2>2. Len(ReportsView.reads) = 18 /\ Len(PeriodReportsView.reads) = 18
    BY <1>4, <2>1, Zenon
  <2>3. QED
    BY <2>2
<1>6. QED
  BY <1>1, <1>2, <1>3, <1>5, ViewNames, ViewOf

\* A reader has seen writes that happened, and its producer has a batch left
\* until the value is complete.
ReaderFits(th) ==
  th.pc \in {"get", "wait", "check", "produce", "set"} =>
    /\ th.seen \in Value
    /\ th.done <= Len(Views[th.entry].reads)
    /\ th.pc # "set" => th.done < Len(Views[th.entry].reads)

CacheTypes ==
  /\ entries \in Workloads
  /\ committed \in Value
  /\ store \in [entries -> Value \cup {Missing}]
  /\ missed \subseteq entries
  /\ \A t \in Threads : ReaderFits(thread[t])

LEMMA SeeValue ==
  ASSUME committed \in Value, NEW seen \in Value, NEW tables
  PROVE  See(seen, tables) \in Value
BY DEF See, Value

\* Thread t moves to a state that fits.
LEMMA ReadersFit ==
  ASSUME CacheTypes, NEW t \in Threads, OnlyThread(t), ReaderFits(thread'[t])
  PROVE  \A u \in Threads : ReaderFits(thread[u])'
<1>1. SUFFICES ASSUME NEW u \in Threads PROVE ReaderFits(thread'[u])
  BY DEF ReaderFits
<1>2. CASE u = t
  BY <1>2
<1>3. CASE u # t
  BY <1>3 DEF CacheTypes, OnlyThread
<1>4. QED
  BY <1>2, <1>3

LEMMA NoReader ==
  ASSUME NEW th, th.pc \in {"idle", "bust"}
  PROVE  ReaderFits(th)
BY DEF ReaderFits

LEMMA TypesStep ==
  ASSUME LockInv, CacheTypes, [Next]_vars
  PROVE  CacheTypes'
<1> Shape
  BY DEF LockInv
<1>1. ASSUME NEW t \in Threads, NEW e \in entries, Request(t, e)
      PROVE  CacheTypes'
  <2> DEFINE new == [pc |-> "get", entry |-> e, done |-> 0, seen |-> See(NothingSeen, Views[e].before)]
  <2>1. See(NothingSeen, Views[e].before) \in Value
    <3>1. NothingSeen \in Value
      BY MaxWritesAssumption DEF NothingSeen, Value
    <3>2. QED
      BY <3>1, SeeValue DEF CacheTypes
  <2>2. Len(Views[e].reads) \in Nat /\ 1 <= Len(Views[e].reads)
    BY Batches DEF Shape
  <2>3. ReaderFits(new)
    BY <2>1, <2>2 DEF ReaderFits
  <2>4. thread'[t] = new /\ OnlyThread(t)
    BY <1>1, BecomeThread DEF Request
  <2> HIDE DEF new
  <2>5. \A u \in Threads : ReaderFits(thread[u])'
    BY <2>3, <2>4, ReadersFit
  <2>6. QED
    BY <1>1, <2>5 DEF Request, CacheTypes, Value
<1>2. ASSUME NEW t \in Threads, Become(t, Idle)
      PROVE  \A u \in Threads : ReaderFits(thread[u])'
  BY <1>2, BecomeThread, NoReader, ReadersFit DEF Idle
<1>3. ASSUME NEW t \in Threads, thread[t].pc \in {"get", "wait", "check"},
             NEW pc \in {"wait", "check", "produce"}, Goto(t, pc)
      PROVE  \A u \in Threads : ReaderFits(thread[u])'
  <2>1. thread[t] \in Reading
    BY <1>3, ThreadKind
  <2>2. thread'[t] = [thread[t] EXCEPT !.pc = pc] /\ OnlyThread(t)
    BY <1>3 DEF Goto, OnlyThread, Shape
  <2>3. /\ thread'[t].pc = pc /\ thread'[t].entry = thread[t].entry
        /\ thread'[t].done = thread[t].done /\ thread'[t].seen = thread[t].seen
    BY <2>1, <2>2 DEF Reading
  <2>4. ReaderFits(thread[t])
    BY DEF CacheTypes
  <2>5. ReaderFits(thread'[t])
    BY <1>3, <2>3, <2>4 DEF ReaderFits
  <2>6. QED
    BY <2>2, <2>5, ReadersFit
<1>4. ASSUME NEW t \in Threads, Get(t) \/ Acquire(t) \/ Recheck(t)
      PROVE  CacheTypes'
  <2>1. UNCHANGED <<entries, committed, store, missed>>
    BY <1>4 DEF Get, Acquire, Recheck
  <2>2. \/ Become(t, Idle)
        \/ /\ thread[t].pc \in {"get", "wait", "check"}
           /\ \E pc \in {"wait", "check", "produce"} : Goto(t, pc)
    BY <1>4 DEF Get, Acquire, Recheck
  <2>3. \A u \in Threads : ReaderFits(thread[u])'
    BY <1>2, <1>3, <2>2
  <2>4. QED
    BY <2>1, <2>3 DEF CacheTypes, Value
<1>5. ASSUME NEW t \in Threads, Produce(t)
      PROVE  CacheTypes'
  <2> DEFINE th == thread[t]
             reads == Views[th.entry].reads
             pc == IF th.done + 1 = Len(reads) THEN "set" ELSE "produce"
             seen == See(th.seen, reads[th.done + 1])
             new == [th EXCEPT !.done = @ + 1, !.seen = See(@, reads[th.done + 1]), !.pc = pc]
  <2>1. th.pc = "produce" /\ Become(t, new) /\ UNCHANGED <<entries, committed, store, missed>>
    BY <1>5 DEF Produce
  <2>2. th \in Reading /\ th.entry \in entries
    BY <2>1, ThreadKind
  <2>3. th.seen \in Value /\ th.done < Len(reads)
    BY <2>1 DEF CacheTypes, ReaderFits
  <2>4. seen \in Value
    BY <2>3, SeeValue DEF CacheTypes
  <2>5. th.done \in Nat /\ Len(reads) \in Nat
    BY <2>2, Batches DEF Reading, Shape
  <2>6. new.done = th.done + 1 /\ new.seen = seen /\ new.pc = pc /\ new.entry = th.entry
    BY <2>2 DEF Reading
  <2>7. thread'[t] = new /\ OnlyThread(t)
    BY <2>1, BecomeThread
  <2> HIDE DEF new, seen
  <2>8. ReaderFits(new)
    BY <2>3, <2>4, <2>5, <2>6 DEF ReaderFits
  <2>9. \A u \in Threads : ReaderFits(thread[u])'
    BY <2>7, <2>8, ReadersFit
  <2>10. QED
    BY <2>1, <2>9 DEF CacheTypes, Value
<1>6. ASSUME NEW t \in Threads, ProduceFails(t)
      PROVE  CacheTypes'
  BY <1>2, <1>6 DEF ProduceFails, CacheTypes, Value
<1>7. ASSUME NEW t \in Threads, Set(t)
      PROVE  CacheTypes'
  <2> DEFINE e == thread[t].entry
  <2>1. thread[t].pc = "set" /\ Become(t, Idle) /\ UNCHANGED <<entries, committed>>
        /\ store' = [store EXCEPT ![e] = thread[t].seen] /\ missed' \subseteq missed \cup {e}
    BY <1>7 DEF Set
  <2>2. e \in entries /\ thread[t].seen \in Value
    BY <2>1, ThreadKind DEF CacheTypes, ReaderFits
  <2>3. store' \in [entries -> Value \cup {Missing}]
    BY <2>1, <2>2 DEF CacheTypes
  <2>4. \A u \in Threads : ReaderFits(thread[u])'
    BY <1>2, <2>1
  <2>5. QED
    BY <2>1, <2>2, <2>3, <2>4 DEF CacheTypes, Value
<1>8. ASSUME NEW t \in Threads, Invalidate(t)
      PROVE  CacheTypes'
  <2> DEFINE calls == thread[t].calls
             new == IF Len(calls) = 1 THEN Idle ELSE [pc |-> "bust", calls |-> Tail(calls)]
  <2>1. Become(t, new) /\ UNCHANGED <<entries, committed, missed>>
        /\ store' = [e \in entries |-> IF Dropped(Head(calls), e) THEN Missing ELSE store[e]]
    BY <1>8 DEF Invalidate
  <2>2. new.pc \in {"idle", "bust"}
    BY DEF Idle
  <2> HIDE DEF new
  <2>3. \A u \in Threads : ReaderFits(thread[u])'
    BY <2>1, <2>2, BecomeThread, NoReader, ReadersFit
  <2>4. store' \in [entries -> Value \cup {Missing}]
    BY <2>1 DEF CacheTypes
  <2>5. QED
    BY <2>1, <2>3, <2>4 DEF CacheTypes, Value
<1>9. ASSUME NEW t \in Threads, NEW k \in Writes, Commit(t, k) \/ CommitUnbusted(t, k)
      PROVE  CacheTypes'
  <2>1. k \in Kinds /\ CanWrite /\ UNCHANGED <<entries, store>>
        /\ committed' = [committed EXCEPT ![k] = @ + 1] /\ (missed' = missed \/ missed' = entries)
    BY <1>9 DEF Commit, CommitUnbusted, Writes
  <2>2. committed' \in Value
    <3>1. committed[k] + 1 \in 0..MaxWrites
      BY <2>1, RoomForWrite DEF CacheTypes
    <3>2. QED
      BY <2>1, <3>1 DEF CacheTypes, Value
  <2>3. \A u \in Threads : ReaderFits(thread[u])'
    <3>1. CASE Commit(t, k)
      <4> DEFINE new == [pc |-> "bust", calls |-> BustCalls(k)]
      <4>1. new.pc = "bust" /\ Become(t, new)
        BY <3>1 DEF Commit
      <4> HIDE DEF new
      <4>2. QED
        BY <4>1, BecomeThread, NoReader, ReadersFit
    <3>2. CASE CommitUnbusted(t, k)
      BY <3>2 DEF CommitUnbusted, CacheTypes, ReaderFits
    <3>3. QED
      BY <1>9, <3>1, <3>2
  <2>4. QED
    BY <2>1, <2>2, <2>3 DEF CacheTypes, Value
<1>10. ASSUME NEW e \in entries, Drop(e)
      PROVE  CacheTypes'
  <2>1. store' \in [entries -> Value \cup {Missing}]
    BY <1>10 DEF Drop, CacheTypes
  <2>2. UNCHANGED <<entries, committed, thread, missed>>
    BY <1>10 DEF Drop
  <2>3. QED
    BY <2>1, <2>2 DEF CacheTypes, ReaderFits, Value
<1>11. CASE UNCHANGED vars
  BY <1>11 DEF vars, CacheTypes, ReaderFits, Value
<1>12. QED
  BY <1>1, <1>4, <1>5, <1>6, <1>7, <1>8, <1>9, <1>10, <1>11 DEF Next

\* Type correctness of the caches: a cached value reflects writes that were
\* committed, a producer never runs past its last batch of queries, and a bust
\* under way has a call left.
THEOREM CacheTypeCorrect == Spec => []TypeOK
<1>1. Init => CacheTypes
  <2>1. SUFFICES ASSUME Init PROVE CacheTypes
    OBVIOUS
  <2>2. \A t \in Threads : ReaderFits(thread[t])
    BY <2>1, NoReader DEF Init, Idle
  <2>3. committed \in Value
    BY <2>1, MaxWritesAssumption DEF Init, Value
  <2>4. QED
    BY <2>1, <2>2, <2>3 DEF Init, CacheTypes
<1>2. LockInv /\ CacheTypes /\ [Next]_vars => CacheTypes'
  BY TypesStep
<1>3. LockInv /\ CacheTypes => TypeOK
  <2>1. SUFFICES ASSUME LockInv, CacheTypes PROVE TypeOK
    OBVIOUS
  <2>2. Shape
    BY <2>1 DEF LockInv
  <2>3. ASSUME NEW t \in Threads
        PROVE  \/ thread[t] \in Reader \cup {Idle}
               \/ thread[t] \in Writer /\ thread[t].calls # <<>>
    <3>1. CASE thread[t] \in Reading
      <4>1. /\ thread[t].seen \in Value
            /\ thread[t].done <= Len(Views[thread[t].entry].reads)
        BY <2>1, <3>1 DEF CacheTypes, ReaderFits, Reading
      <4>2. thread[t].entry \in entries /\ thread[t].done \in Nat
        BY <3>1 DEF Reading
      <4>3. /\ Len(Views[thread[t].entry].reads) \in Nat
            /\ Len(Views[thread[t].entry].reads) <= 20
        BY <2>2, <4>2, Batches DEF Shape
      <4>4. thread[t].done \in 0..20
        <5> DEFINE n == Len(Views[thread[t].entry].reads)
                   d == thread[t].done
        <5>1. d \in Nat /\ n \in Nat /\ d <= n /\ n <= 20
          BY <4>1, <4>2, <4>3
        <5> HIDE DEF n, d
        <5>2. d \in 0..20
          BY <5>1
        <5>3. QED
          BY <5>2 DEF d
      <4>5. QED
        BY <3>1, <4>1, <4>4 DEF Reading, Reader
    <3>2. CASE thread[t] \in Busts
      <4>1. thread[t].calls \in Seq(Call) /\ Len(thread[t].calls) > 0
        BY <3>2 DEF Busts, Calls
      <4>2. thread[t] \in Writer
        BY <3>2, <4>1 DEF Busts, Writer
      <4>3. QED
        BY <4>1, <4>2
    <3>3. QED
      BY <2>2, <3>1, <3>2 DEF Shape
  <2>4. QED
    BY <2>1, <2>2, <2>3 DEF CacheTypes, Shape, TypeOK
<1>4. QED
  BY <1>1, <1>2, <1>3, LockInvariance, PTL DEF Spec
=============================================================================
