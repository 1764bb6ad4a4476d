------------------------------ MODULE TTLCache ------------------------------
(***************************************************************************)
(* The in-process read-through caches of utils/cache.py under the views    *)
(* and writes of CachedViews.                                              *)
(*                                                                         *)
(* A cached value is abstracted to the writes it reflects: for each kind   *)
(* of write, how many had been committed when the oldest query of its      *)
(* producer that depends on them ran.  TTL expiry and LRU eviction may     *)
(* drop an entry at any time.                                              *)
(***************************************************************************)
EXTENDS CachedViews, FiniteSets, Functions

CONSTANTS Workloads, \* the sets of views one behaviour may read
          Threads,   \* request threads of the one gunicorn worker
          NoThread,  \* owner of a free rebuild lock
          MaxWrites  \* bound on the writes of a behaviour

ASSUME MaxWritesAssumption == MaxWrites \in Nat
ASSUME NoThreadAssumption == NoThread \notin Threads
ASSUME WorkloadsAssumption == Workloads \subseteq SUBSET DOMAIN Views

Kinds == {"product", "supplier", "movement", "order", "settings", "etl", "restore"}

\* A route that raises after its commit skips the bust: MovementService.record
\* when the audit row, a transaction of its own, cannot be written; auto_draft_pos
\* when a later product of its loop meets a database error.
Unbusted == {"movement", "order"}

VARIABLES entries,   \* the views read in this behaviour
          committed, \* writes of each kind committed so far
          store,     \* the cached value of each entry, or Missing
          keyLock,   \* owner of the rebuild lock of each entry
          thread,    \* what each thread does
          missed     \* history: entries a write's bust missed, too early or never made

vars == <<entries, committed, store, keyLock, thread, missed>>

\* The kinds of write that matter to the entries.
Writes == {k \in Kinds : \E e \in entries : Affects(k, e)}

Value   == [Kinds -> 0..MaxWrites]
Missing == [k \in Kinds |-> -1]

\* What a producer has seen before its first query, and after one that reads
\* these tables.
NothingSeen == [k \in Kinds |-> MaxWrites]

See(seen, tables) ==
  [k \in Kinds |-> IF Touches(k, tables) /\ committed[k] < seen[k] THEN committed[k]
                   ELSE seen[k]]

\* The arguments of invalidate() in the cache_bust_* functions.
Call == {"products", "suppliers", "dashboard", "reports", "global", "api", "landing",
         "monitoring"}
        \X {"", "dashboard:", "reports:", "product", "suppliers", "movements",
             "purchase_orders", "purchase_orders:board", "settings"}

Idle == [pc |-> "idle"]
Reader == [pc : {"get", "wait", "check", "produce", "set"}, entry : entries,
           done : 0..20, seen : Value]
Writer == [pc : {"bust"}, calls : Seq(Call)]

TypeOK ==
  /\ entries \in Workloads
  /\ committed \in Value
  /\ store \in [entries -> Value \cup {Missing}]
  /\ keyLock \in [entries -> Threads \cup {NoThread}]
  /\ \A t \in Threads : \/ thread[t] \in Reader \cup {Idle}
                        \/ thread[t] \in Writer /\ thread[t].calls # <<>>
  /\ missed \subseteq entries

Init ==
  /\ entries \in Workloads
  /\ committed = [k \in Kinds |-> 0]
  /\ store = [e \in entries |-> Missing]
  /\ keyLock = [e \in entries |-> NoThread]
  /\ thread = [t \in Threads |-> Idle]
  /\ missed = {}

CanWrite == FoldFunction(LAMBDA a, b : a + b, 0, committed) < MaxWrites

Become(t, state) == thread' = [thread EXCEPT ![t] = state]

Goto(t, pc) == thread' = [thread EXCEPT ![t].pc = pc]

-----------------------------------------------------------------------------
(* get_or_set *)

\* What the view reads before it asks the cache.
Request(t, e) ==
  /\ thread[t] = Idle
  /\ Become(t, [pc |-> "get", entry |-> e, done |-> 0,
                seen |-> See(NothingSeen, Views[e].before)])
  /\ UNCHANGED <<entries, committed, store, keyLock, missed>>

\* get(): a hit answers; after a miss, settings are loaded without a lock.
Get(t) ==
  LET e == thread[t].entry IN
  /\ thread[t].pc = "get"
  /\ \/ store[e] # Missing /\ Become(t, Idle)
     \/ store[e] = Missing /\ Goto(t, IF e \in Unlocked THEN "produce" ELSE "wait")
  /\ UNCHANGED <<entries, committed, store, keyLock, missed>>

KeyFree(e) == keyLock[e] = NoThread

\* with key_lock
Acquire(t) ==
  LET e == thread[t].entry IN
  /\ thread[t].pc = "wait"
  /\ KeyFree(e)
  /\ keyLock' = [keyLock EXCEPT ![e] = t]
  /\ Goto(t, "check")
  /\ UNCHANGED <<entries, committed, store, missed>>

Unlock(e) == keyLock' = [keyLock EXCEPT ![e] = NoThread]

\* The double check under the lock.
Recheck(t) ==
  LET e == thread[t].entry IN
  /\ thread[t].pc = "check"
  /\ \/ /\ store[e] # Missing
        /\ Unlock(e)
        /\ Become(t, Idle)
     \/ /\ store[e] = Missing
        /\ Goto(t, "produce")
        /\ UNCHANGED keyLock
  /\ UNCHANGED <<entries, committed, store, missed>>

\* producer(): each batch of queries sees the writes committed so far ...
Produce(t) ==
  LET th == thread[t]
      reads == Views[th.entry].reads IN
  /\ th.pc = "produce"
  /\ Become(t, [th EXCEPT !.done = @ + 1, !.seen = See(@, reads[th.done + 1]),
                          !.pc = IF th.done + 1 = Len(reads) THEN "set" ELSE "produce"])
  /\ UNCHANGED <<entries, committed, store, keyLock, missed>>

ProduceFails_KeepsLock(t) ==
  /\ thread[t].pc = "produce"
  /\ Become(t, Idle)
  /\ UNCHANGED <<entries, committed, store, keyLock, missed>>

\* ... or raises.
ProduceFails(t) ==
  /\ thread[t].pc = "produce"
  /\ IF thread[t].entry \in Unlocked THEN UNCHANGED keyLock ELSE Unlock(thread[t].entry)
  /\ Become(t, Idle)
  /\ UNCHANGED <<entries, committed, store, missed>>

Current(value, e) == \A k \in Kinds : Affects(k, e) => value[k] = committed[k]

\* set() and the release of the lock.
Set(t) ==
  LET e == thread[t].entry IN
  /\ thread[t].pc = "set"
  /\ store' = [store EXCEPT ![e] = thread[t].seen]
  /\ missed' = IF Current(thread[t].seen, e) THEN missed \ {e} ELSE missed \cup {e}
  /\ IF e \in Unlocked THEN UNCHANGED keyLock ELSE Unlock(e)
  /\ Become(t, Idle)
  /\ UNCHANGED <<entries, committed>>

\* TTL expiry noticed by get(), or LRU eviction by set().
Drop(e) ==
  /\ store[e] # Missing
  /\ store' = [store EXCEPT ![e] = Missing]
  /\ UNCHANGED <<entries, committed, keyLock, thread, missed>>

-----------------------------------------------------------------------------
(* Writes *)

\* The route's transaction commits; cache_bust_* comes after.
Commit(t, k) ==
  /\ thread[t] = Idle
  /\ CanWrite
  /\ committed' = [committed EXCEPT ![k] = @ + 1]
  /\ Become(t, [pc |-> "bust", calls |-> BustCalls(k)])
  /\ UNCHANGED <<entries, store, keyLock, missed>>

CommitUnbusted(t, k) ==
  /\ thread[t] = Idle
  /\ k \in Unbusted
  /\ CanWrite
  /\ committed' = [committed EXCEPT ![k] = @ + 1]
  /\ missed' = entries
  /\ UNCHANGED <<entries, store, keyLock, thread>>

\* One invalidate(prefix), atomic under its cache's lock.
Invalidate(t) ==
  LET calls == thread[t].calls IN
  /\ thread[t].pc = "bust"
  /\ store' = [e \in entries |-> IF Dropped(Head(calls), e) THEN Missing ELSE store[e]]
  /\ Become(t, IF Len(calls) = 1 THEN Idle ELSE [pc |-> "bust", calls |-> Tail(calls)])
  /\ UNCHANGED <<entries, committed, keyLock, missed>>

Next ==
  \/ \E t \in Threads : \/ \E e \in entries : Request(t, e)
                        \/ Get(t) \/ Acquire(t) \/ Recheck(t) \/ Produce(t)
                        \/ ProduceFails(t) \/ Set(t) \/ Invalidate(t)
                        \/ \E k \in Writes : Commit(t, k) \/ CommitUnbusted(t, k)
  \/ \E e \in entries : Drop(e)

Spec == Init /\ [][Next]_vars

-----------------------------------------------------------------------------
(* Properties *)

Rebuilding(t, e) == thread[t].pc \in {"produce", "set"} /\ thread[t].entry = e

\* "Only one thread rebuilds, others wait and read": two threads never run the
\* producer of one entry of get_or_set at the same time.
OneRebuild ==
  \A e \in entries \ Unlocked : \A t, u \in Threads :
    Rebuilding(t, e) /\ Rebuilding(u, e) => t = u

\* The rebuild lock of an entry is held only by a thread that is rebuilding it:
\* a producer that raises leaves no lock behind for the other threads to wait on.
RebuildLockHeld ==
  \A e \in entries : keyLock[e] # NoThread =>
    /\ thread[keyLock[e]].pc \in {"check", "produce", "set"}
    /\ thread[keyLock[e]].entry = e

\* get_or_set lets one thread at a time rebuild an entry, and the next one
\* when that ends in whatever way.
RebuildsAreExclusive == OneRebuild /\ RebuildLockHeld

Busting == \E t \in Threads : thread[t].pc = "bust"

Fresh(e, k) == store[e] = Missing \/ store[e][k] = committed[k]

\* Between requests, every view of the products, dashboard, reports and global
\* caches reflects every committed product, movement and order write, in all of
\* its queries at once, unless a bust came between its first query and its
\* caching, or was skipped because the route raised after its commit.
StockViewsFresh ==
  ~Busting => \A e \in entries \ missed :
    Views[e].cache \in {"products", "dashboard", "reports", "global"} =>
      \A k \in {"product", "movement", "order"} : Affects(k, e) => Fresh(e, k)

\* Likewise, the lists that show the rows of a write to the user who made it:
\* suppliers, the movement ledger, the order board, product answers of the API,
\* settings, and the state of the ETL.
OwnListsFresh ==
  LET Own == {<<"suppliers", "supplier">>, <<"api_suppliers", "supplier">>,
              <<"movements", "movement">>, <<"api_recent", "movement">>,
              <<"board", "order">>, <<"api_products", "product">>,
              <<"api_product", "product">>, <<"settings", "settings">>,
              <<"monitoring", "etl">>, <<"monitoring", "restore">>}
  IN ~Busting => \A p \in Own : p[1] \in entries \ missed => Fresh(p[1], p[2])

\* The views whose invalidation the cache_bust_* functions do cover are fresh.
CoveredViewsFresh == StockViewsFresh /\ OwnListsFresh

\* "Writes call cache_bust_* so stale data never outlives a mutation", said of
\* every cached view and every write of a route, races and routes that raised
\* after their commit left aside.
StaleNeverOutlivesWrite ==
  ~Busting => \A e \in entries \ missed, k \in Kinds \ {"etl", "restore"} :
    Affects(k, e) => Fresh(e, k)
=============================================================================
