------------------------------ MODULE ConnPool ------------------------------
(***************************************************************************)
(* The connection pool of one web process.  A request takes a connection   *)
(* at its first cursor, keeps it in g.db through all its cursors and gives *)
(* it back when the request ends.  A cursor block opened without commit    *)
(* leaves its work uncommitted on that connection.  Connections grow old   *)
(* and are recycled, or break under the request: the first statement of a  *)
(* cursor is retried once on another connection.                           *)
(*                                                                         *)
(* psycopg2's pool is external: free and keyed are its _pool and _used.    *)
(***************************************************************************)
EXTENDS Integers, FiniteSets

CONSTANTS PoolUsers,    \* requests that run at the same time
          PoolSize,     \* _POOL_SIZE, both minconn and maxconn
          MaxConn,      \* connection objects ever made
          MaxCursors    \* cursors opened

ASSUME PoolAssumption ==
  PoolSize \in Nat /\ MaxConn \in Nat /\ PoolSize <= MaxConn /\ MaxCursors \in Nat

Conns == 1..MaxConn

VARIABLES
  free,      \* connections waiting in the pool
  keyed,     \* connections the pool has handed out
  made,      \* connection objects made so far
  old,       \* connections older than pool_recycle
  broken,    \* connections that no longer work
  closed,    \* those of them the client knows to be closed
  intrans,   \* connections with a transaction open
  work,      \* uncommitted writes of each connection: the requests that made them
  db,        \* g.db of each request, 0 if absent
  at,        \* where each request is
  cursors,   \* cursors opened, bounded by MaxCursors
  leaked     \* history: connections whose rollback failed at check-in

link     == <<broken, closed, intrans, work>>
slots    == <<free, keyed, leaked>>
poolVars == <<slots, made, old, link, db, at, cursors>>

PoolTypeOK ==
  /\ free \subseteq 1..made /\ keyed \subseteq 1..made /\ made \in PoolSize..MaxConn
  /\ old \subseteq Conns /\ broken \subseteq Conns /\ closed \subseteq broken
  /\ intrans \subseteq Conns /\ leaked \subseteq Conns
  /\ work \in [Conns -> SUBSET PoolUsers] /\ db \in [PoolUsers -> 0..made]
  /\ at \in [PoolUsers -> {"out", "age", "reget", "cursor", "retry", "body", "between", "failed"}]
  /\ cursors \in 0..MaxCursors
  /\ Cardinality(free \cup keyed) <= PoolSize
  /\ \A r \in PoolUsers : at[r] = "out" <=> db[r] = 0

PoolInit ==
  /\ free = 1..PoolSize /\ keyed = {} /\ made = PoolSize
  /\ old = {} /\ broken = {} /\ closed = {} /\ intrans = {} /\ leaked = {}
  /\ work = [c \in Conns |-> {}]
  /\ db = [r \in PoolUsers |-> 0] /\ at = [r \in PoolUsers |-> "out"] /\ cursors = 0

-----------------------------------------------------------------------------
(* psycopg2.pool, external *)

Exhausted == free = {} /\ Cardinality(keyed) >= PoolSize

\* A waiting connection, or a new one while fewer than maxconn are out.
getconn(r) ==
  \/ \E c \in free :
       /\ free' = free \ {c} /\ keyed' = keyed \cup {c} /\ db' = [db EXCEPT ![r] = c]
       /\ UNCHANGED made
  \/ /\ free = {} /\ Cardinality(keyed) < PoolSize /\ made < MaxConn
     /\ made' = made + 1 /\ keyed' = keyed \cup {made'} /\ db' = [db EXCEPT ![r] = made']
     /\ UNCHANGED free

\* A connection whose client knows it is closed, or that it closes itself.
Shut(c) ==
  /\ broken' = broken \cup {c} /\ closed' = closed \cup {c}
  /\ intrans' = intrans \ {c} /\ work' = [work EXCEPT ![c] = {}]

Ended(c) == intrans' = intrans \ {c} /\ work' = [work EXCEPT ![c] = {}] /\ UNCHANGED <<broken, closed>>

\* An open transaction is rolled back before the connection waits again; a
\* closed one is dropped.  When the rollback meets a dead server it raises
\* before the slot is released, and the caller closes the connection.
putconn(c) ==
  \/ /\ c \in (broken \cap intrans) \ closed
     /\ leaked' = leaked \cup {c} /\ Shut(c) /\ UNCHANGED <<free, keyed>>
  \/ /\ c \notin (broken \cap intrans) \ closed
     /\ free' = IF c \in closed THEN free ELSE free \cup {c}
     /\ keyed' = keyed \ {c} /\ Ended(c) /\ UNCHANGED leaked

\* putconn(close=True); of a connection the pool does not know it raises.
putconn_close(c) ==
  /\ keyed' = keyed \ {c} /\ Shut(c)
  /\ UNCHANGED <<free, leaked>>

-----------------------------------------------------------------------------
(* get_connection *)

Move(r, pc) == at' = [at EXCEPT ![r] = pc]
Count       == cursors < MaxCursors /\ cursors' = cursors + 1

Checkout(r) ==
  /\ at[r] = "out" /\ Count
  /\ ~Exhausted /\ getconn(r) /\ Move(r, "age")
  /\ UNCHANGED <<leaked, old, link>>

\* PoolError: an alert is saved over a connection of its own, the request fails.
_alert_pool_exhausted(r) ==
  /\ at[r] = "out" /\ Count
  /\ Exhausted
  /\ UNCHANGED <<slots, made, old, link, db, at>>

Recycle_KeepsSlot(r) ==
  /\ at[r] = "age"
  /\ IF db[r] \in old THEN Shut(db[r]) /\ Move(r, "reget") ELSE Move(r, "cursor") /\ UNCHANGED link
  /\ UNCHANGED <<slots, made, old, db, cursors>>

\* _validate_and_recycle_connection: one that is too old is closed ...
Recycle(r) ==
  /\ at[r] = "age"
  /\ IF db[r] \in old
     THEN putconn_close(db[r]) /\ Move(r, "reget")
     ELSE Move(r, "cursor") /\ UNCHANGED <<slots, link>>
  /\ UNCHANGED <<made, old, db, cursors>>

\* ... and another taken; when the freed slot is gone already, the error is
\* swallowed and the request goes on with the closed connection.
Reget(r) ==
  /\ at[r] = "reget"
  /\ IF Exhausted THEN UNCHANGED <<free, keyed, made, db>> ELSE getconn(r)
  /\ Move(r, "cursor")
  /\ UNCHANGED <<leaked, old, link, cursors>>

-----------------------------------------------------------------------------
(* get_cursor and _RetryOnceCursor *)

Enter(r, c) ==
  /\ intrans' = intrans \cup {c} /\ Move(r, "body")
  /\ UNCHANGED <<broken, closed, work>>

\* set_config is the first statement of every cursor, and opens a transaction.
SetConfig(r) ==
  /\ at[r] = "cursor" /\ db[r] \notin broken
  /\ Enter(r, db[r])
  /\ UNCHANGED <<slots, made, old, db, cursors>>

\* On a broken connection it fails: the retry evicts the connection ...
Evict(r) ==
  /\ at[r] = "cursor" /\ db[r] \in broken
  /\ putconn_close(db[r]) /\ Move(r, "retry")
  /\ UNCHANGED <<made, old, db, cursors>>

\* ... and takes another one, which is tried once: if it is broken too the
\* error goes to the caller.
RetryGet(r) ==
  /\ at[r] = "retry" /\ ~Exhausted
  /\ getconn(r)
  /\ IF db'[r] \in broken THEN Shut(db'[r]) /\ Move(r, "failed") ELSE Enter(r, db'[r])
  /\ UNCHANGED <<leaked, old, cursors>>

\* The slot has gone meanwhile: g.db is still the evicted connection.
RetryFails(r) ==
  /\ at[r] = "retry" /\ Exhausted
  /\ Move(r, "failed")
  /\ UNCHANGED <<slots, made, old, link, db, cursors>>

Write(r) ==
  /\ at[r] = "body" /\ db[r] \notin broken
  /\ work' = [work EXCEPT ![db[r]] = @ \cup {r}]
  /\ UNCHANGED <<slots, made, old, broken, closed, intrans, db, at, cursors>>

\* The block ends: with commit everything on the connection is committed,
\* without it nothing is sent.
EndBlock(r, commit) ==
  /\ at[r] = "body" /\ (commit => db[r] \notin broken)
  /\ IF commit THEN Ended(db[r]) ELSE UNCHANGED link
  /\ Move(r, "between")
  /\ UNCHANGED <<slots, made, old, db, cursors>>

\* A statement or the commit fails: the connection is rolled back, or found
\* broken; a caller may go on.
BlockFails(r) ==
  /\ at[r] = "body"
  /\ IF db[r] \in broken THEN Shut(db[r]) ELSE Ended(db[r])
  /\ Move(r, "between")
  /\ UNCHANGED <<slots, made, old, db, cursors>>

NextCursor(r) ==
  /\ at[r] = "between" /\ Count
  /\ Move(r, "cursor")
  /\ UNCHANGED <<slots, made, old, link, db>>

close_connection_KeepsDb(r) ==
  /\ at[r] \in {"between", "failed"}
  /\ IF db[r] \in keyed THEN putconn(db[r]) ELSE Shut(db[r]) /\ UNCHANGED slots
  /\ Move(r, "out")
  /\ UNCHANGED <<made, old, db, cursors>>

close_connection_NoRollback(r) ==
  /\ at[r] \in {"between", "failed"}
  /\ free' = IF db[r] \in closed THEN free ELSE free \cup {db[r]}
  /\ keyed' = keyed \ {db[r]} /\ UNCHANGED <<leaked, link>>
  /\ db' = [db EXCEPT ![r] = 0] /\ Move(r, "out")
  /\ UNCHANGED <<made, old, cursors>>

\* The end of the request; a connection the pool no longer knows is closed.
close_connection(r) ==
  /\ at[r] \in {"between", "failed"}
  /\ IF db[r] \in keyed THEN putconn(db[r]) ELSE Shut(db[r]) /\ UNCHANGED slots
  /\ db' = [db EXCEPT ![r] = 0] /\ Move(r, "out")
  /\ UNCHANGED <<made, old, cursors>>

\* The server drops a connection, in use or not, or it passes its age.
Break(c) ==
  /\ c <= made /\ c \notin broken
  /\ broken' = broken \cup {c} /\ work' = [work EXCEPT ![c] = {}]
  /\ UNCHANGED <<slots, made, old, closed, intrans, db, at, cursors>>

Grow(c) ==
  /\ c <= made /\ c \notin old
  /\ old' = old \cup {c}
  /\ UNCHANGED <<slots, made, link, db, at, cursors>>

PoolNext ==
  \/ \E r \in PoolUsers :
       \/ Checkout(r) \/ _alert_pool_exhausted(r) \/ Recycle(r) \/ Reget(r) \/ SetConfig(r) \/ Evict(r)
       \/ RetryGet(r) \/ RetryFails(r) \/ Write(r) \/ EndBlock(r, TRUE) \/ EndBlock(r, FALSE)
       \/ BlockFails(r) \/ NextCursor(r) \/ close_connection(r)
  \/ \E c \in Conns : Break(c) \/ Grow(c)

PoolSpec == PoolInit /\ [][PoolNext]_poolVars

-----------------------------------------------------------------------------
(* Properties *)

\* No connection that still works is in two places: in the hands of two
\* requests, or of one and the pool.
ConnectionsAreExclusive ==
  \A r \in PoolUsers : db[r] # 0 /\ db[r] \notin broken =>
    db[r] \notin free /\ \A q \in PoolUsers : db[q] = db[r] => q = r

\* A request's uncommitted work is never on a connection another request may
\* commit: whatever block it was left behind by, it ends with the request.
WorkStaysWithItsRequest ==
  \A c \in Conns : \A r \in work[c] : db[r] = c

\* Requests are isolated from each other, through recycling, retries, blocks
\* without commit and check-in: neither a connection nor work on it is shared.
ConnectionsAreIsolated == ConnectionsAreExclusive /\ WorkStaysWithItsRequest

\* A slot the pool counts as used is held by a request: recycling, evicting
\* and failed retries never leak one.  The one leak is a request that ends
\* with a transaction open on a connection the server has dropped.
SlotsAreHeld == \A c \in keyed \ leaked : \E r \in PoolUsers : db[r] = c
=============================================================================
