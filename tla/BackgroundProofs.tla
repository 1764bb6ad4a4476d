-------------------------- MODULE BackgroundProofs --------------------------
(***************************************************************************)
(* Theorems about the parts that work behind the requests: system alerts,  *)
(* the connection pool and backups, which share no state with one another  *)
(* nor with ETL, the warehouse and the audit chain, and all of them        *)
(* together.                                                               *)
(***************************************************************************)
EXTENDS MCBackground, WarehouseProofs, FiniteSetTheorems, TLAPS

-----------------------------------------------------------------------------
(* System alerts *)

\* A raiser that is about to save looked when there was no alert of its type:
\* if there is one by now, or another raiser about to save one, two of them
\* were between lookup and save at the same time.
SaversLooked ==
  \A r \in Raisers : raiser[r].pc = "save" =>
    /\ \A a \in alerts : a.type = raiser[r].type => a.type \in together
    /\ \A q \in Raisers : q # r /\ raiser[q].pc = "save" /\ raiser[q].type = raiser[r].type =>
         raiser[r].type \in together

AlertInv == SystemAlertsTypeOK /\ SaversLooked /\ AlertOnce /\ FailuresAlerted

LEMMA AlertInit == SystemAlertsInit => AlertInv
BY AlertsAssumption DEF SystemAlertsInit, AlertInv, SystemAlertsTypeOK, SaversLooked, AlertOnce,
   FailuresAlerted, Quiet

LEMMA AlertStep ==
  ASSUME AlertInv, [SystemAlertsNext]_alertVars
  PROVE  AlertInv'
<1> USE AlertsAssumption
<1>1. ASSUME NEW r \in Raisers, NEW type \in AlertTypes, RaiseAlert(r, type)
      PROVE  AlertInv'
  <2>1. SystemAlertsTypeOK'
    BY <1>1 DEF AlertInv, SystemAlertsTypeOK, RaiseAlert
  <2>2. SaversLooked'
    BY <1>1 DEF AlertInv, SystemAlertsTypeOK, RaiseAlert, SaversLooked
  <2>3. AlertOnce' /\ FailuresAlerted'
    BY <1>1 DEF AlertInv, RaiseAlert, AlertOnce, FailuresAlerted
  <2>4. QED
    BY <2>1, <2>2, <2>3 DEF AlertInv
<1>2. ASSUME NEW r \in Raisers, LookupAlert(r)
      PROVE  AlertInv'
  <2>1. SystemAlertsTypeOK'
    BY <1>2 DEF AlertInv, SystemAlertsTypeOK, LookupAlert, Report, Quiet
  <2>2. SaversLooked'
    BY <1>2 DEF AlertInv, SystemAlertsTypeOK, LookupAlert, Report, Quiet, SaversLooked,
                unresolved_alerts
  <2>3. AlertOnce' /\ FailuresAlerted'
    BY <1>2 DEF AlertInv, SystemAlertsTypeOK, LookupAlert, Report, AlertOnce, FailuresAlerted,
                unresolved_alerts
  <2>4. QED
    BY <2>1, <2>2, <2>3 DEF AlertInv
<1>3. ASSUME NEW r \in Raisers, save_alert(r)
      PROVE  AlertInv'
  <2>1. SystemAlertsTypeOK'
    BY <1>3 DEF AlertInv, SystemAlertsTypeOK, save_alert, Report, Quiet
  <2>2. SaversLooked'
    BY <1>3 DEF AlertInv, SystemAlertsTypeOK, save_alert, Report, Quiet, SaversLooked
  <2>3. AlertOnce' /\ FailuresAlerted'
    BY <1>3 DEF AlertInv, SystemAlertsTypeOK, save_alert, Report, AlertOnce, FailuresAlerted,
                SaversLooked
  <2>4. QED
    BY <2>1, <2>2, <2>3 DEF AlertInv
<1>4. ASSUME NEW r \in Raisers, RouteAlert(r) \/ RaiserStops(r)
      PROVE  AlertInv'
  <2>1. SystemAlertsTypeOK'
    BY <1>4 DEF AlertInv, SystemAlertsTypeOK, RouteAlert, RaiserStops, Report, Quiet
  <2>2. SaversLooked'
    BY <1>4 DEF AlertInv, SystemAlertsTypeOK, RouteAlert, RaiserStops, Report, Quiet, SaversLooked
  <2>3. AlertOnce' /\ FailuresAlerted'
    BY <1>4 DEF AlertInv, SystemAlertsTypeOK, RouteAlert, RaiserStops, Report, AlertOnce,
                FailuresAlerted
  <2>4. QED
    BY <2>1, <2>2, <2>3 DEF AlertInv
<1>5. CASE AlertMidnight
  BY <1>5 DEF AlertInv, SystemAlertsTypeOK, AlertMidnight, SaversLooked, AlertOnce, FailuresAlerted
<1>6. CASE UNCHANGED alertVars
  BY <1>6 DEF alertVars, AlertInv, SystemAlertsTypeOK, SaversLooked, AlertOnce, FailuresAlerted
<1>7. QED
  BY <1>1, <1>2, <1>3, <1>4, <1>5, <1>6 DEF SystemAlertsNext

\* The inductive invariant of the system alerts, their types included.
THEOREM AlertInvariance == SystemAlertsSpec => []AlertInv
<1>1. AlertInv /\ [SystemAlertsNext]_alertVars => AlertInv'
  BY AlertStep
<1>2. QED
  BY AlertInit, <1>1, PTL DEF SystemAlertsSpec

\* Every failure reported is alerted, and only once per type but for two reports
\* that looked before either saved, whatever processes raise at the same time.
THEOREM AlertsOncePerFailure == SystemAlertsSpec => []OneAlertPerFailure
<1>1. AlertInv => OneAlertPerFailure
  BY DEF AlertInv, OneAlertPerFailure
<1>2. QED
  BY <1>1, AlertInvariance, PTL

-----------------------------------------------------------------------------
(* The connection pool *)

\* A connection is in one place: waiting, counted as handed out, or closed and
\* forgotten by the pool.
Places ==
  /\ free \cap keyed = {} /\ free \cap closed = {}
  /\ \A r \in PoolUsers : db[r] # 0 => db[r] \notin free /\ db[r] \in keyed \cup closed
  /\ \A r \in PoolUsers : at[r] \in {"reget", "retry"} => db[r] \in closed \ keyed

\* No two requests have the same g.db, broken or not.
OwnConnections ==
  \A q, r \in PoolUsers : db[q] # 0 /\ db[q] = db[r] => q = r

\* What breaks loses its work.
BrokenIsEmpty == \A c \in broken : work[c] = {}

PoolInv == PoolTypeOK /\ Places /\ OwnConnections /\ BrokenIsEmpty /\ WorkStaysWithItsRequest
           /\ SlotsAreHeld

LEMMA PoolStart == PoolInit => PoolInv
<1>1. SUFFICES ASSUME PoolInit
               PROVE  PoolInv
  OBVIOUS
<1>2. free \cup keyed = 1..PoolSize /\ Cardinality(1..PoolSize) = PoolSize
  <2>1. free \cup keyed = 1..PoolSize
    BY <1>1 DEF PoolInit
  <2>2. Cardinality(1..PoolSize) = PoolSize
    BY PoolAssumption, FS_Interval
  <2>3. QED
    BY <2>1, <2>2
<1>3. PoolTypeOK
  BY <1>1, <1>2, PoolAssumption DEF PoolInit, PoolTypeOK, Conns
<1>4. QED
  BY <1>1, <1>3 DEF PoolInit, PoolInv, Places, OwnConnections, BrokenIsEmpty,
     WorkStaysWithItsRequest, SlotsAreHeld

\* The pool never counts more than maxconn: giving back and closing ...
LEMMA SlotsShrink ==
  ASSUME PoolTypeOK, free' \cup keyed' \subseteq free \cup keyed
  PROVE  Cardinality(free' \cup keyed') <= PoolSize
<1>1. IsFiniteSet(1..made)
  BY PoolAssumption, FS_Interval DEF PoolTypeOK
<1>2. IsFiniteSet(free \cup keyed)
  BY <1>1, FS_Subset DEF PoolTypeOK
<1>3. /\ Cardinality(free' \cup keyed') <= Cardinality(free \cup keyed)
      /\ IsFiniteSet(free' \cup keyed')
  BY <1>2, FS_Subset
<1>4. Cardinality(free' \cup keyed') \in Nat /\ Cardinality(free \cup keyed) \in Nat
  BY <1>2, <1>3, FS_CardinalityType
<1>5. QED
  BY <1>3, <1>4, PoolAssumption DEF PoolTypeOK

\* ... and taking.  Whoever takes a connection is the only one to have it.
Took(r, c) ==
  /\ c \in 1..made' /\ made' \in PoolSize..MaxConn /\ made <= made'
  /\ c \notin keyed /\ keyed' = keyed \cup {c} /\ free' = free \ {c}
  /\ db' = [db EXCEPT ![r] = c] /\ \A q \in PoolUsers : db[q] # c
  /\ Cardinality(free' \cup keyed') <= PoolSize

LEMMA Taking ==
  ASSUME PoolInv, NEW r \in PoolUsers, getconn(r)
  PROVE  \E c \in Conns : Took(r, c)
<1> USE PoolAssumption
<1>1. PoolTypeOK /\ Places
  BY DEF PoolInv
<1>2. ASSUME NEW c \in free, free' = free \ {c}, keyed' = keyed \cup {c},
             db' = [db EXCEPT ![r] = c], made' = made
      PROVE  \E x \in Conns : Took(r, x)
  <2>1. c \in 1..made /\ c \notin keyed /\ made \in PoolSize..MaxConn
    BY <1>1, <1>2 DEF PoolTypeOK, Places
  <2>2. \A q \in PoolUsers : db[q] # c
    BY <1>1, <1>2, <2>1 DEF Places
  <2>3. Cardinality(free' \cup keyed') <= PoolSize
    BY <1>1, <1>2, SlotsShrink
  <2>4. c \in Conns
    BY <2>1 DEF Conns
  <2>5. Took(r, c)
    BY <1>2, <2>1, <2>2, <2>3 DEF Took
  <2>6. QED
    BY <2>4, <2>5
<1>3. ASSUME free = {}, Cardinality(keyed) < PoolSize, made < MaxConn, made' = made + 1,
             keyed' = keyed \cup {made'}, db' = [db EXCEPT ![r] = made'], free' = free
      PROVE  \E x \in Conns : Took(r, x)
  <2> DEFINE c == made + 1
  <2>1. made \in PoolSize..MaxConn /\ c \in Conns /\ c \notin keyed
    BY <1>1, <1>3 DEF PoolTypeOK, Conns
  <2>2. \A q \in PoolUsers : db[q] # c
    BY <1>1, <2>1 DEF PoolTypeOK
  <2>3. IsFiniteSet(keyed) /\ Cardinality(keyed) \in Nat
    <3>1. IsFiniteSet(1..made)
      BY <2>1, FS_Interval
    <3>2. QED
      BY <1>1, <3>1, FS_Subset, FS_CardinalityType DEF PoolTypeOK
  <2>4. Cardinality(keyed \cup {c}) = Cardinality(keyed) + 1
    BY <2>1, <2>3, FS_AddElement
  <2>5. free' \cup keyed' = keyed \cup {c} /\ free' = free \ {c}
    BY <1>3
  <2>6. Cardinality(free' \cup keyed') <= PoolSize
    BY <1>3, <2>3, <2>4, <2>5
  <2>7. c \in 1..made' /\ made' \in PoolSize..MaxConn /\ made <= made'
    BY <1>3, <2>1
  <2>8. Took(r, c)
    BY <1>3, <2>1, <2>2, <2>5, <2>6, <2>7 DEF Took
  <2>9. QED
    BY <2>1, <2>8
<1>4. QED
  BY <1>2, <1>3 DEF getconn

PoolPcs == {"out", "age", "reget", "cursor", "retry", "body", "between", "failed"}

\* A connection whose transaction ended or that was shut: its work is gone.
Stopped(c) ==
  /\ work' \in [Conns -> SUBSET PoolUsers]
  /\ \A x \in Conns : work'[x] = IF x = c THEN {} ELSE work[x]
  /\ broken \subseteq broken' /\ broken' \subseteq broken \cup {c}
  /\ closed \subseteq closed' /\ closed' \subseteq closed \cup {c} /\ closed' \subseteq broken'
  /\ broken' \subseteq Conns /\ intrans' \subseteq Conns

LEMMA Stopping ==
  ASSUME PoolTypeOK, NEW c \in Conns
  PROVE  /\ Shut(c) => Stopped(c) /\ c \in closed'
         /\ Ended(c) => Stopped(c) /\ UNCHANGED <<broken, closed>>
<1>1. ASSUME Shut(c)
      PROVE  Stopped(c) /\ c \in closed'
  BY <1>1 DEF Shut, Stopped, PoolTypeOK
<1>2. ASSUME Ended(c)
      PROVE  Stopped(c) /\ UNCHANGED <<broken, closed>>
  BY <1>2 DEF Ended, Stopped, PoolTypeOK
<1>3. QED
  BY <1>1, <1>2

\* The connection of a request.
LEMMA Held ==
  ASSUME PoolInv, NEW r \in PoolUsers, at[r] # "out"
  PROVE  /\ db[r] \in 1..made /\ db[r] \in Conns /\ db[r] \notin free /\ db[r] \in keyed \cup closed
         /\ \A q \in PoolUsers : q # r => db[q] # db[r]
<1>1. PoolTypeOK /\ Places /\ OwnConnections
  BY DEF PoolInv
<1>2. db[r] \in 0..made /\ db[r] # 0 /\ made \in PoolSize..MaxConn
  BY <1>1 DEF PoolTypeOK
<1>3. db[r] \in 1..made /\ db[r] \in Conns
  BY <1>2, PoolAssumption DEF Conns
<1>4. QED
  BY <1>1, <1>2, <1>3 DEF Places, OwnConnections

\* Every step of a request, of the server and of the clock.
LEMMA PoolStep ==
  ASSUME PoolInv, [PoolNext]_poolVars
  PROVE  PoolInv'
<1> USE PoolAssumption DEF slots, link
<1> PoolTypeOK /\ Places /\ OwnConnections /\ BrokenIsEmpty /\ WorkStaysWithItsRequest /\ SlotsAreHeld
  BY DEF PoolInv
<1>1. ASSUME NEW r \in PoolUsers, _alert_pool_exhausted(r)
      PROVE  PoolInv'
  <2>1. free' \cup keyed' \subseteq free \cup keyed /\ made' = made
    BY <1>1 DEF _alert_pool_exhausted, Count
  <2>2. Cardinality(free' \cup keyed') <= PoolSize
    BY <2>1, SlotsShrink
  <2>3. PoolTypeOK'
    BY <1>1, <2>1, <2>2 DEF PoolTypeOK, Conns, Places, _alert_pool_exhausted, Count
  <2>4. Places'
    BY <1>1, <2>1, <2>2 DEF Places, PoolTypeOK, Conns, OwnConnections, _alert_pool_exhausted, Count
  <2>5. OwnConnections'
    BY <1>1, <2>1, <2>2 DEF OwnConnections, PoolTypeOK, _alert_pool_exhausted, Count
  <2>6. BrokenIsEmpty' /\ WorkStaysWithItsRequest'
    BY <1>1, <2>1, <2>2 DEF BrokenIsEmpty, WorkStaysWithItsRequest, Places, PoolTypeOK, Conns, _alert_pool_exhausted, Count
  <2>7. SlotsAreHeld'
    BY <1>1, <2>1, <2>2 DEF SlotsAreHeld, Places, PoolTypeOK, _alert_pool_exhausted, Count
  <2>8. QED
    BY <2>3, <2>4, <2>5, <2>6, <2>7 DEF PoolInv
<1>2. ASSUME NEW r \in PoolUsers, SetConfig(r)
      PROVE  PoolInv'
  <2>1. free' \cup keyed' \subseteq free \cup keyed /\ made' = made
    BY <1>2 DEF SetConfig, Enter, Move
  <2>2. Cardinality(free' \cup keyed') <= PoolSize
    BY <2>1, SlotsShrink
  <2>3. db[r] \in Conns
    BY <1>2, Held DEF SetConfig, Enter, Move
  <2>4. PoolTypeOK'
    BY <1>2, <2>1, <2>2, <2>3 DEF PoolTypeOK, Conns, Places, SetConfig, Enter, Move
  <2>5. Places'
    BY <1>2, <2>1, <2>2, <2>3 DEF Places, PoolTypeOK, Conns, OwnConnections, SetConfig, Enter, Move
  <2>6. OwnConnections'
    BY <1>2, <2>1, <2>2, <2>3 DEF OwnConnections, PoolTypeOK, SetConfig, Enter, Move
  <2>7. BrokenIsEmpty' /\ WorkStaysWithItsRequest'
    BY <1>2, <2>1, <2>2, <2>3 DEF BrokenIsEmpty, WorkStaysWithItsRequest, Places, PoolTypeOK, Conns, SetConfig, Enter, Move
  <2>8. SlotsAreHeld'
    BY <1>2, <2>1, <2>2, <2>3 DEF SlotsAreHeld, Places, PoolTypeOK, SetConfig, Enter, Move
  <2>9. QED
    BY <2>4, <2>5, <2>6, <2>7, <2>8 DEF PoolInv
<1>3. ASSUME NEW r \in PoolUsers, RetryFails(r)
      PROVE  PoolInv'
  <2>1. free' \cup keyed' \subseteq free \cup keyed /\ made' = made
    BY <1>3 DEF RetryFails, Move
  <2>2. Cardinality(free' \cup keyed') <= PoolSize
    BY <2>1, SlotsShrink
  <2>3. PoolTypeOK'
    BY <1>3, <2>1, <2>2 DEF PoolTypeOK, Conns, Places, RetryFails, Move
  <2>4. Places'
    BY <1>3, <2>1, <2>2 DEF Places, PoolTypeOK, Conns, OwnConnections, RetryFails, Move
  <2>5. OwnConnections'
    BY <1>3, <2>1, <2>2 DEF OwnConnections, PoolTypeOK, RetryFails, Move
  <2>6. BrokenIsEmpty' /\ WorkStaysWithItsRequest'
    BY <1>3, <2>1, <2>2 DEF BrokenIsEmpty, WorkStaysWithItsRequest, Places, PoolTypeOK, Conns, RetryFails, Move
  <2>7. SlotsAreHeld'
    BY <1>3, <2>1, <2>2 DEF SlotsAreHeld, Places, PoolTypeOK, RetryFails, Move
  <2>8. QED
    BY <2>3, <2>4, <2>5, <2>6, <2>7 DEF PoolInv
<1>4. ASSUME NEW r \in PoolUsers, Write(r)
      PROVE  PoolInv'
  <2>1. free' \cup keyed' \subseteq free \cup keyed /\ made' = made
    BY <1>4 DEF Write
  <2>2. Cardinality(free' \cup keyed') <= PoolSize
    BY <2>1, SlotsShrink
  <2>3. db[r] \in Conns
    BY <1>4, Held DEF Write
  <2>4. PoolTypeOK'
    BY <1>4, <2>1, <2>2, <2>3 DEF PoolTypeOK, Conns, Places, Write
  <2>5. Places'
    BY <1>4, <2>1, <2>2, <2>3 DEF Places, PoolTypeOK, Conns, OwnConnections, Write
  <2>6. OwnConnections'
    BY <1>4, <2>1, <2>2, <2>3 DEF OwnConnections, PoolTypeOK, Write
  <2>7. BrokenIsEmpty' /\ WorkStaysWithItsRequest'
    BY <1>4, <2>1, <2>2, <2>3 DEF BrokenIsEmpty, WorkStaysWithItsRequest, Places, PoolTypeOK, Conns, Write
  <2>8. SlotsAreHeld'
    BY <1>4, <2>1, <2>2, <2>3 DEF SlotsAreHeld, Places, PoolTypeOK, Write
  <2>9. QED
    BY <2>4, <2>5, <2>6, <2>7, <2>8 DEF PoolInv
<1>5. ASSUME NEW r \in PoolUsers, NextCursor(r)
      PROVE  PoolInv'
  <2>1. free' \cup keyed' \subseteq free \cup keyed /\ made' = made
    BY <1>5 DEF NextCursor, Count, Move
  <2>2. Cardinality(free' \cup keyed') <= PoolSize
    BY <2>1, SlotsShrink
  <2>3. PoolTypeOK'
    BY <1>5, <2>1, <2>2 DEF PoolTypeOK, Conns, Places, NextCursor, Count, Move
  <2>4. Places'
    BY <1>5, <2>1, <2>2 DEF Places, PoolTypeOK, Conns, OwnConnections, NextCursor, Count, Move
  <2>5. OwnConnections'
    BY <1>5, <2>1, <2>2 DEF OwnConnections, PoolTypeOK, NextCursor, Count, Move
  <2>6. BrokenIsEmpty' /\ WorkStaysWithItsRequest'
    BY <1>5, <2>1, <2>2 DEF BrokenIsEmpty, WorkStaysWithItsRequest, Places, PoolTypeOK, Conns, NextCursor, Count, Move
  <2>7. SlotsAreHeld'
    BY <1>5, <2>1, <2>2 DEF SlotsAreHeld, Places, PoolTypeOK, NextCursor, Count, Move
  <2>8. QED
    BY <2>3, <2>4, <2>5, <2>6, <2>7 DEF PoolInv
<1>6. ASSUME NEW r \in PoolUsers, Recycle(r), db[r] \notin old
      PROVE  PoolInv'
  <2>1. /\ at[r] = "age" /\ Move(r, "cursor")
        /\ UNCHANGED <<slots, link, made, old, db, cursors>>
    BY <1>6 DEF Recycle
  <2>2. Cardinality(free' \cup keyed') <= PoolSize
    BY <2>1 DEF PoolTypeOK
  <2>3. PoolTypeOK'
    BY <2>1, <2>2 DEF PoolTypeOK, Conns, Places, Move
  <2>4. Places'
    BY <2>1, <2>2 DEF Places, PoolTypeOK, Conns, OwnConnections, Move
  <2>5. OwnConnections'
    BY <2>1, <2>2 DEF OwnConnections, PoolTypeOK, Move
  <2>6. BrokenIsEmpty' /\ WorkStaysWithItsRequest'
    BY <2>1, <2>2 DEF BrokenIsEmpty, WorkStaysWithItsRequest, Places, PoolTypeOK, Conns, Move
  <2>7. SlotsAreHeld'
    BY <2>1, <2>2 DEF SlotsAreHeld, Places, PoolTypeOK, Move
  <2>8. QED
    BY <2>3, <2>4, <2>5, <2>6, <2>7 DEF PoolInv
<1>7. ASSUME NEW r \in PoolUsers, (Recycle(r) /\ db[r] \in old) \/ Evict(r)
      PROVE  PoolInv'
  <2>1. /\ at[r] \in {"age", "cursor"} /\ (Move(r, "reget") \/ Move(r, "retry"))
        /\ keyed' = keyed \ {db[r]} /\ Shut(db[r])
        /\ UNCHANGED <<free, leaked, made, old, db, cursors>>
    BY <1>7 DEF Recycle, Evict, putconn_close
  <2>2. /\ db[r] \in Conns /\ db[r] \notin free
        /\ \A q \in PoolUsers : q # r => db[q] # db[r]
    BY <2>1, Held
  <2>3. Stopped(db[r]) /\ db[r] \in closed'
    BY <2>1, <2>2, Stopping
  <2>4. Cardinality(free' \cup keyed') <= PoolSize
    BY <2>1, SlotsShrink
  <2>5. /\ at' \in [PoolUsers -> PoolPcs] /\ at'[r] \in {"reget", "retry"} /\ db[r] # 0
        /\ \A q \in PoolUsers : q # r => at'[q] = at[q]
        /\ UNCHANGED <<free, leaked, made, old, db, cursors>>
        /\ keyed' = keyed \ {db[r]}
    BY <2>1 DEF Move, PoolTypeOK, PoolPcs
  <2>6. PoolTypeOK'
    BY <2>2, <2>3, <2>4, <2>5 DEF PoolTypeOK, Conns, Places, Stopped, PoolPcs
  <2>7. Places'
    <3>1. free' \cap keyed' = {} /\ free' \cap closed' = {}
      BY <2>2, <2>3, <2>5 DEF Places, Stopped
    <3>2. keyed \cup closed \subseteq keyed' \cup closed' /\ closed \subseteq closed'
      BY <2>3, <2>5 DEF Stopped
    <3>3. \A q \in PoolUsers : db'[q] # 0 => db'[q] \notin free' /\ db'[q] \in keyed' \cup closed'
      BY <2>5, <3>2 DEF Places
    <3>4. \A q \in PoolUsers : at'[q] \in {"reget", "retry"} => db'[q] \in closed' \ keyed'
      BY <2>3, <2>5, <3>2 DEF Places
    <3>5. QED
      BY <3>1, <3>3, <3>4 DEF Places
  <2>8. OwnConnections'
    BY <2>2, <2>3, <2>4, <2>5 DEF OwnConnections, PoolTypeOK, Stopped, PoolPcs
  <2>9. BrokenIsEmpty' /\ WorkStaysWithItsRequest'
    BY <2>2, <2>3, <2>4, <2>5 DEF BrokenIsEmpty, WorkStaysWithItsRequest, Places, PoolTypeOK, Conns, Stopped, PoolPcs
  <2>10. SlotsAreHeld'
    BY <2>2, <2>3, <2>4, <2>5 DEF SlotsAreHeld, Places, PoolTypeOK, Stopped, PoolPcs
  <2>11. QED
    BY <2>6, <2>7, <2>8, <2>9, <2>10 DEF PoolInv
<1>8. ASSUME NEW r \in PoolUsers, NEW commit \in BOOLEAN, EndBlock(r, commit), ~commit
      PROVE  PoolInv'
  <2>1. /\ at[r] = "body" /\ Move(r, "between")
        /\ UNCHANGED <<slots, link, made, old, db, cursors>>
    BY <1>8 DEF EndBlock
  <2>2. Cardinality(free' \cup keyed') <= PoolSize
    BY <2>1 DEF PoolTypeOK
  <2>3. PoolTypeOK'
    BY <2>1, <2>2 DEF PoolTypeOK, Conns, Places, Move
  <2>4. Places'
    BY <2>1, <2>2 DEF Places, PoolTypeOK, Conns, OwnConnections, Move
  <2>5. OwnConnections'
    BY <2>1, <2>2 DEF OwnConnections, PoolTypeOK, Move
  <2>6. BrokenIsEmpty' /\ WorkStaysWithItsRequest'
    BY <2>1, <2>2 DEF BrokenIsEmpty, WorkStaysWithItsRequest, Places, PoolTypeOK, Conns, Move
  <2>7. SlotsAreHeld'
    BY <2>1, <2>2 DEF SlotsAreHeld, Places, PoolTypeOK, Move
  <2>8. QED
    BY <2>3, <2>4, <2>5, <2>6, <2>7 DEF PoolInv
<1>9. ASSUME NEW r \in PoolUsers, EndBlock(r, TRUE) \/ BlockFails(r)
      PROVE  PoolInv'
  <2>1. /\ at[r] = "body" /\ Move(r, "between") /\ (Shut(db[r]) \/ Ended(db[r]))
        /\ UNCHANGED <<slots, made, old, db, cursors>>
    BY <1>9 DEF EndBlock, BlockFails
  <2>2. /\ db[r] \in Conns /\ db[r] \notin free
        /\ \A q \in PoolUsers : q # r => db[q] # db[r]
    BY <2>1, Held
  <2>3. Stopped(db[r])
    BY <2>1, <2>2, Stopping
  <2>4. Cardinality(free' \cup keyed') <= PoolSize
    BY <2>1 DEF PoolTypeOK
  <2>5. PoolTypeOK'
    BY <2>1, <2>2, <2>3, <2>4 DEF PoolTypeOK, Conns, Places, Move, Stopped
  <2>6. Places'
    BY <2>1, <2>2, <2>3, <2>4 DEF Places, PoolTypeOK, Conns, OwnConnections, Move, Stopped
  <2>7. OwnConnections'
    BY <2>1, <2>2, <2>3, <2>4 DEF OwnConnections, PoolTypeOK, Move, Stopped
  <2>8. BrokenIsEmpty' /\ WorkStaysWithItsRequest'
    BY <2>1, <2>2, <2>3, <2>4 DEF BrokenIsEmpty, WorkStaysWithItsRequest, Places, PoolTypeOK, Conns, Move, Stopped
  <2>9. SlotsAreHeld'
    BY <2>1, <2>2, <2>3, <2>4 DEF SlotsAreHeld, Places, PoolTypeOK, Move, Stopped
  <2>10. QED
    BY <2>5, <2>6, <2>7, <2>8, <2>9 DEF PoolInv
<1>10. ASSUME NEW r \in PoolUsers, close_connection(r)
      PROVE  PoolInv'
  <2>1. /\ at[r] \in {"between", "failed"} /\ Move(r, "out") /\ db' = [db EXCEPT ![r] = 0]
        /\ UNCHANGED <<made, old, cursors>>
    BY <1>10 DEF close_connection
  <2>2. /\ db[r] \in 1..made /\ db[r] \in Conns /\ db[r] \notin free
        /\ \A q \in PoolUsers : q # r => db[q] # db[r]
    BY <2>1, Held
  <2>3. /\ Shut(db[r]) \/ Ended(db[r])
        /\ keyed' \in {keyed, keyed \ {db[r]}}
        /\ \/ free' = free
           \/ free' = free \cup {db[r]} /\ db[r] \notin closed /\ keyed' # keyed /\ Ended(db[r])
        /\ db[r] \in keyed' => db[r] \in leaked'
        /\ leaked \subseteq leaked' /\ leaked' \subseteq Conns
        /\ free' \cup keyed' \subseteq free \cup keyed
    BY <1>10, <2>2 DEF close_connection, putconn, PoolTypeOK
  <2>4. Stopped(db[r]) /\ (Ended(db[r]) => closed' = closed)
    BY <2>2, <2>3, Stopping
  <2>5. Cardinality(free' \cup keyed') <= PoolSize
    BY <2>3, SlotsShrink
  <2>6. /\ at' \in [PoolUsers -> PoolPcs] /\ at'[r] = "out"
        /\ db' \in [PoolUsers -> 0..made] /\ db'[r] = 0 /\ db[r] # 0
        /\ \A q \in PoolUsers : q # r => at'[q] = at[q] /\ db'[q] = db[q]
        /\ UNCHANGED <<made, old, cursors>>
    BY <2>1 DEF Move, PoolTypeOK, PoolPcs
  <2>7. PoolTypeOK'
    BY <2>2, <2>3, <2>4, <2>5, <2>6 DEF PoolTypeOK, Conns, Places, Stopped, PoolPcs
  <2>8. Places'
    <3>1. free' \cap keyed' = {}
      BY <2>2, <2>3 DEF Places
    <3>2. free' \cap closed' = {}
      BY <2>2, <2>3, <2>4 DEF Places, Stopped
    <3>3. /\ keyed \cup closed \subseteq (keyed' \cup closed') \cup {db[r]}
          /\ free' \subseteq free \cup {db[r]}
      BY <2>3, <2>4 DEF Stopped
    <3>4. ASSUME NEW q \in PoolUsers, db'[q] # 0
          PROVE  db'[q] \notin free' /\ db'[q] \in keyed' \cup closed'
      BY <2>2, <2>6, <3>3, <3>4 DEF Places
    <3>5. ASSUME NEW q \in PoolUsers, at'[q] \in {"reget", "retry"}
          PROVE  db'[q] \in closed' \ keyed'
      BY <2>2, <2>3, <2>4, <2>6, <3>5 DEF Places, Stopped
    <3>6. QED
      BY <3>1, <3>2, <3>4, <3>5 DEF Places
  <2>9. OwnConnections'
    BY <2>2, <2>3, <2>4, <2>5, <2>6 DEF OwnConnections, PoolTypeOK, Stopped, PoolPcs
  <2>10. BrokenIsEmpty' /\ WorkStaysWithItsRequest'
    <3>1. \A x \in Conns : work'[x] = IF x = db[r] THEN {} ELSE work[x]
      BY <2>4 DEF Stopped
    <3>2. broken' \subseteq broken \cup {db[r]} /\ broken' \subseteq Conns
      BY <2>4 DEF Stopped
    <3>3. BrokenIsEmpty'
      BY <3>1, <3>2 DEF BrokenIsEmpty
    <3>4. \A x \in Conns : work[x] \subseteq PoolUsers
      BY DEF PoolTypeOK
    <3>5. WorkStaysWithItsRequest'
      BY <2>6, <3>1, <3>4 DEF WorkStaysWithItsRequest
    <3>6. QED
      BY <3>3, <3>5
  <2>11. SlotsAreHeld'
    BY <2>2, <2>3, <2>4, <2>5, <2>6 DEF SlotsAreHeld, Places, PoolTypeOK, Stopped, PoolPcs
  <2>12. QED
    BY <2>7, <2>8, <2>9, <2>10, <2>11 DEF PoolInv
<1>11. ASSUME NEW r \in PoolUsers, Checkout(r)
      PROVE  PoolInv'
  <2>1. PICK c \in Conns : Took(r, c)
    BY <1>11, Taking DEF Checkout
  <2>2. at[r] = "out" /\ (db[r] = 0 \/ db[r] \in closed \ keyed)
    BY <1>11 DEF Places, PoolTypeOK, Checkout
  <2>3. PoolTypeOK'
    BY <1>11, <2>1, <2>2 DEF PoolTypeOK, Conns, Places, Took, Checkout, Count, Move
  <2>4. Places'
    BY <1>11, <2>1, <2>2 DEF Places, PoolTypeOK, Conns, OwnConnections, Took, Checkout, Count, Move
  <2>5. OwnConnections'
    BY <1>11, <2>1, <2>2 DEF OwnConnections, PoolTypeOK, Took, Checkout, Count, Move
  <2>6. BrokenIsEmpty' /\ WorkStaysWithItsRequest'
    BY <1>11, <2>1, <2>2 DEF BrokenIsEmpty, WorkStaysWithItsRequest, Places, PoolTypeOK, Conns, Took, Checkout, Count, Move
  <2>7. SlotsAreHeld'
    BY <1>11, <2>1, <2>2 DEF SlotsAreHeld, Places, PoolTypeOK, Took, Checkout, Count, Move
  <2>8. QED
    BY <2>3, <2>4, <2>5, <2>6, <2>7 DEF PoolInv
<1>12. ASSUME NEW r \in PoolUsers, Reget(r), ~Exhausted
      PROVE  PoolInv'
  <2>1. PICK c \in Conns : Took(r, c)
    BY <1>12, Taking DEF Reget
  <2>2. at[r] = "reget" /\ (db[r] = 0 \/ db[r] \in closed \ keyed)
    BY <1>12 DEF Places, PoolTypeOK, Reget
  <2>3. PoolTypeOK'
    BY <1>12, <2>1, <2>2 DEF PoolTypeOK, Conns, Places, Took, Reget, Move
  <2>4. Places'
    BY <1>12, <2>1, <2>2 DEF Places, PoolTypeOK, Conns, OwnConnections, Took, Reget, Move
  <2>5. OwnConnections'
    BY <1>12, <2>1, <2>2 DEF OwnConnections, PoolTypeOK, Took, Reget, Move
  <2>6. BrokenIsEmpty' /\ WorkStaysWithItsRequest'
    BY <1>12, <2>1, <2>2 DEF BrokenIsEmpty, WorkStaysWithItsRequest, Places, PoolTypeOK, Conns, Took, Reget, Move
  <2>7. SlotsAreHeld'
    BY <1>12, <2>1, <2>2 DEF SlotsAreHeld, Places, PoolTypeOK, Took, Reget, Move
  <2>8. QED
    BY <2>3, <2>4, <2>5, <2>6, <2>7 DEF PoolInv
<1>13. ASSUME NEW r \in PoolUsers, RetryGet(r)
      PROVE  PoolInv'
  <2>1. /\ at[r] = "retry" /\ getconn(r) /\ UNCHANGED <<leaked, old, cursors>>
        /\ db[r] \in closed \ keyed
    BY <1>13 DEF RetryGet, Places
  <2>2. PICK c \in Conns : Took(r, c)
    BY <2>1, Taking
  <2>3. db'[r] = c
    BY <2>2 DEF Took, PoolTypeOK
  <2>4. /\ Move(r, "failed") \/ Move(r, "body")
        /\ Stopped(c) \/ (UNCHANGED <<broken, closed, work>> /\ intrans' \subseteq Conns)
    BY <1>13, <2>3, Stopping DEF RetryGet, Enter, PoolTypeOK
  <2>5. /\ at' \in [PoolUsers -> PoolPcs] /\ at'[r] \in {"failed", "body"}
        /\ db' \in [PoolUsers -> 0..made'] /\ c # 0 /\ made' \in PoolSize..MaxConn
        /\ \A q \in PoolUsers : q # r => at'[q] = at[q] /\ db'[q] = db[q]
        /\ c \notin keyed /\ keyed' = keyed \cup {c} /\ free' = free \ {c}
        /\ c \in 1..made' /\ made <= made' /\ Cardinality(free' \cup keyed') <= PoolSize
        /\ \A q \in PoolUsers : db[q] # c
    BY <2>2, <2>4 DEF Move, Took, PoolTypeOK, PoolPcs
  <2>6. PoolTypeOK'
    <3>1. /\ free' \subseteq 1..made' /\ keyed' \subseteq 1..made'
      BY <2>5 DEF PoolTypeOK
    <3>2. /\ closed' \subseteq broken' /\ broken' \subseteq Conns /\ intrans' \subseteq Conns
          /\ work' \in [Conns -> SUBSET PoolUsers]
      BY <2>4 DEF Stopped, PoolTypeOK
    <3>3. \A q \in PoolUsers : at'[q] = "out" <=> db'[q] = 0
      BY <2>1, <2>3, <2>5 DEF PoolTypeOK
    <3>4. QED
      BY <2>1, <2>5, <3>1, <3>2, <3>3 DEF PoolTypeOK, PoolPcs
  <2>7. Places'
    <3>1. closed' \subseteq closed \cup {c} /\ closed \subseteq closed'
      BY <2>4 DEF Stopped
    <3>2. free' \cap keyed' = {} /\ free' \cap closed' = {}
      BY <2>5, <3>1 DEF Places
    <3>3. ASSUME NEW q \in PoolUsers
          PROVE  /\ db'[q] # 0 => db'[q] \notin free' /\ db'[q] \in keyed' \cup closed'
                 /\ at'[q] \in {"reget", "retry"} => db'[q] \in closed' \ keyed'
      <4>1. CASE q = r
        BY <2>3, <2>5, <4>1
      <4>2. CASE q # r
        BY <2>5, <3>1, <4>2 DEF Places
      <4>3. QED
        BY <4>1, <4>2
    <3>4. QED
      BY <3>2, <3>3 DEF Places
  <2>8. OwnConnections'
    BY <2>1, <2>3, <2>4, <2>5 DEF OwnConnections, PoolTypeOK, Stopped, PoolPcs
  <2>9. BrokenIsEmpty' /\ WorkStaysWithItsRequest'
    <3>1. /\ \A x \in Conns : work'[x] \subseteq work[x] /\ (x \in broken' => work'[x] = {})
      <4>1. CASE Stopped(c)
        BY <4>1 DEF Stopped, BrokenIsEmpty, PoolTypeOK
      <4>2. CASE UNCHANGED <<broken, closed, work>>
        BY <4>2 DEF BrokenIsEmpty, PoolTypeOK
      <4>3. QED
        BY <2>4, <4>1, <4>2
    <3>2. \A x \in Conns : r \notin work[x]
      BY <2>1 DEF BrokenIsEmpty, WorkStaysWithItsRequest, PoolTypeOK
    <3>3. broken' \subseteq Conns
      BY <2>4 DEF Stopped, PoolTypeOK
    <3>4. \A x \in Conns : work'[x] \subseteq PoolUsers
      BY <3>1 DEF PoolTypeOK
    <3>5. QED
      BY <2>5, <3>1, <3>2, <3>3, <3>4 DEF BrokenIsEmpty, WorkStaysWithItsRequest
  <2>10. SlotsAreHeld'
    BY <2>1, <2>3, <2>4, <2>5 DEF SlotsAreHeld, Places, PoolTypeOK, Stopped, PoolPcs
  <2>11. QED
    BY <2>6, <2>7, <2>8, <2>9, <2>10 DEF PoolInv
<1>14. ASSUME NEW r \in PoolUsers, Reget(r), Exhausted
      PROVE  PoolInv'
  <2>1. PoolTypeOK'
    BY <1>14 DEF PoolTypeOK, Conns, Places, Reget, Move
  <2>2. Places'
    BY <1>14 DEF Places, PoolTypeOK, Conns, OwnConnections, Reget, Move
  <2>3. OwnConnections'
    BY <1>14 DEF OwnConnections, PoolTypeOK, Reget, Move
  <2>4. BrokenIsEmpty' /\ WorkStaysWithItsRequest'
    BY <1>14 DEF BrokenIsEmpty, WorkStaysWithItsRequest, Places, PoolTypeOK, Conns, Reget, Move
  <2>5. SlotsAreHeld'
    BY <1>14 DEF SlotsAreHeld, Places, PoolTypeOK, Reget, Move
  <2>6. QED
    BY <2>1, <2>2, <2>3, <2>4, <2>5 DEF PoolInv
<1>15. ASSUME NEW c \in Conns, Break(c) \/ Grow(c)
      PROVE  PoolInv'
  <2>1. PoolTypeOK'
    BY <1>15 DEF PoolTypeOK, Conns, Places, Break, Grow
  <2>2. Places'
    BY <1>15 DEF Places, PoolTypeOK, Conns, OwnConnections, Break, Grow
  <2>3. OwnConnections'
    BY <1>15 DEF OwnConnections, PoolTypeOK, Break, Grow
  <2>4. BrokenIsEmpty' /\ WorkStaysWithItsRequest'
    <3>1. CASE Break(c)
      <4>1. UNCHANGED <<db, at>> /\ broken' = broken \cup {c} /\ work' = [work EXCEPT ![c] = {}]
        BY <3>1 DEF Break
      <4>2. \A x \in Conns : work'[x] \subseteq work[x] /\ (x \in broken' => work'[x] = {})
        BY <4>1 DEF BrokenIsEmpty, PoolTypeOK
      <4>3. broken' \subseteq Conns
        BY <4>1 DEF PoolTypeOK
      <4>4. QED
        BY <4>1, <4>2, <4>3 DEF BrokenIsEmpty, WorkStaysWithItsRequest
    <3>2. CASE Grow(c)
      BY <3>2 DEF Grow, link, BrokenIsEmpty, WorkStaysWithItsRequest
    <3>3. QED
      BY <1>15, <3>1, <3>2
  <2>5. SlotsAreHeld'
    BY <1>15 DEF SlotsAreHeld, Places, PoolTypeOK, Break, Grow
  <2>6. QED
    BY <2>1, <2>2, <2>3, <2>4, <2>5 DEF PoolInv
<1>16. CASE UNCHANGED poolVars
  BY <1>16 DEF poolVars, PoolInv, PoolTypeOK, Places, OwnConnections, BrokenIsEmpty,
     WorkStaysWithItsRequest, SlotsAreHeld
<1>17. QED
  BY <1>1, <1>2, <1>3, <1>4, <1>5, <1>6, <1>7, <1>8, <1>9, <1>10, <1>11, <1>12, <1>13, <1>14, <1>15, <1>16 DEF PoolNext

\* The inductive invariant of the pool, its types and its size included.
THEOREM PoolInvariance == PoolSpec => []PoolInv
<1>1. PoolInv /\ [PoolNext]_poolVars => PoolInv'
  BY PoolStep
<1>2. QED
  BY PoolStart, <1>1, PTL DEF PoolSpec

\* Requests share neither a connection nor uncommitted work, through recycling,
\* retries, blocks without commit and broken connections.
THEOREM IsolatedConnections == PoolSpec => []ConnectionsAreIsolated
<1>1. PoolInv => ConnectionsAreIsolated
  BY DEF PoolInv, ConnectionsAreIsolated, ConnectionsAreExclusive, Places, OwnConnections
<1>2. QED
  BY <1>1, PoolInvariance, PTL

\* No slot of the pool is lost but in the one way the code has.
THEOREM HeldSlots == PoolSpec => []SlotsAreHeld
<1>1. PoolInv => SlotsAreHeld
  BY DEF PoolInv
<1>2. QED
  BY <1>1, PoolInvariance, PTL

-----------------------------------------------------------------------------
(* Backups *)

\* What an actor carries from one step to the next.
Starting  == [pc : {"dump", "encrypt"}, sec : Seconds, key : Keys]
Storing   == [pc : {"unlink", "record"}, sec : Seconds, key : Keys, sum : Dumps]
Checking  == [pc : {"sum", "prelock", "preclose", "lock", "mark", "look", "open", "bad"},
              op : {"restore", "verify"}, id : Nat, row : Row]
Requeued  == [pc : {"lock", "mark", "look", "open", "bad"}, id : Nat, row : Row]
Loading   == [pc : {"pg", "ok", "bad"}, id : Nat, row : Row, loaded : Dumps,
              whole : BOOLEAN, linked : BOOLEAN]
Deleting  == [pc : {"file"}, sec : Seconds]

ActorStates == UNION {{Resting}, Starting, Storing, Checking, Requeued, Loading, Deleting}

Statuses   == {"none", "running", "failed", "success"}
DumpStates == [sec : 0..MaxSecond, backups : Seq(Row), rstatus : Statuses]

RowPcs  == {"sum", "prelock", "preclose", "lock", "mark", "look", "open", "pg", "ok", "bad"}
LockPcs == {"preclose", "mark", "look", "open", "pg", "ok", "bad"}
EndPcs  == {"look", "open", "pg", "ok", "bad"}

BackupShape ==
  /\ backups \in Seq(Row) /\ rstatus \in Statuses
  /\ dumped \in [Dumps -> DumpStates]
  /\ \A d \in Dumps : dumped[d].sec = 0 <=> dumped[d] = NoDump
  /\ plain \in [Seconds -> 0..MaxBackups] /\ dec \in [Seconds -> 0..MaxBackups]
  /\ enc \in [Seconds -> [dump : 0..MaxBackups, key : Keys]]
  /\ rlock \in Actors \cup {NoActor} /\ actor \in [Actors -> ActorStates]
  /\ second \in Seconds /\ restores \in 0..MaxRestores
  /\ collided \in BOOLEAN /\ restored \in BOOLEAN /\ rdied \in BOOLEAN
  /\ \E n \in Nat : Taken = 1..n

\* A dump that was taken in second s.
DumpOf(d, s) == d \in Dumps /\ dumped[d].sec = s

\* Whatever stands under the name of a second was dumped in that second, and
\* what is said of a backup is said of a dump of its second: in the files, in
\* the rows, in the rows that a dump holds and in what actors remember.
RowOK(row) == DumpOf(row.sum, row.sec)

FilesOK ==
  \A s \in Seconds : /\ plain[s] # 0 => DumpOf(plain[s], s)
                     /\ enc[s].dump # 0 => DumpOf(enc[s].dump, s)
                     /\ dec[s] # 0 => DumpOf(dec[s], s)

RowsOK == \A i \in DOMAIN backups : RowOK(backups[i])

HeldRowsOK == \A d \in Dumps : \A i \in DOMAIN dumped[d].backups : RowOK(dumped[d].backups[i])

ActorOK(x) ==
  /\ x.pc = "encrypt" => \E d \in Dumps : DumpOf(d, x.sec)
  /\ x.pc \in {"unlink", "record"} => DumpOf(x.sum, x.sec)
  /\ x.pc \in RowPcs => RowOK(x.row)
  /\ x.pc \in {"pg", "ok"} => DumpOf(x.loaded, x.row.sec)

Sources == FilesOK /\ RowsOK /\ HeldRowsOK /\ \A a \in Actors : ActorOK(actor[a])

\* Dumps of one second are a collision.
DumpsApart ==
  ~collided => \A d, e \in Taken : dumped[d].sec = dumped[e].sec => d = e

\* Who is past a lock has it.
LocksHeld == \A a \in Actors : actor[a].pc \in LockPcs => rlock = a

LEMMA ActorKinds ==
  ASSUME NEW x \in ActorStates
  PROVE  /\ x.pc \in {"dump", "encrypt"} => x \in Starting
         /\ x.pc \in {"unlink", "record"} => x \in Storing
         /\ x.pc = "file" => x \in Deleting
         /\ x.pc \in {"sum", "prelock", "preclose"} => x \in Checking
         /\ x.pc \in {"lock", "mark", "look", "open"} => x \in Checking \cup Requeued
         /\ x.pc \in {"pg", "ok"} => x \in Loading
         /\ x.pc = "bad" => x \in Checking \cup Requeued \cup Loading
         /\ x.pc = "idle" => x = Resting
         /\ x.pc \in RowPcs => x.row \in Row /\ x.id \in Nat
         /\ x.pc \in Pcs \cup {"idle"}
<1> USE DEF Starting, Storing, Checking, Requeued, Loading, Deleting, Resting, RowPcs, Pcs
<1>1. CASE x = Resting
  BY <1>1
<1>2. CASE x \in Starting
  BY <1>2
<1>3. CASE x \in Storing
  BY <1>3
<1>4. CASE x \in Checking
  BY <1>4
<1>5. CASE x \in Requeued
  BY <1>5
<1>6. CASE x \in Loading
  BY <1>6
<1>7. CASE x \in Deleting
  BY <1>7
<1>8. QED
  BY <1>1, <1>2, <1>3, <1>4, <1>5, <1>6, <1>7 DEF ActorStates

LEMMA KindsOfActor ==
  /\ Resting \in ActorStates /\ Starting \subseteq ActorStates /\ Storing \subseteq ActorStates
  /\ Checking \subseteq ActorStates /\ Requeued \subseteq ActorStates
  /\ Loading \subseteq ActorStates /\ Deleting \subseteq ActorStates
BY DEF ActorStates

\* An actor that goes on to its next step carries the rest along.
LEMMA ActorGoesOn ==
  ASSUME NEW x, NEW pc
  PROVE  /\ x \in Starting /\ pc \in {"dump", "encrypt"} =>
              /\ [x EXCEPT !.pc = pc] \in Starting /\ [x EXCEPT !.pc = pc].pc = pc
              /\ [x EXCEPT !.pc = pc].sec = x.sec /\ [x EXCEPT !.pc = pc].key = x.key
         /\ x \in Storing /\ pc \in {"unlink", "record"} =>
              /\ [x EXCEPT !.pc = pc] \in Storing /\ [x EXCEPT !.pc = pc].pc = pc
              /\ [x EXCEPT !.pc = pc].sec = x.sec /\ [x EXCEPT !.pc = pc].key = x.key
              /\ [x EXCEPT !.pc = pc].sum = x.sum
         /\ x \in Checking /\ pc \in {"sum", "prelock", "preclose", "lock", "mark", "look", "open", "bad"} =>
              /\ [x EXCEPT !.pc = pc] \in Checking /\ [x EXCEPT !.pc = pc].pc = pc
              /\ [x EXCEPT !.pc = pc].row = x.row
         /\ x \in Requeued /\ pc \in {"lock", "mark", "look", "open", "bad"} =>
              /\ [x EXCEPT !.pc = pc] \in Requeued /\ [x EXCEPT !.pc = pc].pc = pc
              /\ [x EXCEPT !.pc = pc].row = x.row
         /\ x \in Loading /\ pc \in {"pg", "ok", "bad"} =>
              /\ [x EXCEPT !.pc = pc] \in Loading /\ [x EXCEPT !.pc = pc].pc = pc
              /\ [x EXCEPT !.pc = pc].row = x.row /\ [x EXCEPT !.pc = pc].loaded = x.loaded
<1> USE DEF Starting, Storing, Checking, Requeued, Loading
<1>1. CASE x \in Starting
  BY <1>1
<1>2. CASE x \in Storing
  BY <1>2
<1>3. CASE x \in Checking
  BY <1>3
<1>4. CASE x \in Requeued
  BY <1>4
<1>5. CASE x \in Loading
  BY <1>5
<1>6. QED
  BY <1>1, <1>2, <1>3, <1>4, <1>5

\* A backup between its dump and its row.
Staged(a) == actor[a].pc \in {"encrypt", "unlink", "record"}
Encrypted(a) == actor[a].pc \in {"unlink", "record"}

\* As long as no names collide and no older list comes back, a second belongs
\* to one backup: to the actor that makes it or to its row.  What is stored
\* stays under its name until the row is hidden.
SecondsApart ==
  /\ \A a, b \in Actors : Staged(a) /\ Staged(b) /\ actor[a].sec = actor[b].sec => a = b
  /\ \A a \in Actors, i \in DOMAIN backups : Staged(a) => backups[i].sec # actor[a].sec
  /\ \A i, j \in DOMAIN backups : backups[i].sec = backups[j].sec => i = j

StoredFiles ==
  /\ \A a \in Actors : Encrypted(a) =>
       enc[actor[a].sec] = [dump |-> actor[a].sum, key |-> actor[a].key]
  /\ \A i \in DOMAIN backups : backups[i].live =>
       enc[backups[i].sec] = [dump |-> backups[i].sum, key |-> backups[i].key]

HiddenFirst ==
  \A a \in Actors : actor[a].pc = "file" =>
    \E i \in DOMAIN backups : backups[i].sec = actor[a].sec /\ ~backups[i].live

Listed == ~collided /\ ~restored => SecondsApart /\ StoredFiles /\ HiddenFirst

BackupInv ==
  /\ BackupShape /\ Sources /\ DumpsApart /\ LocksHeld /\ Listed /\ RestoreStatusEnds

\* Another actor is left alone, but for the file it may be loading.
Alike(b) ==
  \/ actor'[b] = actor[b]
  \/ /\ actor[b] \in Loading /\ actor'[b] \in Loading
     /\ actor[b].pc = "pg" /\ actor'[b].pc = "pg"
     /\ actor'[b].row = actor[b].row /\ actor'[b].loaded = actor[b].loaded

Moves(a, next) ==
  /\ actor' = [b \in Actors |-> actor'[b]] /\ actor'[a] = next
  /\ \A b \in Actors : b # a => Alike(b)

\* It takes the lock if it is free, or gives up its own.
LockStep(a, next) ==
  /\ rlock' = rlock \/ rlock \in {a, NoActor}
  /\ next.pc \in LockPcs => rlock' = a

\* If it leaves "running" behind, somebody is there to end it.
StatusStep(a, next) ==
  rstatus' = "running" =>
    \/ rdied' \/ next.pc \in EndPcs
    \/ rstatus = "running" /\ (rdied => rdied') /\ actor[a].pc \notin EndPcs

LEMMA ActorMoves ==
  ASSUME BackupInv, NEW a \in Actors, NEW next \in ActorStates, Moves(a, next), ActorOK(next),
         dumped' = dumped, LockStep(a, next), StatusStep(a, next)
  PROVE  /\ actor' \in [Actors -> ActorStates] /\ \A b \in Actors : ActorOK(actor[b])'
         /\ LocksHeld' /\ RestoreStatusEnds'
<1> USE BackupAssumption
<1>1. \A b \in Actors : b # a => Alike(b) /\ actor[b] \in ActorStates /\ ActorOK(actor[b])
  BY DEF Moves, BackupInv, BackupShape, Sources
<1>2. \A b \in Actors : actor'[b] \in ActorStates
  BY <1>1, KindsOfActor DEF Moves, Alike
<1>3. actor' \in [Actors -> ActorStates]
  BY <1>2 DEF Moves
<1>4. ASSUME NEW b \in Actors
      PROVE  ActorOK(actor[b])'
  <2>1. CASE b = a
    BY <2>1 DEF Moves, ActorOK, DumpOf, RowOK
  <2>2. CASE b # a
    <3>1. CASE actor'[b] = actor[b]
      BY <1>1, <2>2, <3>1 DEF ActorOK, DumpOf, RowOK
    <3>2. CASE actor'[b] # actor[b]
      <4>1. /\ actor[b].pc = "pg" /\ actor'[b].pc = "pg"
            /\ actor'[b].row = actor[b].row /\ actor'[b].loaded = actor[b].loaded
        BY <1>1, <2>2, <3>2 DEF Alike
      <4>2. QED
        BY <1>1, <2>2, <4>1 DEF ActorOK, DumpOf, RowOK, RowPcs
    <3>3. QED
      BY <3>1, <3>2
  <2>3. QED
    BY <2>1, <2>2
<1>5. \A b \in Actors : b # a => actor'[b].pc = actor[b].pc
  BY <1>1 DEF Alike
<1>6. LocksHeld'
  BY <1>5 DEF Moves, BackupInv, LocksHeld, LockStep
<1>7. RestoreStatusEnds'
  <2>1. SUFFICES ASSUME rstatus' = "running", ~rdied'
                 PROVE  \E b \in Actors : actor'[b].pc \in EndPcs
    BY DEF RestoreStatusEnds, EndPcs
  <2>2. CASE next.pc \in EndPcs
    BY <2>2 DEF Moves
  <2>3. CASE next.pc \notin EndPcs
    <3>1. rstatus = "running" /\ ~rdied /\ actor[a].pc \notin EndPcs
      BY <2>1, <2>3 DEF StatusStep
    <3>2. PICK b \in Actors : actor[b].pc \in EndPcs
      BY <3>1 DEF BackupInv, RestoreStatusEnds, EndPcs
    <3>3. b # a
      BY <3>1, <3>2
    <3>4. QED
      BY <1>5, <3>2, <3>3
  <2>4. QED
    BY <2>2, <2>3
<1>8. QED
  BY <1>3, <1>4, <1>6, <1>7

\* A step that writes no file and no row, on which the actor goes on with the
\* same backup or does no longer make or delete one.
LEMMA ListedFrame ==
  ASSUME Listed, NEW a \in Actors, NEW next, Moves(a, next),
         UNCHANGED <<backups, enc>>, collided => collided', restored => restored',
         \/ next.pc \notin {"encrypt", "unlink", "record", "file"}
         \/ /\ Encrypted(a) /\ next.pc = "record"
            /\ next.sec = actor[a].sec /\ next.key = actor[a].key /\ next.sum = actor[a].sum
  PROVE  Listed'
<1>1. SUFFICES ASSUME ~collided', ~restored'
               PROVE  SecondsApart' /\ StoredFiles' /\ HiddenFirst'
  BY DEF Listed
<1>2. SecondsApart /\ StoredFiles /\ HiddenFirst
  BY <1>1 DEF Listed
<1>3. \A b \in Actors : b # a => actor'[b] = actor[b] \/ (actor'[b].pc = "pg" /\ actor[b].pc = "pg")
  BY DEF Moves, Alike
<1>4. \A b \in Actors : Staged(b)' => Staged(b) /\ actor'[b].sec = actor[b].sec
  BY <1>3 DEF Moves, Staged, Encrypted
<1>5. \A b \in Actors : Encrypted(b)' => Encrypted(b) /\ actor'[b].sec = actor[b].sec
                                      /\ actor'[b].key = actor[b].key /\ actor'[b].sum = actor[b].sum
  BY <1>3 DEF Moves, Encrypted
<1>6. \A b \in Actors : actor'[b].pc = "file" => actor'[b] = actor[b]
  BY <1>3 DEF Moves
<1>7. SecondsApart'
  BY <1>2, <1>4 DEF SecondsApart
<1>8. StoredFiles'
  BY <1>2, <1>5 DEF StoredFiles
<1>9. HiddenFirst'
  BY <1>2, <1>6 DEF HiddenFirst
<1>10. QED
  BY <1>7, <1>8, <1>9

TypesKept ==
  /\ backups' \in Seq(Row) /\ rstatus' \in Statuses /\ dumped' = dumped
  /\ plain' \in [Seconds -> 0..MaxBackups] /\ dec' \in [Seconds -> 0..MaxBackups]
  /\ enc' \in [Seconds -> [dump : 0..MaxBackups, key : Keys]]
  /\ rlock' \in Actors \cup {NoActor} /\ second' \in Seconds /\ restores' \in 0..MaxRestores
  /\ collided' = collided /\ restored' \in BOOLEAN /\ rdied' \in BOOLEAN

LEMMA BackupFrame ==
  ASSUME BackupInv, NEW a \in Actors, NEW next \in ActorStates, Moves(a, next), ActorOK(next),
         LockStep(a, next), StatusStep(a, next), TypesKept, FilesOK', RowsOK', Listed'
  PROVE  BackupInv'
<1>1. /\ actor' \in [Actors -> ActorStates] /\ \A b \in Actors : ActorOK(actor[b])'
      /\ LocksHeld' /\ RestoreStatusEnds'
  BY ActorMoves DEF TypesKept
<1>2. Taken' = Taken /\ dumped' = dumped
  BY DEF TypesKept, Taken
<1>3. BackupShape'
  <2>1. \E n \in Nat : Taken' = 1..n
    BY <1>2 DEF BackupInv, BackupShape
  <2>2. QED
    BY <1>1, <1>2, <2>1 DEF BackupInv, BackupShape, TypesKept
<1>4. HeldRowsOK'
  BY <1>2 DEF BackupInv, Sources, HeldRowsOK, RowOK, DumpOf
<1>5. DumpsApart'
  BY <1>2 DEF BackupInv, DumpsApart, TypesKept
<1>6. QED
  BY <1>1, <1>3, <1>4, <1>5 DEF BackupInv, Sources

\* A step that changes neither rows nor files.
LEMMA PlainMove ==
  ASSUME BackupInv, NEW a \in Actors, NEW next \in ActorStates, Moves(a, next), ActorOK(next),
         LockStep(a, next), StatusStep(a, next),
         UNCHANGED <<backups, plain, enc, dec, dumped, second, collided, restored>>,
         rstatus' \in Statuses, rlock' \in Actors \cup {NoActor}, restores' \in 0..MaxRestores,
         rdied' \in BOOLEAN, next.pc \notin {"encrypt", "unlink", "record", "file"}
  PROVE  BackupInv'
<1>1. TypesKept
  BY DEF BackupInv, BackupShape, TypesKept
<1>2. FilesOK' /\ RowsOK'
  BY DEF BackupInv, Sources, FilesOK, RowsOK, RowOK, DumpOf
<1>3. Listed'
  BY ListedFrame DEF BackupInv
<1>4. QED
  BY <1>1, <1>2, <1>3, BackupFrame

\* One actor moves, the others stand still.
LEMMA OneMoves ==
  ASSUME BackupShape, NEW a \in Actors, NEW next, actor' = [actor EXCEPT ![a] = next]
  PROVE  Moves(a, next)
BY DEF BackupShape, Moves, Alike

LEMMA ActorRest ==
  /\ Resting \in ActorStates /\ Resting.pc = "idle"
  /\ ActorOK(Resting)
BY KindsOfActor DEF Resting, ActorOK, RowPcs

\* An actor that stops, its lock given up.
LEMMA RestStep ==
  ASSUME BackupInv, NEW a \in Actors, Rest(a),
         UNCHANGED <<backups, plain, enc, dec, dumped, second, collided, restored>>,
         rstatus' \in Statuses, rlock' \in Actors \cup {NoActor}, restores' \in 0..MaxRestores,
         rdied' \in BOOLEAN, rlock' = rlock \/ rlock \in {a, NoActor},
         rstatus' = "running" => rdied' \/ (rstatus = "running" /\ (rdied => rdied') /\ actor[a].pc \notin EndPcs)
  PROVE  BackupInv'
<1>1. Moves(a, Resting)
  BY OneMoves DEF Rest, BackupInv
<1>2. LockStep(a, Resting) /\ StatusStep(a, Resting)
  BY ActorRest DEF LockStep, StatusStep, LockPcs
<1>3. QED
  BY <1>1, <1>2, ActorRest, PlainMove

LEMMA CreateStep ==
  ASSUME BackupInv, NEW a \in Actors, NEW name \in BackupNames, CreateBackup(a, name)
  PROVE  BackupInv'
<1> DEFINE next == [pc |-> "dump", sec |-> second, key |-> <<second, name>>]
<1>1. /\ actor[a] = Resting /\ actor' = [actor EXCEPT ![a] = next]
      /\ UNCHANGED <<backups, rstatus, plain, enc, dec, dumped, rlock, second, restores, collided, restored, rdied>>
  BY DEF CreateBackup, tables, files, history
<1>2. next \in Starting
  <2>1. second \in Seconds /\ <<second, name>> \in Keys
    BY DEF BackupInv, BackupShape, Keys
  <2>2. QED
    BY <2>1 DEF Starting
<1>3. next.pc = "dump" /\ ActorOK(next)
  BY DEF ActorOK, RowPcs
<1> HIDE DEF next
<1>4. Moves(a, next)
  BY <1>1, OneMoves DEF BackupInv
<1>5. LockStep(a, next) /\ StatusStep(a, next)
  BY <1>1, <1>3, ActorRest DEF LockStep, StatusStep, LockPcs, EndPcs
<1>6. QED
  BY <1>1, <1>2, <1>3, <1>4, <1>5, KindsOfActor, PlainMove DEF BackupInv, BackupShape

LEMMA DumpFailsStep ==
  ASSUME BackupInv, NEW a \in Actors, DumpFails(a)
  PROVE  BackupInv'
<1>1. /\ actor[a].pc = "dump" /\ Rest(a)
      /\ UNCHANGED <<backups, rstatus, plain, enc, dec, dumped, rlock, second, restores, collided, restored, rdied>>
  BY DEF DumpFails, tables, files, history
<1>2. QED
  BY <1>1, RestStep DEF BackupInv, BackupShape, EndPcs

\* The pc of an actor with a row, and of the row itself.
LEMMA RowGoesOn ==
  ASSUME BackupInv, NEW a \in Actors, NEW pc,
         \/ actor[a].pc \in {"sum", "prelock", "preclose"} /\ pc \in {"prelock", "preclose", "lock", "mark", "look", "open", "bad"}
         \/ actor[a].pc \in {"lock", "mark", "look", "open"} /\ pc \in {"lock", "mark", "look", "open", "bad"}
         \/ actor[a].pc \in {"pg", "ok"} /\ pc \in {"ok", "bad"}
  PROVE  /\ [actor[a] EXCEPT !.pc = pc] \in ActorStates /\ [actor[a] EXCEPT !.pc = pc].pc = pc
         /\ ActorOK([actor[a] EXCEPT !.pc = pc])
<1> DEFINE next == [actor[a] EXCEPT !.pc = pc]
<1>1. actor[a] \in ActorStates /\ ActorOK(actor[a])
  BY DEF BackupInv, BackupShape, Sources
<1>2. \/ actor[a] \in Checking /\ pc \in {"prelock", "preclose", "lock", "mark", "look", "open", "bad"}
      \/ actor[a] \in Requeued /\ pc \in {"lock", "mark", "look", "open", "bad"}
      \/ actor[a] \in Loading /\ actor[a].pc \in {"pg", "ok"} /\ pc \in {"ok", "bad"}
  BY <1>1, ActorKinds
<1>3. CASE actor[a] \in Checking /\ pc \in {"prelock", "preclose", "lock", "mark", "look", "open", "bad"}
  <2>1. next \in Checking /\ next.pc = pc /\ next.row = actor[a].row
    BY <1>3, ActorGoesOn
  <2>2. RowOK(actor[a].row)
    BY <1>1, <1>3 DEF ActorOK, Checking, RowPcs
  <2> HIDE DEF next
  <2>3. ActorOK(next)
    BY <1>3, <2>1, <2>2 DEF ActorOK, RowPcs
  <2>4. QED
    BY <2>1, <2>3, KindsOfActor DEF next
<1>4. CASE actor[a] \in Requeued /\ pc \in {"lock", "mark", "look", "open", "bad"}
  <2>1. next \in Requeued /\ next.pc = pc /\ next.row = actor[a].row
    BY <1>4, ActorGoesOn
  <2>2. RowOK(actor[a].row)
    BY <1>1, <1>4 DEF ActorOK, Requeued, RowPcs
  <2> HIDE DEF next
  <2>3. ActorOK(next)
    BY <1>4, <2>1, <2>2 DEF ActorOK, RowPcs
  <2>4. QED
    BY <2>1, <2>3, KindsOfActor DEF next
<1>5. CASE actor[a] \in Loading /\ actor[a].pc \in {"pg", "ok"} /\ pc \in {"ok", "bad"}
  <2>1. next \in Loading /\ next.pc = pc /\ next.row = actor[a].row /\ next.loaded = actor[a].loaded
    BY <1>5, ActorGoesOn
  <2>2. RowOK(actor[a].row) /\ DumpOf(actor[a].loaded, actor[a].row.sec)
    BY <1>1, <1>5 DEF ActorOK, RowPcs
  <2> HIDE DEF next
  <2>3. ActorOK(next)
    BY <1>5, <2>1, <2>2 DEF ActorOK, RowPcs
  <2>4. QED
    BY <2>1, <2>3, KindsOfActor DEF next
<1>6. QED
  BY <1>2, <1>3, <1>4, <1>5

LEMMA StepMoves ==
  ASSUME BackupShape, NEW a \in Actors, NEW pc, Step(a, pc)
  PROVE  Moves(a, [actor[a] EXCEPT !.pc = pc])
<1>1. actor' = [actor EXCEPT ![a] = [actor[a] EXCEPT !.pc = pc]]
  BY DEF Step, BackupShape
<1>2. QED
  BY <1>1, OneMoves

LEMMA PreLockStep ==
  ASSUME BackupInv, NEW a \in Actors, PreLock(a)
  PROVE  BackupInv'
<1> DEFINE next == [actor[a] EXCEPT !.pc = "preclose"]
<1>1. /\ actor[a].pc = "prelock"
      /\ UNCHANGED <<backups, rstatus, plain, enc, dec, dumped, second, restores, collided, restored, rdied>>
      /\ rstatus' \in Statuses /\ restores' \in 0..MaxRestores /\ rdied' \in BOOLEAN
  BY DEF PreLock, tables, files, history, BackupInv, BackupShape
<1>2. CASE ~RestoreLockFree
  <2>1. Rest(a) /\ rlock' = rlock /\ rlock' \in Actors \cup {NoActor}
    BY <1>2 DEF PreLock, BackupInv, BackupShape
  <2>2. QED
    BY <1>1, <2>1, RestStep DEF EndPcs
<1>3. CASE RestoreLockFree
  <2>1. Step(a, "preclose") /\ rlock' = a /\ rlock = NoActor
    BY <1>3 DEF PreLock, RestoreLockFree
  <2>2. next \in ActorStates /\ next.pc = "preclose" /\ ActorOK(next)
    BY <1>1, RowGoesOn
  <2>3. Moves(a, next)
    BY <2>1, StepMoves DEF BackupInv
  <2> HIDE DEF next
  <2>4. LockStep(a, next) /\ StatusStep(a, next)
    BY <1>1, <2>1, <2>2 DEF LockStep, StatusStep, EndPcs
  <2>5. QED
    BY <1>1, <2>1, <2>2, <2>3, <2>4, PlainMove
<1>4. QED
  BY <1>2, <1>3

LEMMA PreCloseStep ==
  ASSUME BackupInv, NEW a \in Actors, PreClose(a)
  PROVE  BackupInv'
<1> DEFINE next == [actor[a] EXCEPT !.pc = "lock"]
<1>1. /\ actor[a].pc = "preclose" /\ Step(a, "lock")
      /\ rlock' = IF rlock = a THEN NoActor ELSE rlock
      /\ UNCHANGED <<backups, rstatus, plain, enc, dec, dumped, second, restores, collided, restored, rdied>>
      /\ rstatus' \in Statuses /\ restores' \in 0..MaxRestores /\ rdied' \in BOOLEAN
  BY DEF PreClose, tables, files, history, BackupInv, BackupShape
<1>2. next \in ActorStates /\ next.pc = "lock" /\ ActorOK(next)
  BY <1>1, RowGoesOn
<1>3. Moves(a, next)
  BY <1>1, StepMoves DEF BackupInv
<1> HIDE DEF next
<1>4. /\ LockStep(a, next) /\ StatusStep(a, next) /\ rlock' \in Actors \cup {NoActor}
  BY <1>1, <1>2 DEF LockStep, StatusStep, EndPcs, LockPcs, BackupInv, BackupShape
<1>5. QED
  BY <1>1, <1>2, <1>3, <1>4, PlainMove

LEMMA RestoreLockStep ==
  ASSUME BackupInv, NEW a \in Actors, RestoreLock(a)
  PROVE  BackupInv'
<1> DEFINE next == [actor[a] EXCEPT !.pc = "mark"]
<1>1. /\ actor[a].pc = "lock"
      /\ UNCHANGED <<backups, plain, enc, dec, dumped, second, restores, collided, restored, rdied>>
      /\ restores' \in 0..MaxRestores /\ rdied' \in BOOLEAN
  BY DEF RestoreLock, files, history, BackupInv, BackupShape
<1>2. CASE ~RestoreLockFree
  <2>1. Rest(a) /\ rlock' = rlock /\ rstatus' = "failed" /\ rlock' \in Actors \cup {NoActor}
    BY <1>2 DEF RestoreLock, BackupInv, BackupShape
  <2>2. QED
    BY <1>1, <2>1, RestStep DEF Statuses
<1>3. CASE RestoreLockFree
  <2>1. Step(a, "mark") /\ rlock' = a /\ rlock = NoActor /\ rstatus' = rstatus
    BY <1>3 DEF RestoreLock, RestoreLockFree
  <2>2. next \in ActorStates /\ next.pc = "mark" /\ ActorOK(next)
    BY <1>1, RowGoesOn
  <2>3. Moves(a, next)
    BY <2>1, StepMoves DEF BackupInv
  <2> HIDE DEF next
  <2>4. LockStep(a, next) /\ StatusStep(a, next) /\ rstatus' \in Statuses
    BY <1>1, <2>1, <2>2 DEF LockStep, StatusStep, EndPcs, BackupInv, BackupShape
  <2>5. QED
    BY <1>1, <2>1, <2>2, <2>3, <2>4, PlainMove
<1>4. QED
  BY <1>2, <1>3

LEMMA RestoreMarkStep ==
  ASSUME BackupInv, NEW a \in Actors, RestoreMark(a)
  PROVE  BackupInv'
<1> DEFINE next == [actor[a] EXCEPT !.pc = "look"]
<1>1. /\ actor[a].pc = "mark" /\ Step(a, "look") /\ rstatus' = "running"
      /\ UNCHANGED <<backups, rlock, plain, enc, dec, dumped, second, restores, collided, restored, rdied>>
      /\ restores' \in 0..MaxRestores /\ rdied' \in BOOLEAN /\ rlock' \in Actors \cup {NoActor}
  BY DEF RestoreMark, files, history, BackupInv, BackupShape
<1>2. next \in ActorStates /\ next.pc = "look" /\ ActorOK(next)
  BY <1>1, RowGoesOn
<1>3. Moves(a, next)
  BY <1>1, StepMoves DEF BackupInv
<1>4. rlock = a
  BY <1>1 DEF BackupInv, LocksHeld, LockPcs
<1> HIDE DEF next
<1>5. LockStep(a, next) /\ StatusStep(a, next) /\ rstatus' \in Statuses
  BY <1>1, <1>2, <1>4 DEF LockStep, StatusStep, EndPcs, LockPcs, Statuses
<1>6. QED
  BY <1>1, <1>2, <1>3, <1>5, PlainMove

LEMMA RestoreOpenStep ==
  ASSUME BackupInv, NEW a \in Actors, RestoreOpen(a)
  PROVE  BackupInv'
<1> DEFINE f == dec[actor[a].row.sec]
<1>1. /\ actor[a].pc = "open" /\ rlock = a
      /\ UNCHANGED <<backups, rstatus, rlock, plain, enc, dec, dumped, second, restores, collided, restored, rdied>>
      /\ restores' \in 0..MaxRestores /\ rdied' \in BOOLEAN /\ rlock' \in Actors \cup {NoActor}
      /\ rstatus' \in Statuses
  BY DEF RestoreOpen, tables, files, history, BackupInv, BackupShape, LocksHeld, LockPcs
<1>2. PICK next \in ActorStates : /\ Moves(a, next) /\ ActorOK(next) /\ next.pc \in {"pg", "bad"}
  <2>1. CASE f = 0
    <3> DEFINE next == [actor[a] EXCEPT !.pc = "bad"]
    <3>1. Step(a, "bad")
      BY <2>1 DEF RestoreOpen, DecName
    <3>2. next \in ActorStates /\ next.pc = "bad" /\ ActorOK(next)
      BY <1>1, RowGoesOn
    <3>3. Moves(a, next)
      BY <3>1, StepMoves DEF BackupInv
    <3>4. QED
      BY <3>2, <3>3
  <2>2. CASE f # 0
    <3> DEFINE next == [pc |-> "pg", id |-> actor[a].id, row |-> actor[a].row, loaded |-> f,
                        whole |-> TRUE, linked |-> TRUE]
    <3>1. actor' = [actor EXCEPT ![a] = next]
      BY <2>2 DEF RestoreOpen, DecName
    <3>2. actor[a] \in ActorStates /\ ActorOK(actor[a])
      BY DEF BackupInv, BackupShape, Sources
    <3>3. actor[a].row \in Row /\ actor[a].id \in Nat /\ RowOK(actor[a].row)
      BY <1>1, <3>2, ActorKinds DEF RowPcs, ActorOK
    <3>4. actor[a].row.sec \in Seconds
      BY <3>3 DEF Row
    <3>5. DumpOf(f, actor[a].row.sec)
      BY <2>2, <3>4 DEF BackupInv, Sources, FilesOK
    <3>6. next \in Loading
      BY <3>3, <3>5 DEF Loading, DumpOf
    <3>7. ActorOK(next)
      BY <3>3, <3>5 DEF ActorOK
    <3>8. Moves(a, next)
      BY <3>1, OneMoves DEF BackupInv
    <3> HIDE DEF f
    <3>9. QED
      BY <3>6, <3>7, <3>8, KindsOfActor
  <2>3. QED
    BY <2>1, <2>2
<1>3. LockStep(a, next) /\ StatusStep(a, next)
  BY <1>1, <1>2 DEF LockStep, StatusStep, EndPcs
<1>4. QED
  BY <1>1, <1>2, <1>3, PlainMove

LEMMA RestoreDieStep ==
  ASSUME BackupInv, NEW a \in Actors, RestoreDie(a)
  PROVE  BackupInv'
<1>1. /\ actor[a].pc \in RowPcs /\ rlock' = (IF rlock = a THEN NoActor ELSE rlock) /\ rdied' = TRUE
      /\ UNCHANGED <<backups, rstatus, plain, enc, dec, dumped, second, collided, restored>>
      /\ rstatus' \in Statuses /\ rlock' \in Actors \cup {NoActor}
  BY DEF RestoreDie, tables, files, history, BackupInv, BackupShape, RowPcs
<1>2. CASE Rest(a)
  <2>1. actor'[a] = Resting
    BY <1>2 DEF Rest, BackupInv, BackupShape
  <2>2. restores' \in 0..MaxRestores
    BY <2>1 DEF RestoreDie, BackupInv, BackupShape
  <2>3. QED
    BY <1>1, <1>2, <2>2, RestStep
<1>3. CASE ~Rest(a)
  <2> DEFINE next == [pc |-> "lock", id |-> actor[a].id, row |-> actor[a].row]
  <2>1. actor' = [actor EXCEPT ![a] = next] /\ restores < MaxRestores
    BY <1>3 DEF RestoreDie
  <2>2. restores' \in 0..MaxRestores
    BY <2>1, BackupAssumption DEF RestoreDie, BackupInv, BackupShape
  <2>3. actor[a] \in ActorStates /\ ActorOK(actor[a])
    BY DEF BackupInv, BackupShape, Sources
  <2>4. actor[a].row \in Row /\ actor[a].id \in Nat /\ RowOK(actor[a].row)
    BY <1>1, <2>3, ActorKinds DEF ActorOK
  <2>5. next \in Requeued /\ ActorOK(next) /\ next.pc = "lock"
    BY <2>4 DEF Requeued, ActorOK, RowPcs
  <2>6. Moves(a, next)
    BY <2>1, OneMoves DEF BackupInv
  <2> HIDE DEF next
  <2>7. LockStep(a, next) /\ StatusStep(a, next)
    BY <1>1, <2>5 DEF LockStep, StatusStep, LockPcs
  <2>8. QED
    BY <1>1, <2>2, <2>5, <2>6, <2>7, KindsOfActor, PlainMove
<1>4. QED
  BY <1>2, <1>3

LEMMA RowFields ==
  ASSUME NEW table \in Seq(Row), NEW i \in DOMAIN table
  PROVE  /\ table[i] \in Row /\ table[i].sec \in Seconds /\ table[i].key \in Keys
         /\ table[i].sum \in Dumps /\ table[i].live \in BOOLEAN
<1>1. table[i] \in Row
  OBVIOUS
<1>2. QED
  BY <1>1 DEF Row

LEMMA UnlinkStep ==
  ASSUME BackupInv, NEW a \in Actors, Unlink(a)
  PROVE  BackupInv'
<1> USE BackupAssumption
<1> DEFINE s == actor[a].sec
           next == [actor[a] EXCEPT !.pc = "record"]
<1>1. /\ actor[a].pc = "unlink" /\ Step(a, "record") /\ plain' = [plain EXCEPT ![s] = 0]
      /\ UNCHANGED <<backups, rstatus, rlock, enc, dec, dumped, second, restores, collided, restored, rdied>>
  BY DEF Unlink, tables, history
<1>2. actor[a] \in Storing /\ ActorOK(actor[a])
  BY <1>1, ActorKinds DEF BackupInv, BackupShape, Sources
<1>3. /\ next \in Storing /\ next.pc = "record" /\ next.sec = actor[a].sec
      /\ next.key = actor[a].key /\ next.sum = actor[a].sum
  BY <1>2, ActorGoesOn
<1>4. Moves(a, next)
  BY <1>1, StepMoves DEF BackupInv
<1> HIDE DEF next
<1>5. ActorOK(next)
  BY <1>1, <1>2, <1>3 DEF ActorOK, RowPcs
<1>6. LockStep(a, next) /\ StatusStep(a, next)
  BY <1>1, <1>3 DEF LockStep, StatusStep, EndPcs, LockPcs
<1>7. 0 \in 0..MaxBackups
  OBVIOUS
<1>8. plain' \in [Seconds -> 0..MaxBackups]
  BY <1>1, <1>7 DEF BackupInv, BackupShape
<1>9. TypesKept
  BY <1>1, <1>8 DEF BackupInv, BackupShape, TypesKept
<1>10. FilesOK' /\ RowsOK'
  BY <1>1 DEF BackupInv, BackupShape, Sources, FilesOK, RowsOK, RowOK, DumpOf
<1>11. Listed'
  BY <1>1, <1>3, <1>4, ListedFrame DEF BackupInv, Encrypted
<1>12. QED
  BY <1>3, <1>4, <1>5, <1>6, <1>9, <1>10, <1>11, KindsOfActor, BackupFrame

LEMMA EncryptStep ==
  ASSUME BackupInv, NEW a \in Actors, Encrypt(a)
  PROVE  BackupInv'
<1> USE BackupAssumption
<1> DEFINE s == actor[a].sec
           e == [dump |-> plain[s], key |-> actor[a].key]
           next == [pc |-> "unlink", sec |-> s, key |-> actor[a].key, sum |-> plain[s]]
<1>1. /\ actor[a].pc = "encrypt"
      /\ UNCHANGED <<backups, rstatus, rlock, plain, dec, dumped, second, restores, collided, restored, rdied>>
  BY DEF Encrypt, tables, history
<1>2. CASE plain[s] = 0
  <2>1. Rest(a) /\ enc' = enc
    BY <1>2 DEF Encrypt
  <2>2. QED
    BY <1>1, <2>1, RestStep DEF BackupInv, BackupShape, EndPcs
<1>3. CASE plain[s] # 0
  <2>1. enc' = [enc EXCEPT ![s] = e] /\ actor' = [actor EXCEPT ![a] = next]
    BY <1>3 DEF Encrypt
  <2>2. actor[a] \in Starting
    BY <1>1, ActorKinds DEF BackupInv, BackupShape
  <2>3. s \in Seconds /\ actor[a].key \in Keys
    BY <2>2 DEF Starting
  <2>4. DumpOf(plain[s], s) /\ plain[s] \in 0..MaxBackups
    BY <1>3, <2>3 DEF BackupInv, BackupShape, Sources, FilesOK
  <2>5. next \in Storing
    BY <2>3, <2>4 DEF Storing, DumpOf
  <2>6. /\ next.pc = "unlink" /\ next.sec = s /\ next.key = e.key /\ next.sum = e.dump
        /\ e.dump = plain[s] /\ e = [dump |-> next.sum, key |-> next.key]
    OBVIOUS
  <2>7. e \in [dump : 0..MaxBackups, key : Keys]
    BY <2>3, <2>4
  <2>8. Moves(a, next)
    BY <2>1, OneMoves DEF BackupInv
  <2> HIDE DEF next, e
  <2>9. ActorOK(next)
    BY <2>4, <2>6 DEF ActorOK, RowPcs
  <2>10. LockStep(a, next) /\ StatusStep(a, next)
    BY <1>1, <2>6 DEF LockStep, StatusStep, EndPcs, LockPcs
  <2>11. enc' \in [Seconds -> [dump : 0..MaxBackups, key : Keys]]
    BY <2>1, <2>7 DEF BackupInv, BackupShape
  <2>12. TypesKept
    BY <1>1, <2>11 DEF BackupInv, BackupShape, TypesKept
  <2>13. /\ enc'[s] = e /\ \A t \in Seconds : t # s => enc'[t] = enc[t]
    BY <2>1, <2>3 DEF BackupInv, BackupShape
  <2>14. FilesOK' /\ RowsOK'
    <3>1. \A t \in Seconds : enc'[t].dump # 0 => DumpOf(enc'[t].dump, t)
      BY <2>4, <2>6, <2>13 DEF BackupInv, Sources, FilesOK
    <3>2. QED
      BY <1>1, <3>1 DEF BackupInv, Sources, FilesOK, RowsOK, RowOK, DumpOf
  <2>15. Listed'
    <3>1. SUFFICES ASSUME ~collided, ~restored
                   PROVE  SecondsApart' /\ StoredFiles' /\ HiddenFirst'
      BY <1>1 DEF Listed
    <3>2. SecondsApart /\ StoredFiles /\ HiddenFirst
      BY <3>1 DEF BackupInv, Listed
    <3>3. /\ actor'[a] = next /\ \A b \in Actors : b # a => actor'[b] = actor[b]
      BY <2>1 DEF BackupInv, BackupShape
    <3>4. Staged(a) /\ ~Encrypted(a)
      BY <1>1 DEF Staged, Encrypted
    <3>5. \A b \in Actors : Staged(b)' <=> Staged(b)
      BY <2>6, <3>3, <3>4 DEF Staged
    <3>6. \A b \in Actors : Staged(b) => actor'[b].sec = actor[b].sec
      BY <2>6, <3>3
    <3>7. SecondsApart'
      BY <1>1, <3>2, <3>5, <3>6 DEF SecondsApart
    <3>8. \A b \in Actors : b # a /\ Staged(b) => actor[b].sec # s
      BY <3>2, <3>4 DEF SecondsApart
    <3>9. ASSUME NEW b \in Actors, Encrypted(b)'
          PROVE  enc'[actor'[b].sec] = [dump |-> actor'[b].sum, key |-> actor'[b].key]
      <4>1. CASE b = a
        BY <2>6, <2>13, <3>3, <4>1
      <4>2. CASE b # a
        <5>1. actor'[b] = actor[b] /\ Encrypted(b) /\ Staged(b) /\ actor[b].sec # s
          BY <3>3, <3>8, <3>9, <4>2 DEF Encrypted, Staged
        <5>2. actor[b] \in Storing
          BY <5>1, ActorKinds DEF BackupInv, BackupShape, Encrypted
        <5>3. actor[b].sec \in Seconds
          BY <5>2 DEF Storing
        <5>4. QED
          BY <2>13, <3>2, <5>1, <5>3 DEF StoredFiles
      <4>3. QED
        BY <4>1, <4>2
    <3>10. ASSUME NEW i \in DOMAIN backups, backups[i].live
           PROVE  enc'[backups[i].sec] = [dump |-> backups[i].sum, key |-> backups[i].key]
      <4>1. backups[i].sec # s /\ backups[i].sec \in Seconds
        BY <3>2, <3>4, RowFields DEF SecondsApart, BackupInv, BackupShape
      <4>2. QED
        BY <2>13, <3>2, <3>10, <4>1 DEF StoredFiles
    <3>11. StoredFiles'
      BY <1>1, <3>9, <3>10 DEF StoredFiles
    <3>12. HiddenFirst'
      BY <1>1, <2>6, <3>2, <3>3 DEF HiddenFirst
    <3>13. QED
      BY <3>7, <3>11, <3>12
  <2>16. QED
    BY <2>5, <2>8, <2>9, <2>10, <2>12, <2>14, <2>15, KindsOfActor, BackupFrame
<1>4. QED
  BY <1>2, <1>3

LEMMA DeleteFileStep ==
  ASSUME BackupInv, NEW a \in Actors, DeleteFile(a)
  PROVE  BackupInv'
<1> USE BackupAssumption
<1> DEFINE s == actor[a].sec
<1>1. /\ actor[a].pc = "file" /\ Rest(a)
      /\ UNCHANGED <<backups, rstatus, rlock, plain, dec, dumped, second, restores, collided, restored, rdied>>
  BY DEF DeleteFile, tables, history
<1>2. CASE enc' = enc
  BY <1>1, <1>2, RestStep DEF BackupInv, BackupShape, EndPcs
<1>3. CASE enc' = [enc EXCEPT ![s] = NoEnc]
  <2>1. s \in Seconds
    BY <1>1, ActorKinds DEF BackupInv, BackupShape, Deleting
  <2>2. NoEnc \in [dump : 0..MaxBackups, key : Keys] /\ NoEnc.dump = 0
    BY DEF NoEnc, Keys
  <2>3. enc' \in [Seconds -> [dump : 0..MaxBackups, key : Keys]]
    BY <1>3, <2>2 DEF BackupInv, BackupShape
  <2>4. TypesKept
    BY <1>1, <2>3 DEF BackupInv, BackupShape, TypesKept
  <2>5. enc'[s] = NoEnc /\ \A t \in Seconds : t # s => enc'[t] = enc[t]
    BY <1>3, <2>1 DEF BackupInv, BackupShape
  <2>6. FilesOK' /\ RowsOK'
    <3>1. \A t \in Seconds : enc'[t].dump # 0 => DumpOf(enc'[t].dump, t)
      BY <2>2, <2>5 DEF BackupInv, Sources, FilesOK
    <3>2. QED
      BY <1>1, <3>1 DEF BackupInv, Sources, FilesOK, RowsOK, RowOK, DumpOf
  <2>7. Moves(a, Resting)
    BY <1>1, OneMoves DEF Rest, BackupInv
  <2>8. LockStep(a, Resting) /\ StatusStep(a, Resting)
    BY <1>1, ActorRest DEF LockStep, StatusStep, LockPcs, EndPcs
  <2>9. Listed'
    <3>1. SUFFICES ASSUME ~collided, ~restored
                   PROVE  SecondsApart' /\ StoredFiles' /\ HiddenFirst'
      BY <1>1 DEF Listed
    <3>2. SecondsApart /\ StoredFiles /\ HiddenFirst
      BY <3>1 DEF BackupInv, Listed
    <3>3. /\ actor'[a] = Resting /\ \A b \in Actors : b # a => actor'[b] = actor[b]
      BY <1>1 DEF Rest, BackupInv, BackupShape
    <3>4. \A b \in Actors : actor'[b].pc # "idle" => actor'[b] = actor[b]
      BY <3>3, ActorRest
    <3>5. SecondsApart'
      BY <1>1, <3>2, <3>4 DEF SecondsApart, Staged
    <3>6. HiddenFirst'
      BY <1>1, <3>2, <3>4 DEF HiddenFirst
    <3>7. PICK h \in DOMAIN backups : backups[h].sec = s /\ ~backups[h].live
      BY <1>1, <3>2 DEF HiddenFirst
    <3>8. ASSUME NEW b \in Actors, Encrypted(b)'
          PROVE  enc'[actor'[b].sec] = [dump |-> actor'[b].sum, key |-> actor'[b].key]
      <4>1. actor'[b] = actor[b] /\ Encrypted(b) /\ Staged(b)
        BY <3>4, <3>8 DEF Encrypted, Staged
      <4>2. actor[b].sec # s
        BY <3>2, <3>7, <4>1 DEF SecondsApart
      <4>3. actor[b] \in Storing
        BY <4>1, ActorKinds DEF BackupInv, BackupShape, Encrypted
      <4>4. actor[b].sec \in Seconds
        BY <4>3 DEF Storing
      <4>5. QED
        BY <2>5, <3>2, <4>1, <4>2, <4>4 DEF StoredFiles
    <3>9. ASSUME NEW i \in DOMAIN backups, backups[i].live
          PROVE  enc'[backups[i].sec] = [dump |-> backups[i].sum, key |-> backups[i].key]
      <4>1. backups[i].sec # s /\ backups[i].sec \in Seconds
        BY <3>2, <3>7, <3>9, RowFields DEF SecondsApart, BackupInv, BackupShape
      <4>2. QED
        BY <2>5, <3>2, <3>9, <4>1 DEF StoredFiles
    <3>10. StoredFiles'
      BY <1>1, <3>8, <3>9 DEF StoredFiles
    <3>11. QED
      BY <3>5, <3>6, <3>10
  <2>10. QED
    BY <2>4, <2>6, <2>7, <2>8, <2>9, ActorRest, BackupFrame
<1>4. QED
  BY <1>1, <1>2, <1>3 DEF DeleteFile

\* Hiding a row changes nothing else of it, nor of the others.
Hides(i) == backups' = [backups EXCEPT ![i].live = FALSE]

LEMMA HiddenRow ==
  ASSUME BackupInv, NEW i \in DOMAIN backups, Hides(i)
  PROVE  /\ backups' \in Seq(Row) /\ DOMAIN backups' = DOMAIN backups /\ ~backups'[i].live
         /\ \A j \in DOMAIN backups : /\ backups'[j].sec = backups[j].sec
                                      /\ backups'[j].key = backups[j].key
                                      /\ backups'[j].sum = backups[j].sum
                                      /\ backups'[j].live => backups[j].live
<1>1. backups \in Seq(Row)
  BY DEF BackupInv, BackupShape
<1> DEFINE r == [backups[i] EXCEPT !.live = FALSE]
<1>2. backups[i] \in Row
  BY <1>1, RowFields
<1>3. /\ r \in Row /\ r.sec = backups[i].sec /\ r.key = backups[i].key
      /\ r.sum = backups[i].sum /\ r.live = FALSE
  BY <1>2 DEF Row
<1>4. backups' = [backups EXCEPT ![i] = r]
  BY <1>1 DEF Hides
<1> HIDE DEF r
<1>5. backups' \in Seq(Row) /\ DOMAIN backups' = DOMAIN backups
  BY <1>1, <1>3, <1>4
<1>6. backups'[i] = r /\ \A j \in DOMAIN backups : j # i => backups'[j] = backups[j]
  BY <1>1, <1>4
<1>7. QED
  BY <1>3, <1>5, <1>6

LEMMA HiddenRowsOK ==
  ASSUME BackupInv, NEW i \in DOMAIN backups, Hides(i), dumped' = dumped
  PROVE  RowsOK'
BY HiddenRow DEF BackupInv, Sources, RowsOK, RowOK, DumpOf

\* Nobody moves: the clock and the retention.
LEMMA StillFrame ==
  ASSUME BackupInv, backups' \in Seq(Row), second' \in Seconds, RowsOK', Listed',
         UNCHANGED <<rstatus, plain, enc, dec, dumped, rlock, actor, restores, collided, restored, rdied>>
  PROVE  BackupInv'
<1>1. Taken' = Taken
  BY DEF Taken
<1>2. BackupShape'
  BY <1>1 DEF BackupInv, BackupShape
<1>3. FilesOK' /\ HeldRowsOK'
  BY DEF BackupInv, Sources, FilesOK, HeldRowsOK, RowOK, DumpOf
<1>4. \A a \in Actors : ActorOK(actor[a])'
  BY DEF BackupInv, Sources, ActorOK, RowOK, DumpOf
<1>5. DumpsApart' /\ LocksHeld' /\ RestoreStatusEnds'
  BY <1>1 DEF BackupInv, DumpsApart, LocksHeld, RestoreStatusEnds
<1>6. QED
  BY <1>2, <1>3, <1>4, <1>5 DEF BackupInv, Sources

LEMMA TickStep ==
  ASSUME BackupInv, Tick
  PROVE  BackupInv'
<1>1. /\ second' = second + 1 /\ second < MaxSecond
      /\ UNCHANGED <<backups, rstatus, plain, enc, dec, dumped, rlock, actor, restores, collided, restored, rdied>>
  BY DEF Tick, tables, files, history
<1>2. second' \in Seconds
  BY <1>1, BackupAssumption DEF BackupInv, BackupShape, Seconds
<1>3. RowsOK'
  BY <1>1 DEF BackupInv, Sources, RowsOK, RowOK, DumpOf
<1>4. Listed'
  BY <1>1 DEF BackupInv, Listed, SecondsApart, StoredFiles, HiddenFirst, Staged, Encrypted
<1>5. QED
  BY <1>1, <1>2, <1>3, <1>4, StillFrame DEF BackupInv, BackupShape

LEMMA CleanupStep ==
  ASSUME BackupInv, NEW i \in DOMAIN backups, CleanupOldBackup(i)
  PROVE  BackupInv'
<1>1. /\ Hides(i)
      /\ UNCHANGED <<rstatus, plain, enc, dec, dumped, rlock, actor, second, restores, collided, restored, rdied>>
  BY DEF CleanupOldBackup, Hides, files, history
<1>2. Listed'
  <2>1. SUFFICES ASSUME ~collided, ~restored
                 PROVE  SecondsApart' /\ StoredFiles' /\ HiddenFirst'
    BY <1>1 DEF Listed
  <2>2. SecondsApart /\ StoredFiles /\ HiddenFirst
    BY <2>1 DEF BackupInv, Listed
  <2>3. SecondsApart'
    BY <1>1, <2>2, HiddenRow DEF SecondsApart, Staged
  <2>4. StoredFiles'
    BY <1>1, <2>2, HiddenRow DEF StoredFiles, Encrypted
  <2>5. HiddenFirst'
    BY <1>1, <2>2, HiddenRow DEF HiddenFirst
  <2>6. QED
    BY <2>3, <2>4, <2>5
<1>3. QED
  BY <1>1, <1>2, HiddenRow, HiddenRowsOK, StillFrame DEF BackupInv, BackupShape

LEMMA DeleteBackupStep ==
  ASSUME BackupInv, NEW a \in Actors, NEW i \in DOMAIN backups, DeleteBackup(a, i)
  PROVE  BackupInv'
<1> DEFINE next == [pc |-> "file", sec |-> backups[i].sec]
<1>1. /\ actor[a] = Resting /\ Hides(i) /\ actor' = [actor EXCEPT ![a] = next]
      /\ UNCHANGED <<rstatus, plain, enc, dec, dumped, rlock, second, restores, collided, restored, rdied>>
  BY DEF DeleteBackup, Hides, files, history
<1>2. backups[i].sec \in Seconds
  BY RowFields DEF BackupInv, BackupShape
<1>3. next \in Deleting /\ next.pc = "file" /\ next.sec = backups[i].sec
  BY <1>2 DEF Deleting
<1> HIDE DEF next
<1>4. ActorOK(next)
  BY <1>3 DEF ActorOK, RowPcs
<1>5. Moves(a, next)
  BY <1>1, OneMoves DEF BackupInv
<1>6. LockStep(a, next) /\ StatusStep(a, next)
  BY <1>1, <1>3, ActorRest DEF LockStep, StatusStep, EndPcs, LockPcs
<1>7. TypesKept
  BY <1>1, HiddenRow DEF BackupInv, BackupShape, TypesKept
<1>8. FilesOK' /\ RowsOK'
  BY <1>1, HiddenRowsOK DEF BackupInv, Sources, FilesOK, DumpOf
<1>9. Listed'
  <2>1. SUFFICES ASSUME ~collided, ~restored
                 PROVE  SecondsApart' /\ StoredFiles' /\ HiddenFirst'
    BY <1>1 DEF Listed
  <2>2. SecondsApart /\ StoredFiles /\ HiddenFirst
    BY <2>1 DEF BackupInv, Listed
  <2>3. /\ actor'[a] = next /\ \A b \in Actors : b # a => actor'[b] = actor[b]
    BY <1>1 DEF BackupInv, BackupShape
  <2>4. \A b \in Actors : Staged(b)' => Staged(b) /\ actor'[b] = actor[b]
    BY <1>3, <2>3 DEF Staged
  <2>5. \A b \in Actors : Encrypted(b)' => Encrypted(b) /\ actor'[b] = actor[b]
    BY <1>3, <2>3 DEF Encrypted
  <2>6. SecondsApart'
    BY <1>1, <2>2, <2>4, HiddenRow DEF SecondsApart
  <2>7. StoredFiles'
    BY <1>1, <2>2, <2>5, HiddenRow DEF StoredFiles
  <2>8. HiddenFirst'
    BY <1>1, <1>3, <2>2, <2>3, HiddenRow DEF HiddenFirst
  <2>9. QED
    BY <2>6, <2>7, <2>8
<1>10. QED
  BY <1>3, <1>4, <1>5, <1>6, <1>7, <1>8, <1>9, KindsOfActor, BackupFrame

LEMMA RecordStep ==
  ASSUME BackupInv, NEW a \in Actors, Record(a)
  PROVE  BackupInv'
<1> DEFINE r == [sec |-> actor[a].sec, key |-> actor[a].key, sum |-> actor[a].sum, live |-> TRUE]
<1>1. /\ actor[a].pc = "record" /\ Rest(a) /\ backups' = Append(backups, r)
      /\ UNCHANGED <<rstatus, plain, enc, dec, dumped, rlock, second, restores, collided, restored, rdied>>
  BY DEF Record, files, history
<1>2. actor[a] \in Storing /\ DumpOf(actor[a].sum, actor[a].sec)
  BY <1>1, ActorKinds DEF BackupInv, BackupShape, Sources, ActorOK
<1>3. /\ r \in Row /\ r.sec = actor[a].sec /\ r.key = actor[a].key /\ r.sum = actor[a].sum
  BY <1>2 DEF Storing, Row
<1> HIDE DEF r
<1>4. backups \in Seq(Row) /\ backups' \in Seq(Row) /\ Len(backups') = Len(backups) + 1
  BY <1>1, <1>3 DEF BackupInv, BackupShape
<1>5. /\ \A j \in DOMAIN backups : backups'[j] = backups[j]
      /\ \A j \in DOMAIN backups' : j \in DOMAIN backups \/ backups'[j] = r
      /\ DOMAIN backups \subseteq DOMAIN backups'
  BY <1>1, <1>3, <1>4
<1>6. RowsOK'
  BY <1>1, <1>2, <1>3, <1>5 DEF BackupInv, Sources, RowsOK, RowOK, DumpOf
<1>7. Moves(a, Resting)
  BY <1>1, OneMoves DEF Rest, BackupInv
<1>8. LockStep(a, Resting) /\ StatusStep(a, Resting)
  BY <1>1, ActorRest DEF LockStep, StatusStep, LockPcs, EndPcs
<1>9. TypesKept
  BY <1>1, <1>4 DEF BackupInv, BackupShape, TypesKept
<1>10. FilesOK'
  BY <1>1 DEF BackupInv, Sources, FilesOK, DumpOf
<1>11. Listed'
  <2>1. SUFFICES ASSUME ~collided, ~restored
                 PROVE  SecondsApart' /\ StoredFiles' /\ HiddenFirst'
    BY <1>1 DEF Listed
  <2>2. SecondsApart /\ StoredFiles /\ HiddenFirst /\ Staged(a) /\ Encrypted(a)
    BY <1>1, <2>1 DEF BackupInv, Listed, Staged, Encrypted
  <2>3. actor'[a] = Resting /\ \A b \in Actors : b # a => actor'[b] = actor[b]
    BY <1>1 DEF Rest, BackupInv, BackupShape
  <2>4. \A b \in Actors : actor'[b].pc # "idle" => b # a /\ actor'[b] = actor[b]
    BY <2>3, ActorRest
  <2>5. /\ \A j \in DOMAIN backups : backups[j].sec # r.sec
        /\ \A b \in Actors : b # a /\ Staged(b) => actor[b].sec # r.sec
    BY <1>3, <2>2 DEF SecondsApart
  <2>6. \A i, j \in DOMAIN backups' : backups'[i].sec = backups'[j].sec => i = j
    <3>1. \A j \in DOMAIN backups' : j \notin DOMAIN backups => j = Len(backups) + 1
      BY <1>4
    <3>2. QED
      BY <1>5, <2>2, <2>5, <3>1 DEF SecondsApart
  <2>7. \A b \in Actors, i \in DOMAIN backups' : Staged(b)' => backups'[i].sec # actor'[b].sec
    BY <1>5, <2>2, <2>4, <2>5 DEF SecondsApart, Staged
  <2>8. SecondsApart'
    BY <2>2, <2>4, <2>6, <2>7 DEF SecondsApart, Staged
  <2>9. enc[r.sec] = [dump |-> r.sum, key |-> r.key]
    BY <1>3, <2>2 DEF StoredFiles
  <2>10. StoredFiles'
    BY <1>1, <1>5, <2>2, <2>4, <2>9 DEF StoredFiles, Encrypted
  <2>11. HiddenFirst'
    BY <1>5, <2>2, <2>4 DEF HiddenFirst
  <2>12. QED
    BY <2>8, <2>10, <2>11
<1>12. QED
  BY <1>6, <1>7, <1>8, <1>9, <1>10, <1>11, ActorRest, BackupFrame

\* The decrypted file of a second is removed, or holds a dump of that second.
LEMMA DecWritten ==
  ASSUME BackupInv, NEW f \in Seconds, NEW v \in 0..MaxBackups, v = 0 \/ DumpOf(v, f),
         dec' = [dec EXCEPT ![f] = v], UNCHANGED <<plain, enc, dumped>>
  PROVE  FilesOK' /\ dec' \in [Seconds -> 0..MaxBackups]
<1>1. dec \in [Seconds -> 0..MaxBackups]
  BY DEF BackupInv, BackupShape
<1>2. dec' \in [Seconds -> 0..MaxBackups] /\ dec'[f] = v /\ \A t \in Seconds : t # f => dec'[t] = dec[t]
  BY <1>1
<1>3. QED
  BY <1>2 DEF BackupInv, Sources, FilesOK, DumpOf

\* A step that writes or removes a decrypted file, and no row.
LEMMA DecMove ==
  ASSUME BackupInv, NEW a \in Actors, NEW next \in ActorStates, Moves(a, next), ActorOK(next),
         LockStep(a, next), StatusStep(a, next), FilesOK', dec' \in [Seconds -> 0..MaxBackups],
         UNCHANGED <<backups, plain, enc, dumped, second, collided, restored, rdied>>,
         rstatus' \in Statuses, rlock' \in Actors \cup {NoActor}, restores' \in 0..MaxRestores,
         next.pc \notin {"encrypt", "unlink", "record", "file"}
  PROVE  BackupInv'
<1>1. TypesKept
  BY DEF BackupInv, BackupShape, TypesKept
<1>2. RowsOK'
  BY DEF BackupInv, Sources, RowsOK, RowOK, DumpOf
<1>3. Listed'
  BY ListedFrame DEF BackupInv
<1>4. QED
  BY <1>1, <1>2, <1>3, BackupFrame

\* What happens to the file of a pg_restore leaves the rest of it alone.
LEMMA ReaderAlike ==
  ASSUME NEW x \in ActorStates, x.pc = "pg", NEW y,
         y = [x EXCEPT !.whole = FALSE] \/ y = [x EXCEPT !.linked = FALSE]
  PROVE  /\ x \in Loading /\ y \in Loading /\ y.pc = "pg" /\ y.row = x.row /\ y.loaded = x.loaded
<1>1. x \in Loading
  BY ActorKinds
<1>2. CASE y = [x EXCEPT !.whole = FALSE]
  BY <1>1, <1>2 DEF Loading
<1>3. CASE y = [x EXCEPT !.linked = FALSE]
  BY <1>1, <1>3 DEF Loading
<1>4. QED
  BY <1>1, <1>2, <1>3

LEMMA TruncatedMoves ==
  ASSUME BackupShape, NEW a \in Actors, NEW next, NEW f,
         \/ actor' = [Truncated(f) EXCEPT ![a] = next]
         \/ actor' = [Unlinked(f) EXCEPT ![a] = next]
  PROVE  Moves(a, next)
<1>1. \A b \in Actors : actor[b] \in ActorStates
  BY DEF BackupShape
<1>2. CASE actor' = [Truncated(f) EXCEPT ![a] = next]
  <2>1. /\ actor' = [b \in Actors |-> actor'[b]] /\ actor'[a] = next
        /\ \A b \in Actors : b # a =>
             actor'[b] = actor[b] \/ (actor[b].pc = "pg" /\ actor'[b] = [actor[b] EXCEPT !.whole = FALSE])
    BY <1>2 DEF Truncated
  <2>2. QED
    BY <1>1, <2>1, ReaderAlike DEF Moves, Alike
<1>3. CASE actor' = [Unlinked(f) EXCEPT ![a] = next]
  <2>1. /\ actor' = [b \in Actors |-> actor'[b]] /\ actor'[a] = next
        /\ \A b \in Actors : b # a =>
             actor'[b] = actor[b] \/ (actor[b].pc = "pg" /\ actor'[b] = [actor[b] EXCEPT !.linked = FALSE])
    BY <1>3 DEF Unlinked
  <2>2. QED
    BY <1>1, <2>1, ReaderAlike DEF Moves, Alike
<1>4. QED
  BY <1>2, <1>3

\* A row of the table names a dump of its second, and so does its file.
LEMMA RowOfTable ==
  ASSUME BackupInv, NEW i \in DOMAIN backups
  PROVE  /\ backups[i] \in Row /\ backups[i].sec \in Seconds /\ i \in Nat /\ RowOK(backups[i])
         /\ enc[backups[i].sec].dump \in 0..MaxBackups
         /\ \/ enc[backups[i].sec].dump = 0
            \/ DumpOf(enc[backups[i].sec].dump, backups[i].sec)
<1>1. backups \in Seq(Row) /\ enc \in [Seconds -> [dump : 0..MaxBackups, key : Keys]]
  BY DEF BackupInv, BackupShape
<1>2. backups[i] \in Row /\ backups[i].sec \in Seconds /\ i \in Nat
  BY <1>1, RowFields
<1>3. enc[backups[i].sec] \in [dump : 0..MaxBackups, key : Keys]
  BY <1>1, <1>2
<1>4. QED
  BY <1>2, <1>3 DEF BackupInv, Sources, RowsOK, FilesOK

LEMMA CheckBackupStep ==
  ASSUME BackupInv, NEW a \in Actors, NEW i \in DOMAIN backups, NEW op \in {"restore", "verify"},
         CheckBackup(a, i, op)
  PROVE  BackupInv'
<1> DEFINE row == backups[i]
           next == [pc |-> "sum", op |-> op, id |-> i, row |-> row]
<1>1. /\ actor[a] = Resting
      /\ dec' = [dec EXCEPT ![row.sec] = enc[row.sec].dump]
      /\ actor' = [Truncated(row.sec) EXCEPT ![a] = next]
      /\ UNCHANGED <<backups, rstatus, plain, enc, dumped, rlock, second, collided, restored, rdied>>
      /\ rstatus' \in Statuses /\ rlock' \in Actors \cup {NoActor}
  BY DEF CheckBackup, DecName, tables, history, BackupInv, BackupShape
<1>2. restores' \in 0..MaxRestores
  BY BackupAssumption DEF CheckBackup, BackupInv, BackupShape
<1>3. FilesOK' /\ dec' \in [Seconds -> 0..MaxBackups]
  BY <1>1, RowOfTable, DecWritten
<1>4. next \in Checking /\ next.pc = "sum" /\ next.row = row
  BY RowOfTable DEF Checking
<1>5. Moves(a, next)
  BY <1>1, TruncatedMoves DEF BackupInv
<1> HIDE DEF next
<1>6. ActorOK(next)
  BY <1>4, RowOfTable DEF ActorOK
<1>7. LockStep(a, next) /\ StatusStep(a, next)
  BY <1>1, <1>4, ActorRest DEF LockStep, StatusStep, EndPcs, LockPcs
<1>8. QED
  BY <1>1, <1>2, <1>3, <1>4, <1>5, <1>6, <1>7, KindsOfActor, DecMove

LEMMA RowOfActor ==
  ASSUME BackupInv, NEW a \in Actors, actor[a].pc \in RowPcs
  PROVE  /\ actor[a].row \in Row /\ actor[a].id \in Nat /\ actor[a].row.sec \in Seconds
         /\ RowOK(actor[a].row)
<1>1. actor[a] \in ActorStates /\ ActorOK(actor[a])
  BY DEF BackupInv, BackupShape, Sources
<1>2. actor[a].row \in Row /\ actor[a].id \in Nat
  BY <1>1, ActorKinds
<1>3. QED
  BY <1>1, <1>2 DEF Row, ActorOK

LEMMA CheckSumStep ==
  ASSUME BackupInv, NEW a \in Actors, CheckSum(a)
  PROVE  BackupInv'
<1> USE BackupAssumption
<1> DEFINE f == actor[a].row.sec
<1>1. /\ actor[a].pc = "sum" /\ dec' = [dec EXCEPT ![f] = 0]
      /\ UNCHANGED <<backups, rstatus, plain, enc, dumped, rlock, second, restores, collided, restored, rdied>>
      /\ rstatus' \in Statuses /\ rlock' \in Actors \cup {NoActor} /\ restores' \in 0..MaxRestores
  BY DEF CheckSum, DecName, tables, history, BackupInv, BackupShape
<1>2. PICK next \in {Resting, [actor[a] EXCEPT !.pc = "prelock"]} :
        actor' = [Unlinked(f) EXCEPT ![a] = next]
  BY DEF CheckSum, DecName
<1>3. next \in ActorStates /\ ActorOK(next) /\ next.pc \in {"idle", "prelock"}
  <2> DEFINE passed == [actor[a] EXCEPT !.pc = "prelock"]
  <2>1. passed \in ActorStates /\ ActorOK(passed) /\ passed.pc = "prelock"
    BY <1>1, RowGoesOn
  <2> HIDE DEF passed
  <2>2. next = Resting \/ next = passed
    BY <1>2 DEF passed
  <2>3. QED
    BY <2>1, <2>2, ActorRest
<1>4. Moves(a, next)
  BY <1>2, TruncatedMoves DEF BackupInv
<1>5. f \in Seconds
  BY <1>1, RowOfActor DEF RowPcs
<1>6. 0 \in 0..MaxBackups
  OBVIOUS
<1> HIDE DEF f
<1>7. FilesOK' /\ dec' \in [Seconds -> 0..MaxBackups]
  BY <1>1, <1>5, <1>6, DecWritten
<1>8. LockStep(a, next) /\ StatusStep(a, next)
  BY <1>1, <1>3 DEF LockStep, StatusStep, EndPcs, LockPcs
<1>9. QED
  BY <1>1, <1>3, <1>4, <1>7, <1>8, DecMove

LEMMA RestoreLookStep ==
  ASSUME BackupInv, NEW a \in Actors, RestoreLook(a)
  PROVE  BackupInv'
<1> DEFINE i == actor[a].id
           row == backups[i]
<1>1. /\ actor[a].pc = "look" /\ rlock = a
      /\ UNCHANGED <<backups, rstatus, plain, enc, dumped, rlock, second, restores, collided, restored, rdied>>
      /\ rstatus' \in Statuses /\ rlock' \in Actors \cup {NoActor} /\ restores' \in 0..MaxRestores
  BY DEF RestoreLook, tables, history, BackupInv, BackupShape, LocksHeld, LockPcs
<1>2. CASE i \in DOMAIN backups /\ Decryptable(row)
  <2> DEFINE next == [actor[a] EXCEPT !.pc = "open", !.row = row]
  <2>1. /\ dec' = [dec EXCEPT ![row.sec] = enc[row.sec].dump]
        /\ actor' = [actor EXCEPT ![a] = next]
    BY <1>2 DEF RestoreLook, DecName, BackupInv, BackupShape
  <2>2. row \in Row /\ RowOK(row)
    BY <1>2, RowOfTable
  <2>3. FilesOK' /\ dec' \in [Seconds -> 0..MaxBackups]
    BY <1>1, <1>2, <2>1, RowOfTable, DecWritten
  <2>4. actor[a] \in Checking \cup Requeued
    BY <1>1, ActorKinds DEF BackupInv, BackupShape
  <2>5. next \in Checking \cup Requeued
    <3>1. CASE actor[a] \in Checking
      BY <2>2, <3>1 DEF Checking
    <3>2. CASE actor[a] \in Requeued
      BY <2>2, <3>2 DEF Requeued
    <3>3. QED
      BY <2>4, <3>1, <3>2
  <2>6. next.pc = "open"
    BY <2>4 DEF Checking, Requeued
  <2>7. next.row = row
    BY <2>4 DEF Checking, Requeued
  <2>8. Moves(a, next)
    BY <2>1, OneMoves DEF BackupInv
  <2> HIDE DEF next, row
  <2>9. ActorOK(next)
    BY <2>2, <2>6, <2>7 DEF ActorOK
  <2>10. LockStep(a, next) /\ StatusStep(a, next)
    BY <1>1, <2>6 DEF LockStep, StatusStep, EndPcs
  <2>11. QED
    BY <1>1, <2>3, <2>5, <2>6, <2>8, <2>9, <2>10, KindsOfActor, DecMove
<1>3. CASE ~(i \in DOMAIN backups /\ Decryptable(row))
  <2> DEFINE next == [actor[a] EXCEPT !.pc = "bad"]
  <2>1. Step(a, "bad") /\ dec' = dec
    BY <1>3 DEF RestoreLook
  <2>2. next \in ActorStates /\ next.pc = "bad" /\ ActorOK(next)
    BY <1>1, RowGoesOn
  <2>3. Moves(a, next)
    BY <2>1, StepMoves DEF BackupInv
  <2> HIDE DEF next
  <2>4. LockStep(a, next) /\ StatusStep(a, next)
    BY <1>1, <2>2 DEF LockStep, StatusStep, EndPcs
  <2>5. rdied' \in BOOLEAN
    BY <1>1 DEF BackupInv, BackupShape
  <2>6. QED
    BY <1>1, <2>1, <2>2, <2>3, <2>4, <2>5, PlainMove
<1>4. QED
  BY <1>2, <1>3

LEMMA RestoreEndStep ==
  ASSUME BackupInv, NEW a \in Actors, RestoreEnd(a)
  PROVE  BackupInv'
<1> USE BackupAssumption
<1> DEFINE f == actor[a].row.sec
<1>1. /\ actor[a].pc \in {"ok", "bad"} /\ dec' = [dec EXCEPT ![f] = 0] /\ Rest(a)
      /\ rstatus' \in {"success", "failed"} /\ rlock' = (IF rlock = a THEN NoActor ELSE rlock)
      /\ UNCHANGED <<backups, plain, enc, dumped, second, restores, collided, restored, rdied>>
      /\ rlock' \in Actors \cup {NoActor} /\ restores' \in 0..MaxRestores
  BY DEF RestoreEnd, DecName, history, BackupInv, BackupShape
<1>2. f \in Seconds
  BY <1>1, RowOfActor DEF RowPcs
<1>3. 0 \in 0..MaxBackups
  OBVIOUS
<1> HIDE DEF f
<1>4. FilesOK' /\ dec' \in [Seconds -> 0..MaxBackups]
  BY <1>1, <1>2, <1>3, DecWritten
<1>5. Moves(a, Resting)
  BY <1>1, OneMoves DEF Rest, BackupInv
<1>6. LockStep(a, Resting) /\ StatusStep(a, Resting) /\ rstatus' \in Statuses
  BY <1>1, ActorRest DEF LockStep, StatusStep, LockPcs, Statuses
<1>7. QED
  BY <1>1, <1>4, <1>5, <1>6, ActorRest, DecMove

LEMMA PgRestoreStep ==
  ASSUME BackupInv, NEW a \in Actors, PgRestore(a)
  PROVE  BackupInv'
<1> DEFINE d == dumped[actor[a].loaded]
<1>1. /\ actor[a].pc = "pg" /\ rlock = a
      /\ UNCHANGED <<plain, enc, dec, dumped, rlock, second, restores, collided, rdied>>
      /\ rlock' \in Actors \cup {NoActor} /\ restores' \in 0..MaxRestores /\ rdied' \in BOOLEAN
  BY DEF PgRestore, files, BackupInv, BackupShape, LocksHeld, LockPcs
<1>2. CASE Step(a, "bad") /\ UNCHANGED <<backups, rstatus, restored>>
  <2> DEFINE next == [actor[a] EXCEPT !.pc = "bad"]
  <2>1. next \in ActorStates /\ next.pc = "bad" /\ ActorOK(next)
    BY <1>1, RowGoesOn
  <2>2. Moves(a, next)
    BY <1>2, StepMoves DEF BackupInv
  <2> HIDE DEF next
  <2>3. LockStep(a, next) /\ StatusStep(a, next) /\ rstatus' \in Statuses
    BY <1>1, <1>2, <2>1 DEF LockStep, StatusStep, EndPcs, BackupInv, BackupShape
  <2>4. QED
    BY <1>1, <1>2, <2>1, <2>2, <2>3, PlainMove
<1>3. CASE Step(a, "ok") /\ backups' = d.backups /\ rstatus' = d.rstatus /\ restored' = TRUE
  <2> DEFINE next == [actor[a] EXCEPT !.pc = "ok"]
  <2>1. next \in ActorStates /\ next.pc = "ok" /\ ActorOK(next)
    BY <1>1, RowGoesOn
  <2>2. Moves(a, next)
    BY <1>3, StepMoves DEF BackupInv
  <2> HIDE DEF next
  <2>3. actor[a].loaded \in Dumps
    BY <1>1, ActorKinds DEF BackupInv, BackupShape, Loading
  <2>4. d \in DumpStates
    BY <2>3 DEF BackupInv, BackupShape
  <2>5. backups' \in Seq(Row) /\ rstatus' \in Statuses
    BY <1>3, <2>4 DEF DumpStates
  <2>6. RowsOK'
    BY <1>1, <1>3, <2>3 DEF BackupInv, Sources, HeldRowsOK, RowsOK, RowOK, DumpOf
  <2>7. FilesOK'
    BY <1>1 DEF BackupInv, Sources, FilesOK, DumpOf
  <2>8. Listed'
    BY <1>3 DEF Listed
  <2>9. TypesKept
    BY <1>1, <1>3, <2>5 DEF BackupInv, BackupShape, TypesKept
  <2>10. LockStep(a, next) /\ StatusStep(a, next)
    BY <1>1, <2>1 DEF LockStep, StatusStep, EndPcs
  <2>11. QED
    BY <2>1, <2>2, <2>6, <2>7, <2>8, <2>9, <2>10, BackupFrame
<1>4. QED
  BY <1>2, <1>3 DEF PgRestore, tables

\* The number of a new dump is free, and no dump is overwritten.
LEMMA NewDump ==
  ASSUME BackupInv, NEW d, d = Cardinality(Taken) + 1, d \in Dumps
  PROVE  /\ d \notin Taken
         /\ \E n \in Nat : Taken \cup {d} = 1..n
<1>1. PICK n \in Nat : Taken = 1..n
  BY DEF BackupInv, BackupShape
<1>2. Cardinality(1..n) = n
  BY FS_Interval
<1>3. d = n + 1
  BY <1>1, <1>2
<1>4. Taken \cup {d} = 1..(n + 1) /\ n + 1 \in Nat
  BY <1>1, <1>3
<1>5. QED
  BY <1>1, <1>3, <1>4

\* What a dump adds to the dumps.
Adds(d, s) ==
  /\ dumped' = [dumped EXCEPT ![d] = [sec |-> s, backups |-> backups, rstatus |-> rstatus]]
  /\ d \in Dumps /\ d \notin Taken /\ s \in Seconds

LEMMA DumpAdded ==
  ASSUME BackupInv, NEW d, NEW s, Adds(d, s)
  PROVE  /\ dumped' \in [Dumps -> DumpStates] /\ Taken' = Taken \cup {d}
         /\ \A e \in Dumps : dumped'[e].sec = 0 <=> dumped'[e] = NoDump
         /\ dumped'[d].sec = s /\ dumped'[d].backups = backups
         /\ \A e \in Dumps : e # d => dumped'[e] = dumped[e]
         /\ \A e \in Dumps : e \in Taken <=> dumped[e].sec # 0
         /\ \A e, t : t \in Seconds /\ DumpOf(e, t) => e \in Taken /\ DumpOf(e, t)'
<1> USE BackupAssumption DEF Adds
<1> DEFINE D == [sec |-> s, backups |-> backups, rstatus |-> rstatus]
<1>1. /\ dumped \in [Dumps -> DumpStates] /\ backups \in Seq(Row) /\ rstatus \in Statuses
      /\ \A e \in Dumps : dumped[e].sec = 0 <=> dumped[e] = NoDump
  BY DEF BackupInv, BackupShape
<1>2. s \in 0..MaxSecond /\ s # 0
  BY DEF Seconds
<1>3. D \in DumpStates /\ D.sec = s /\ D.backups = backups /\ NoDump.sec = 0
  BY <1>1, <1>2 DEF DumpStates, NoDump
<1>4. dumped' = [dumped EXCEPT ![d] = D]
  OBVIOUS
<1> HIDE DEF D
<1>5. dumped' \in [Dumps -> DumpStates] /\ dumped'[d] = D /\ \A e \in Dumps : e # d => dumped'[e] = dumped[e]
  BY <1>1, <1>3, <1>4
<1>6. D # NoDump
  BY <1>2, <1>3
<1>7. \A e \in Dumps : e \in Taken <=> dumped[e].sec # 0
  BY <1>1 DEF Taken
<1>8. Taken' = Taken \cup {d}
  BY <1>5, <1>6 DEF Taken
<1>9. \A e \in Dumps : dumped'[e].sec = 0 <=> dumped'[e] = NoDump
  BY <1>1, <1>2, <1>3, <1>5, <1>6
<1>10. ASSUME NEW e, NEW t \in Seconds, DumpOf(e, t)
       PROVE  e \in Taken /\ DumpOf(e, t)'
  <2>1. e \in Dumps /\ dumped[e].sec = t /\ t # 0
    BY <1>10 DEF DumpOf, Seconds
  <2>2. e \in Taken /\ e # d
    BY <1>7, <2>1
  <2>3. QED
    BY <1>5, <2>1, <2>2 DEF DumpOf
<1>11. QED
  BY <1>3, <1>5, <1>7, <1>8, <1>9, <1>10

LEMMA DumpStep ==
  ASSUME BackupInv, NEW a \in Actors, Dump(a)
  PROVE  BackupInv'
<1> USE BackupAssumption
<1> DEFINE next == [actor[a] EXCEPT !.pc = "encrypt"]
<1> PICK s : s = actor[a].sec
  OBVIOUS
<1>1. PICK d \in Dumps : d = Cardinality(Taken) + 1
  BY DEF Dump
<1>2. /\ actor[a].pc = "dump" /\ Step(a, "encrypt") /\ plain' = [plain EXCEPT ![s] = d]
      /\ dumped' = [dumped EXCEPT ![d] = [sec |-> s, backups |-> backups, rstatus |-> rstatus]]
      /\ collided' = (collided \/ \E e \in Taken : dumped[e].sec = s)
      /\ UNCHANGED <<backups, rstatus, enc, dec, rlock, second, restores, restored, rdied>>
  BY <1>1 DEF Dump, tables
<1>3. actor[a] \in Starting
  BY <1>2, ActorKinds DEF BackupInv, BackupShape
<1>4. s \in Seconds
  BY <1>3 DEF Starting
<1>5. Adds(d, s)
  BY <1>1, <1>2, <1>4, NewDump DEF Adds
<1>6. next \in Starting /\ next.pc = "encrypt" /\ next.sec = s
  BY <1>3, ActorGoesOn
<1>7. actor' = [actor EXCEPT ![a] = next]
  BY <1>2 DEF Step, BackupInv, BackupShape
<1> HIDE DEF next
<1>8. /\ actor'[a] = next /\ \A b \in Actors : b # a => actor'[b] = actor[b]
      /\ actor' \in [Actors -> ActorStates]
  BY <1>6, <1>7, KindsOfActor DEF BackupInv, BackupShape
<1>9. DumpOf(d, s)'
  BY <1>5, DumpAdded DEF DumpOf
<1>10. \A e, t : t \in Seconds /\ DumpOf(e, t) => e \in Taken /\ DumpOf(e, t)'
  BY <1>5, DumpAdded
<1>11. BackupShape'
  <2>1. d \in 0..MaxBackups
    BY DEF Dumps
  <2>2. plain' \in [Seconds -> 0..MaxBackups]
    BY <1>2, <2>1 DEF BackupInv, BackupShape
  <2>3. collided' \in BOOLEAN
    BY <1>2
  <2>4. \E n \in Nat : Taken' = 1..n
    <3>1. Taken' = Taken \cup {d}
      BY <1>5, DumpAdded
    <3>2. QED
      BY <1>1, <3>1, NewDump
  <2>5. dumped' \in [Dumps -> DumpStates] /\ \A e \in Dumps : dumped'[e].sec = 0 <=> dumped'[e] = NoDump
    BY <1>5, DumpAdded
  <2>6. QED
    BY <1>2, <1>8, <2>2, <2>3, <2>4, <2>5 DEF BackupInv, BackupShape
<1>12. FilesOK'
  <2>1. plain'[s] = d /\ \A t \in Seconds : t # s => plain'[t] = plain[t]
    BY <1>2, <1>4 DEF BackupInv, BackupShape
  <2>2. QED
    BY <1>2, <1>9, <1>10, <2>1 DEF BackupInv, Sources, FilesOK
<1>13. ASSUME NEW row \in Row, RowOK(row)
       PROVE  RowOK(row)'
  <2>1. row.sec \in Seconds
    BY DEF Row
  <2>2. QED
    BY <1>10, <1>13, <2>1 DEF RowOK
<1>14. RowsOK'
  BY <1>2, <1>13, RowOfTable DEF RowsOK
<1>15. HeldRowsOK'
  <2>1. SUFFICES ASSUME NEW e \in Dumps, NEW i \in DOMAIN dumped'[e].backups
                 PROVE  RowOK(dumped[e].backups[i])'
    BY DEF HeldRowsOK
  <2>2. CASE e = d
    <3>1. dumped'[e].backups = backups
      BY <1>5, <2>2, DumpAdded
    <3>2. QED
      BY <1>2, <1>14, <3>1 DEF RowsOK, RowOK, DumpOf
  <2>3. CASE e # d
    <3>1. dumped'[e] = dumped[e]
      BY <1>5, <2>3, DumpAdded
    <3>2. dumped[e] \in DumpStates
      BY DEF BackupInv, BackupShape
    <3>3. dumped[e].backups \in Seq(Row)
      BY <3>2 DEF DumpStates
    <3>4. dumped[e].backups[i] \in Row /\ RowOK(dumped[e].backups[i])
      BY <3>1, <3>3, RowFields DEF BackupInv, Sources, HeldRowsOK
    <3>5. PICK z \in Row : z = dumped[e].backups[i]
      BY <3>4
    <3>6. RowOK(z)'
      BY <1>13, <3>4, <3>5
    <3>7. QED
      BY <3>1, <3>5, <3>6 DEF RowOK, DumpOf
  <2>4. QED
    BY <2>2, <2>3
<1>16. ASSUME NEW b \in Actors
       PROVE  ActorOK(actor[b])'
  <2>1. CASE b = a
    BY <1>6, <1>8, <1>9, <2>1 DEF ActorOK, RowPcs
  <2>2. CASE b # a
    <3>1. actor'[b] = actor[b] /\ actor[b] \in ActorStates /\ ActorOK(actor[b])
      BY <1>8, <2>2 DEF BackupInv, BackupShape, Sources
    <3>2. PICK x \in ActorStates : x = actor[b]
      BY <3>1
    <3>3. x.pc = "encrypt" => \E e \in Dumps : DumpOf(e, x.sec)'
      <4>1. SUFFICES ASSUME x.pc = "encrypt"
                     PROVE  \E e \in Dumps : DumpOf(e, x.sec)'
        OBVIOUS
      <4>2. x.sec \in Seconds
        BY <4>1, ActorKinds DEF Starting
      <4>3. PICK e \in Dumps : DumpOf(e, x.sec)
        BY <3>1, <3>2, <4>1 DEF ActorOK
      <4>4. QED
        BY <1>10, <4>2, <4>3
    <3>4. x.pc \in {"unlink", "record"} => DumpOf(x.sum, x.sec)'
      <4>1. x.pc \in {"unlink", "record"} => x.sec \in Seconds
        BY ActorKinds DEF Storing
      <4>2. QED
        BY <1>10, <3>1, <3>2, <4>1 DEF ActorOK
    <3>5. x.pc \in RowPcs => RowOK(x.row)'
      <4>1. x.pc \in RowPcs => x.row \in Row /\ RowOK(x.row)
        BY <3>1, <3>2, ActorKinds DEF ActorOK
      <4>2. QED
        BY <1>13, <4>1
    <3>6. x.pc \in {"pg", "ok"} => DumpOf(x.loaded, x.row.sec)'
      <4>1. x.pc \in {"pg", "ok"} => x.row.sec \in Seconds /\ DumpOf(x.loaded, x.row.sec)
        BY <3>1, <3>2, ActorKinds DEF ActorOK, Loading, Row
      <4>2. QED
        BY <1>10, <4>1
    <3>7. actor'[b] = x
      BY <3>1, <3>2
    <3>8. QED
      BY <3>3, <3>4, <3>5, <3>6, <3>7 DEF ActorOK
  <2>3. QED
    BY <2>1, <2>2
<1>17. DumpsApart'
  <2>1. SUFFICES ASSUME ~collided', NEW e \in Taken', NEW g \in Taken', dumped'[e].sec = dumped'[g].sec
                 PROVE  e = g
    BY DEF DumpsApart
  <2>2. ~collided /\ \A h \in Taken : dumped[h].sec # s
    BY <1>2, <2>1
  <2>3. e \in Taken \cup {d} /\ g \in Taken \cup {d} /\ dumped'[d].sec = s
    BY <1>5, DumpAdded
  <2>4. \A h \in Taken : h # d /\ dumped'[h] = dumped[h]
    BY <1>5, DumpAdded DEF Adds, Taken
  <2>5. QED
    BY <2>1, <2>2, <2>3, <2>4 DEF BackupInv, DumpsApart
<1>18. \A b \in Actors : actor'[b].pc \in LockPcs \cup EndPcs <=> actor[b].pc \in LockPcs \cup EndPcs
  BY <1>2, <1>6, <1>8 DEF LockPcs, EndPcs
<1>19. LocksHeld' /\ RestoreStatusEnds'
  <2>1. \A b \in Actors : b # a => actor'[b].pc = actor[b].pc
    BY <1>8
  <2>2. LocksHeld'
    BY <1>2, <1>6, <1>8, <2>1 DEF BackupInv, LocksHeld, LockPcs
  <2>3. RestoreStatusEnds'
    BY <1>2, <2>1 DEF BackupInv, RestoreStatusEnds
  <2>4. QED
    BY <2>2, <2>3
<1>20. Listed'
  <2>1. SUFFICES ASSUME ~collided', ~restored'
                 PROVE  SecondsApart' /\ StoredFiles' /\ HiddenFirst'
    BY DEF Listed
  <2>2. ~collided /\ \A h \in Taken : dumped[h].sec # s
    BY <1>2, <2>1
  <2>3. SecondsApart /\ StoredFiles /\ HiddenFirst
    BY <1>2, <2>1, <2>2 DEF BackupInv, Listed
  <2>4. \A e : ~DumpOf(e, s)
    BY <1>4, <1>10, <2>2 DEF DumpOf
  <2>5. \A b \in Actors : Staged(b) => actor[b].sec # s
    BY <2>4 DEF BackupInv, Sources, ActorOK, Staged
  <2>6. \A i \in DOMAIN backups : backups[i].sec # s
    BY <2>4 DEF BackupInv, Sources, RowsOK, RowOK
  <2>7. \A b \in Actors : b # a => Staged(b)' = Staged(b) /\ Encrypted(b)' = Encrypted(b)
    BY <1>8 DEF Staged, Encrypted
  <2>8. ~Encrypted(a)' /\ actor'[a].sec = s /\ actor'[a].pc = "encrypt"
    BY <1>6, <1>8 DEF Encrypted
  <2>9. SecondsApart'
    BY <1>2, <1>8, <2>3, <2>5, <2>6, <2>7, <2>8 DEF SecondsApart
  <2>10. StoredFiles'
    BY <1>2, <1>8, <2>3, <2>7, <2>8 DEF StoredFiles
  <2>11. HiddenFirst'
    BY <1>2, <1>8, <2>3, <2>8 DEF HiddenFirst
  <2>12. QED
    BY <2>9, <2>10, <2>11
<1>21. QED
  BY <1>11, <1>12, <1>14, <1>15, <1>16, <1>17, <1>19, <1>20 DEF BackupInv, Sources

LEMMA BackupStarts == BackupInit => BackupInv
<1> USE BackupAssumption
<1>1. SUFFICES ASSUME BackupInit
               PROVE  BackupInv
  OBVIOUS
<1>2. /\ backups = <<>> /\ rstatus = "none" /\ rlock = NoActor /\ second = 1 /\ restores = 0
      /\ collided = FALSE /\ restored = FALSE /\ rdied = FALSE
      /\ \A d \in Dumps : dumped[d] = NoDump
      /\ \A a \in Actors : actor[a] = Resting
      /\ \A s \in Seconds : plain[s] = 0 /\ enc[s] = NoEnc /\ dec[s] = 0
  BY <1>1 DEF BackupInit
<1>3. NoDump \in DumpStates /\ NoDump.sec = 0 /\ NoDump.backups = <<>>
  <2>1. 0 \in 0..MaxSecond /\ <<>> \in Seq(Row)
    OBVIOUS
  <2>2. QED
    BY <2>1 DEF NoDump, DumpStates, Statuses
<1>4. NoEnc \in [dump : 0..MaxBackups, key : Keys] /\ NoEnc.dump = 0
  BY DEF NoEnc, Keys
<1>5. Taken = 1..0
  BY <1>2 DEF Taken
<1>6. BackupShape
  <2>1. 0 \in 0..MaxBackups /\ 1 \in Seconds /\ 0 \in 0..MaxRestores /\ 0 \in Nat
    BY DEF Seconds
  <2>2. dumped \in [Dumps -> DumpStates] /\ \A d \in Dumps : dumped[d].sec = 0 <=> dumped[d] = NoDump
    BY <1>1, <1>3 DEF BackupInit
  <2>3. plain \in [Seconds -> 0..MaxBackups] /\ dec \in [Seconds -> 0..MaxBackups]
    BY <1>1, <2>1 DEF BackupInit
  <2>4. enc \in [Seconds -> [dump : 0..MaxBackups, key : Keys]] /\ actor \in [Actors -> ActorStates]
    BY <1>1, <1>4, ActorRest DEF BackupInit
  <2>5. \E n \in Nat : Taken = 1..n
    BY <1>5, <2>1
  <2>6. /\ backups \in Seq(Row) /\ rstatus \in Statuses /\ rlock \in Actors \cup {NoActor}
        /\ second \in Seconds /\ restores \in 0..MaxRestores
    BY <1>2, <2>1 DEF Statuses
  <2>7. collided \in BOOLEAN /\ restored \in BOOLEAN /\ rdied \in BOOLEAN
    BY <1>2
  <2>8. QED
    BY <2>2, <2>3, <2>4, <2>5, <2>6, <2>7 DEF BackupShape
<1>7. FilesOK
  BY <1>2, <1>4 DEF FilesOK
<1>8. RowsOK /\ HeldRowsOK
  BY <1>2, <1>3 DEF RowsOK, HeldRowsOK
<1>9. \A a \in Actors : ActorOK(actor[a])
  BY <1>2, ActorRest
<1>10. DumpsApart /\ LocksHeld /\ RestoreStatusEnds
  BY <1>2, <1>5, ActorRest DEF DumpsApart, LocksHeld, LockPcs, RestoreStatusEnds
<1>11. Listed
  BY <1>2, ActorRest DEF Listed, SecondsApart, StoredFiles, HiddenFirst, Staged, Encrypted
<1>12. QED
  BY <1>6, <1>7, <1>8, <1>9, <1>10, <1>11 DEF BackupInv, Sources

\* Backups, restores, deletions and retention keep the invariant.
THEOREM BackupInvariance == BackupSpec => []BackupInv
<1>1. ASSUME BackupInv, [BackupNext]_backupVars
      PROVE  BackupInv'
  <2>1. CASE UNCHANGED backupVars
    <3>1. /\ UNCHANGED <<backups, rstatus, plain, enc, dec, dumped, rlock, actor, restores, collided, restored, rdied>>
          /\ second' = second
      BY <2>1 DEF backupVars, tables, files
    <3>2. RowsOK' /\ Listed'
      BY <1>1, <3>1 DEF BackupInv, Sources, RowsOK, RowOK, DumpOf, Listed, SecondsApart, StoredFiles,
                        HiddenFirst, Staged, Encrypted
    <3>3. QED
      BY <1>1, <3>1, <3>2, StillFrame DEF BackupInv, BackupShape
  <2>2. CASE Tick
    BY <1>1, <2>2, TickStep
  <2>3. CASE \E i \in DOMAIN backups : CleanupOldBackup(i)
    BY <1>1, <2>3, CleanupStep
  <2>4. ASSUME NEW a \in Actors, NEW name \in BackupNames, CreateBackup(a, name)
        PROVE  BackupInv'
    BY <1>1, <2>4, CreateStep
  <2>5. ASSUME NEW a \in Actors, NEW i \in DOMAIN backups, DeleteBackup(a, i)
        PROVE  BackupInv'
    BY <1>1, <2>5, DeleteBackupStep
  <2>6. ASSUME NEW a \in Actors, NEW i \in DOMAIN backups, NEW op \in {"restore", "verify"},
               CheckBackup(a, i, op)
        PROVE  BackupInv'
    BY <1>1, <2>6, CheckBackupStep
  <2>7. ASSUME NEW a \in Actors, BackupStep(a)
        PROVE  BackupInv'
    <3>1. CASE Dump(a) \/ DumpFails(a) \/ Encrypt(a) \/ Unlink(a) \/ Record(a)
      BY <1>1, <3>1, DumpStep, DumpFailsStep, EncryptStep, UnlinkStep, RecordStep
    <3>2. CASE CheckSum(a) \/ PreLock(a) \/ PreClose(a) \/ RestoreLock(a) \/ RestoreMark(a)
      BY <1>1, <3>2, CheckSumStep, PreLockStep, PreCloseStep, RestoreLockStep, RestoreMarkStep
    <3>3. CASE RestoreLook(a) \/ RestoreOpen(a) \/ PgRestore(a) \/ RestoreEnd(a)
      BY <1>1, <3>3, RestoreLookStep, RestoreOpenStep, PgRestoreStep, RestoreEndStep
    <3>4. CASE RestoreDie(a) \/ DeleteFile(a)
      BY <1>1, <3>4, RestoreDieStep, DeleteFileStep
    <3>5. QED
      BY <2>7, <3>1, <3>2, <3>3, <3>4 DEF BackupStep
  <2>8. QED
    BY <1>1, <2>1, <2>2, <2>3, <2>4, <2>5, <2>6, <2>7 DEF BackupNext
<1>2. QED
  BY <1>1, BackupStarts, PTL DEF BackupSpec

\* restore_backup drops the advisory lock before _restore_sync takes it again;
\* all the same two pg_restores never overlap, and restore_job_status says
\* "running" only while a restore is on its way to an end, unless its process
\* died.
THEOREM RestoresInTurn == BackupSpec => []RestoresTakeTurns
<1>1. BackupInv => RestoresTakeTurns
  <2>1. SUFFICES ASSUME BackupInv
                 PROVE  OneRestoreRuns
    BY DEF RestoresTakeTurns, BackupInv
  <2>2. QED
    BY <2>1 DEF BackupInv, LocksHeld, LockPcs, OneRestoreRuns
<1>2. QED
  BY <1>1, BackupInvariance, PTL

\* A pg_restore that succeeds has loaded the dump whose checksum the record of
\* its backup names, unless two backups of one second shared a file.
THEOREM RestoredIsRecorded == BackupSpec => []RestoreLoadsItsBackup
<1>1. BackupInv => RestoreLoadsItsBackup
  <2>1. SUFFICES ASSUME BackupInv, NEW a \in Actors, actor[a].pc = "ok", ~collided
                 PROVE  actor[a].loaded = actor[a].row.sum
    BY DEF RestoreLoadsItsBackup
  <2>2. DumpOf(actor[a].loaded, actor[a].row.sec) /\ DumpOf(actor[a].row.sum, actor[a].row.sec)
    BY <2>1 DEF BackupInv, Sources, ActorOK, RowOK, RowPcs
  <2>3. actor[a].row.sec # 0
    BY <2>1, RowOfActor DEF RowPcs, Seconds
  <2>4. actor[a].loaded \in Taken /\ actor[a].row.sum \in Taken
    BY <2>1, <2>2, <2>3 DEF DumpOf, Taken, BackupInv, BackupShape
  <2>5. QED
    BY <2>1, <2>2, <2>4 DEF BackupInv, DumpsApart, DumpOf
<1>2. QED
  BY <1>1, BackupInvariance, PTL

\* A backup that the page lists can be decrypted with its key to the dump its
\* checksum was taken from, whatever is deleted, retained or verified
\* meanwhile, unless names collided or a restore brought an older list back.
THEOREM ListedRestorable == BackupSpec => []ListedBackupsRestorable
<1>1. BackupInv => ListedBackupsRestorable
  BY DEF BackupInv, Listed, StoredFiles, ListedBackupsRestorable
<1>2. QED
  BY <1>1, BackupInvariance, PTL

-----------------------------------------------------------------------------
(* The parts together *)

\* A behaviour of the parts together is one of each: the theorems about ETL,
\* the warehouse, backups, the pool, the audit chain and alerts hold of it.
THEOREM BackgroundCompose ==
  Spec => /\ EtlSpec /\ WarehouseSpec /\ BackupSpec
          /\ PoolSpec /\ ChainSpec /\ SystemAlertsSpec
<1> DEFINE allVars == <<focus, etlVars, warehouseVars, backupVars, poolVars, chainVars, alertVars>>
<1>1. Init => /\ EtlInit /\ WarehouseInit /\ BackupInit /\ PoolInit /\ ChainInit /\ SystemAlertsInit
  BY DEF Init
<1>2. [Next]_allVars => /\ [EtlNext]_etlVars /\ [WarehouseNext]_warehouseVars /\ [BackupNext]_backupVars
                        /\ [PoolNext]_poolVars /\ [ChainNext]_chainVars /\ [SystemAlertsNext]_alertVars
  BY DEF Next
<1>3. QED
  BY <1>1, <1>2, PTL DEF Spec, EtlSpec, WarehouseSpec, BackupSpec, PoolSpec, ChainSpec, SystemAlertsSpec

LEMMA BackupTypes == BackupInv => BackupTypeOK
<1>1. SUFFICES ASSUME BackupInv
               PROVE  BackupTypeOK
  OBVIOUS
<1>2. ASSUME NEW a \in Actors
      PROVE  actor[a] = Resting \/ actor[a].pc \in Pcs
  <2>1. actor[a] \in ActorStates
    BY <1>1 DEF BackupInv, BackupShape
  <2>2. QED
    BY <2>1 DEF ActorStates, Starting, Storing, Checking, Requeued, Loading, Deleting, Pcs
<1>3. \A i \in DOMAIN backups : backups[i] \in Row
  BY <1>1 DEF BackupInv, BackupShape
<1>4. QED
  BY <1>1, <1>2, <1>3 DEF BackupInv, BackupShape, BackupTypeOK, Statuses

LEMMA WarehouseTyped == WarehouseInv => WarehouseTypeOK
<1>1. SUFFICES ASSUME WarehouseInv
               PROVE  WarehouseTypeOK
  OBVIOUS
<1>2. ASSUME NEW r \in Builders
      PROVE  build[r].pc \in BuildPcs \cup {"idle"}
  <2>1. build[r] \in Build \cup {NoBuild}
    BY <1>1 DEF WarehouseInv, WarehouseShape
  <2>2. QED
    BY <2>1 DEF Build, NoBuild
<1>3. ASSUME NEW e \in Entities
      PROVE  \A i \in DOMAIN scd[e] : scd[e][i] \in [val : 1..MaxAttr, cur : BOOLEAN]
  <2>1. scd[e] \in Seq(Version)
    BY <1>1 DEF WarehouseInv, WarehouseShape
  <2>2. \A i \in DOMAIN scd[e] : scd[e][i] \in Version
    BY <2>1
  <2>3. QED
    BY <2>2 DEF Version
<1>4. QED
  BY <1>1, <1>2, <1>3 DEF WarehouseInv, WarehouseShape, WarehouseTypeOK, AuditRow

LEMMA ChainTypes == ChainInv => ChainTypeOK
BY DEF ChainInv, ChainShape, ChainTypeOK, ChainRow, ChainWriter, OpenRowsLocked

\* In the parts together every variable has its type.
THEOREM BackgroundTyped == Spec => []TypeOK
<1>1. EtlInv => EtlTypeOK
  BY DEF EtlInv
<1>2. PoolInv => PoolTypeOK
  BY DEF PoolInv
<1>3. AlertInv => SystemAlertsTypeOK
  BY DEF AlertInv
<1>4. EtlTypeOK /\ WarehouseTypeOK /\ BackupTypeOK /\ PoolTypeOK /\ ChainTypeOK /\ SystemAlertsTypeOK => TypeOK
  BY DEF TypeOK
<1>5. QED
  BY <1>1, <1>2, <1>3, <1>4, WarehouseTyped, BackupTypes, ChainTypes, BackgroundCompose, EtlInvariance,
     WarehouseInvariance, BackupInvariance, PoolInvariance, ChainInvariance, AlertInvariance, PTL
=============================================================================
