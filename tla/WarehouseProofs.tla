-------------------------- MODULE WarehouseProofs --------------------------
(***************************************************************************)
(* Theorems about run_etl and its star schema, for any number of           *)
(* processes, movements, days, products and runs; about the warehouse      *)
(* layer of etl_full_build, for any entities, audit rows and builders; and *)
(* about the hash chain of the audit log, for any writers and rows.        *)
(***************************************************************************)
EXTENDS EtlRun, WarehouseBuild, AuditChain, FiniteSetTheorems, SequenceTheorems,
        WellFoundedInduction, TLAPS

-----------------------------------------------------------------------------
(* The largest and the smallest of a bounded set of numbers                  *)

LEMMA LeastNumber ==
  ASSUME NEW T, T \subseteq Nat, T # {}
  PROVE  \E x \in T : \A y \in T : x <= y
<1>1. PICK x \in T : \A y \in T : ~(<<y, x>> \in OpToRel(<, Nat))
  BY NatLessThanWellFounded, WFMin, Zenon
<1>2. ASSUME NEW y \in T
      PROVE  x <= y
  <2>1. x \in Nat /\ y \in Nat /\ ~(y < x)
    BY <1>1 DEF OpToRel
  <2>2. QED
    BY <2>1
<1>3. QED
  BY <1>2

LEMMA MinOf ==
  ASSUME NEW N \in Nat, NEW S, S \subseteq 0..N, S # {}
  PROVE  Min(S) \in S /\ \A y \in S : Min(S) <= y
<1>1. S \subseteq Nat
  OBVIOUS
<1>2. \E x \in S : \A y \in S : x <= y
  BY <1>1, LeastNumber
<1>3. QED
  BY <1>2, Zenon DEF Min

\* The least upper bound of the set is one of its members.
LEMMA MaxOf ==
  ASSUME NEW N \in Nat, NEW S, S \subseteq 0..N, S # {}
  PROVE  Max(S) \in S /\ \A y \in S : Max(S) >= y
<1> DEFINE U == {n \in Nat : \A y \in S : y <= n}
<1>1. N \in U
  OBVIOUS
<1>2. PICK x \in U : \A y \in U : x <= y
  BY <1>1, LeastNumber
<1>3. x \in S
  <2>1. SUFFICES ASSUME x \notin S
                 PROVE  FALSE
    OBVIOUS
  <2>2. PICK s \in S : TRUE
    OBVIOUS
  <2>3. \A y \in S : y \in Nat /\ y < x
    BY <1>2, <2>1
  <2>4. x - 1 \in U
    BY <1>2, <2>2, <2>3
  <2>5. QED
    BY <1>2, <2>4
<1>4. \A y \in S : x >= y
  BY <1>2
<1>5. QED
  BY <1>3, <1>4, Zenon DEF Max

-----------------------------------------------------------------------------
(* run_etl                                                                   *)

\* Ids are drawn in order; a movement is of a day that has come and of a
\* product that exists.
MovesSound ==
  /\ \E n \in Nat : Allocated = 1..n
  /\ \A i \in Allocated : moves[i].day <= day /\ moves[i].product <= products

\* The movements that a run has to account for.
Known == Committed \ overtaken

\* What a run that has got as far as x knows of the movements up to its
\* watermark: their days and products are in reach until it has aggregated
\* them, the facts have them afterwards.  An incremental run leaves those
\* below the old watermark to the facts.
Reached(x, i)   == moves[i].day \in x.first..x.last
Recounts(x, i)  == Reached(x, i) \/ (~x.full /\ i <= mark)

PlanSound(x) ==
  /\ x.pc = "bounds" /\ x.full => \A i \in Known : Reached(x, i)
  /\ x.pc \in {"bounds", "dates"} /\ ~x.full => mark <= x.max
  /\ x.pc \in {"dates", "dims", "facts", "stock"} => 0 <= x.max
  /\ x.pc \in {"dims", "facts", "stock"} => mark <= x.max
  /\ x.pc \in {"dates", "dims", "facts"} => \A i \in Known : i <= x.max => Recounts(x, i)
  /\ x.pc = "facts" => \A i \in Known : i <= x.max => Sku(moves[i].product) \in dims
  /\ x.pc = "stock" => \A i \in Known : i <= x.max => i \in facts[moves[i].day]

\* Between its lock and its end a run has the advisory lock.
Running(r) == run[r].pc \notin {"idle", "lock"}

EtlInv ==
  /\ EtlTypeOK /\ MovesSound /\ FactsMatchMovements
  /\ \A r \in Runners : (Running(r) => lock = r) /\ PlanSound(run[r])

EtlStatuses == {"none", "running", "failed", "success"}

LEMMA PlanKind ==
  ASSUME EtlTypeOK, NEW r \in Runners
  PROVE  /\ run[r].pc # "idle" => run[r] \in Plan
         /\ run[r] = Idle => run[r].pc = "idle"
         /\ Idle.pc = "idle"
BY DEF EtlTypeOK, Idle

LEMMA KnownMoves ==
  ASSUME EtlTypeOK
  PROVE  /\ Known \subseteq Committed /\ Committed \subseteq Allocated /\ Allocated \subseteq Ids
         /\ \A i \in Ids : /\ i \in Nat /\ i >= 1 /\ moves[i].day \in Days
                           /\ moves[i].product \in 1..MaxProduct
<1>1. \A i \in Ids : moves[i] \in [st : {"none", "open", "done", "gone"}, day : Days, product : 1..MaxProduct]
  BY DEF EtlTypeOK
<1>2. \A i \in Ids : moves[i].day \in Days /\ moves[i].product \in 1..MaxProduct
  BY <1>1
<1>3. QED
  BY <1>2, EtlAssumption DEF Known, Committed, Allocated, Ids

\* The tables that run_etl reads change: a movement that becomes known lies
\* above the watermark of everybody who has chosen one.
LEMMA ShopFrame ==
  ASSUME EtlInv, UNCHANGED etl, EtlTypeOK', MovesSound', Committed \subseteq Committed',
         \A i \in Committed : moves'[i].day = moves[i].day /\ moves'[i].product = moves[i].product,
         \A i \in Known' : \/ i \in Known
                           \/ /\ i > mark
                              /\ \A r \in Runners : Running(r) => ~(i <= run[r].max) /\ run[r].pc # "bounds"
  PROVE  EtlInv'
<1> USE DEF etl
<1>1. FactsAreMovements'
  BY DEF EtlInv, FactsMatchMovements, FactsAreMovements
<1>2. WatermarkCovered'
  <2>1. SUFFICES ASSUME NEW i \in Known', i <= mark
                 PROVE  i \in facts[moves'[i].day]
    BY DEF WatermarkCovered, Known
  <2>2. i \in Nat /\ mark \in Nat
    BY KnownMoves, EtlAssumption DEF EtlInv, EtlTypeOK, Known, Committed, Ids
  <2>3. i \in Known
    BY <2>1, <2>2
  <2>4. QED
    BY <2>1, <2>3 DEF EtlInv, FactsMatchMovements, WatermarkCovered, Known
<1>3. ASSUME NEW r \in Runners
      PROVE  (Running(r) => lock = r)' /\ PlanSound(run[r])'
  <2>1. PICK x : x = run[r]
    OBVIOUS
  <2>2. PlanSound(x) /\ (Running(r) => lock = r) /\ run'[r] = x
    BY <2>1 DEF EtlInv
  <2>3. \A i \in Known : i \in Committed
    BY DEF Known
  <2>4. x.pc \notin {"idle", "lock"} =>
          \A i \in Known' : i \in Known \/ (~(i <= x.max) /\ x.pc # "bounds")
    BY <2>1 DEF Running
  <2>5. PlanSound(x)'
    BY <2>2, <2>3, <2>4 DEF PlanSound, Reached, Recounts
  <2>6. QED
    BY <2>1, <2>2, <2>5 DEF Running
<1>4. QED
  BY <1>1, <1>2, <1>3 DEF EtlInv, FactsMatchMovements

\* A runner gets on.
EtlTypes ==
  /\ dates' \subseteq Days /\ dims' \subseteq 101..(100 + MaxProduct)
  /\ facts' \in [Days -> SUBSET Ids] /\ stockDays' \subseteq Days /\ mark' \in 0..MaxMovements
  /\ lock' \in Runners \cup {NoRunner} /\ status' \in EtlStatuses /\ runs' \in 0..MaxRuns

HoldsLock(r, next) ==
  /\ lock' = lock \/ lock \in {r, NoRunner}
  /\ next.pc \notin {"idle", "lock"} => lock' = r

LEMMA RunFrame ==
  ASSUME EtlInv, NEW r \in Runners, NEW next \in Plan \cup {Idle}, run' = [run EXCEPT ![r] = next],
         UNCHANGED shop, EtlTypes, HoldsLock(r, next), UNCHANGED <<dims, facts, mark>> \/ lock = r,
         PlanSound(next)', FactsMatchMovements'
  PROVE  EtlInv'
<1> USE EtlAssumption DEF shop
<1>1. EtlTypeOK'
  BY DEF EtlInv, EtlTypeOK, EtlTypes, EtlStatuses
<1>2. MovesSound'
  BY DEF EtlInv, MovesSound, Allocated
<1>3. Known' = Known
  BY DEF Known, Committed
<1>4. run'[r] = next /\ \A q \in Runners : q # r => run'[q] = run[q]
  BY DEF EtlInv, EtlTypeOK
<1>5. ASSUME NEW q \in Runners
      PROVE  (Running(q) => lock = q)' /\ PlanSound(run[q])'
  <2>1. CASE q = r
    BY <1>4, <2>1 DEF HoldsLock, Running, PlanSound, Reached, Recounts
  <2>2. CASE q # r
    <3>1. PICK x : x = run[q]
      OBVIOUS
    <3>2. PlanSound(x) /\ (Running(q) => lock = q) /\ run'[q] = x
      BY <1>4, <2>2, <3>1 DEF EtlInv
    <3>3. Running(q)' = Running(q)
      BY <1>4, <2>2 DEF Running
    <3>4. (Running(q) => lock = q)'
      BY <2>2, <3>2, <3>3 DEF HoldsLock
    <3>5. PlanSound(x)'
      <4>1. CASE UNCHANGED <<dims, facts, mark>>
        BY <1>3, <3>2, <4>1 DEF PlanSound, Reached, Recounts
      <4>2. CASE lock = r
        <5>1. x.pc \in {"idle", "lock"}
          BY <2>2, <3>1, <3>2, <4>2 DEF Running
        <5>2. QED
          BY <5>1 DEF PlanSound
      <4>3. QED
        BY <4>1, <4>2
    <3>6. QED
      BY <3>1, <3>2, <3>4, <3>5
  <2>3. QED
    BY <2>1, <2>2
<1>6. QED
  BY <1>1, <1>2, <1>5 DEF EtlInv

\* Rows and watermark stay as they are.
LEMMA FactsKept ==
  ASSUME EtlInv, UNCHANGED shop, UNCHANGED <<facts, mark>>
  PROVE  FactsMatchMovements'
BY DEF shop, EtlInv, FactsMatchMovements, WatermarkCovered, FactsAreMovements, Committed

-----------------------------------------------------------------------------
(* The operational tables                                                    *)

LEMMA MoveInsertStep ==
  ASSUME EtlInv, NEW p \in 1..products, MoveInsert(p)
  PROVE  EtlInv'
<1> USE EtlAssumption
<1> DEFINE m == [st |-> "open", day |-> day, product |-> p]
<1>1. PICK n \in Nat : Allocated = 1..n
  BY DEF EtlInv, MovesSound
<1>2. Cardinality(1..n) = n
  BY FS_Interval
<1>3. PICK i \in Ids : i = n + 1
  BY <1>1, <1>2 DEF MoveInsert
<1>4. moves' = [moves EXCEPT ![i] = m] /\ UNCHANGED <<day, products, overtaken, etl>>
  BY <1>1, <1>2, <1>3 DEF MoveInsert
<1>5. p \in 1..MaxProduct /\ day \in Days /\ p <= products
  BY DEF EtlInv, EtlTypeOK
<1>6. /\ m \in [st : {"none", "open", "done", "gone"}, day : Days, product : 1..MaxProduct]
      /\ m.st = "open" /\ m.day = day /\ m.product = p
  BY <1>5
<1> HIDE DEF m
<1>7. /\ moves' \in [Ids -> [st : {"none", "open", "done", "gone"}, day : Days, product : 1..MaxProduct]]
      /\ moves'[i] = m /\ \A j \in Ids : j # i => moves'[j] = moves[j]
  BY <1>4, <1>6 DEF EtlInv, EtlTypeOK
<1>8. i \notin Allocated
  BY <1>1, <1>3
<1>9. Allocated' = Allocated \cup {i} /\ Committed' = Committed
  BY <1>6, <1>7, <1>8 DEF Allocated, Committed
<1>10. Allocated' = 1..(n + 1) /\ n + 1 \in Nat
  BY <1>1, <1>3, <1>9
<1>11. MovesSound'
  <2>1. \A j \in Allocated' : moves'[j].day <= day /\ moves'[j].product <= products
    <3>1. day <= day
      BY <1>5 DEF Days
    <3>2. QED
      BY <1>5, <1>6, <1>7, <1>8, <1>9, <3>1 DEF EtlInv, MovesSound, Allocated
  <2>2. QED
    BY <1>4, <1>10, <2>1 DEF MovesSound
<1>12. EtlTypeOK'
  BY <1>4, <1>7 DEF EtlInv, EtlTypeOK, etl
<1>13. \A j \in Committed : moves'[j] = moves[j]
  BY <1>7, <1>8 DEF Committed, Allocated
<1>14. Known' = Known
  BY <1>4, <1>9 DEF Known
<1>15. QED
  BY <1>4, <1>9, <1>11, <1>12, <1>13, <1>14, ShopFrame

LEMMA MoveEnds ==
  ASSUME EtlInv, NEW i \in Ids, moves[i].st = "open", NEW st \in {"done", "gone"},
         moves' = [moves EXCEPT ![i].st = st], UNCHANGED <<day, products, etl>>,
         overtaken' \subseteq Ids
  PROVE  /\ EtlTypeOK' /\ MovesSound' /\ i \notin Committed
         /\ Committed' = IF st = "done" THEN Committed \cup {i} ELSE Committed
         /\ \A j \in Ids : moves'[j].day = moves[j].day /\ moves'[j].product = moves[j].product
<1> DEFINE m == [moves[i] EXCEPT !.st = st]
<1>1. moves \in [Ids -> [st : {"none", "open", "done", "gone"}, day : Days, product : 1..MaxProduct]]
  BY DEF EtlInv, EtlTypeOK
<1>2. /\ m \in [st : {"none", "open", "done", "gone"}, day : Days, product : 1..MaxProduct]
      /\ m.st = st /\ m.day = moves[i].day /\ m.product = moves[i].product
  BY <1>1
<1>3. moves' = [moves EXCEPT ![i] = m]
  BY <1>1
<1> HIDE DEF m
<1>4. /\ moves' \in [Ids -> [st : {"none", "open", "done", "gone"}, day : Days, product : 1..MaxProduct]]
      /\ moves'[i] = m /\ \A j \in Ids : j # i => moves'[j] = moves[j]
  BY <1>1, <1>2, <1>3
<1>5. EtlTypeOK'
  BY <1>4 DEF EtlInv, EtlTypeOK, etl
<1>6. Allocated' = Allocated
  BY <1>2, <1>4 DEF Allocated
<1>7. \A j \in Ids : moves'[j].day = moves[j].day /\ moves'[j].product = moves[j].product
  BY <1>2, <1>4
<1>8. MovesSound'
  BY <1>6, <1>7 DEF EtlInv, MovesSound, Allocated
<1>9. Committed' = IF st = "done" THEN Committed \cup {i} ELSE Committed
  BY <1>2, <1>4 DEF Committed
<1>10. QED
  BY <1>5, <1>7, <1>8, <1>9 DEF Committed

LEMMA MoveCommitStep ==
  ASSUME EtlInv, NEW i \in Ids, MoveCommit(i)
  PROVE  EtlInv'
<1>1. /\ moves[i].st = "open" /\ moves' = [moves EXCEPT ![i].st = "done"]
      /\ UNCHANGED <<day, products, etl>>
      /\ overtaken' = IF AtRisk(i) \/ i <= mark THEN overtaken \cup {i} ELSE overtaken
  BY DEF MoveCommit
<1>2. overtaken' \subseteq Ids
  BY <1>1 DEF EtlInv, EtlTypeOK
<1>3. /\ EtlTypeOK' /\ MovesSound' /\ Committed' = Committed \cup {i}
      /\ \A j \in Ids : moves'[j].day = moves[j].day /\ moves'[j].product = moves[j].product
  BY <1>1, <1>2, MoveEnds
<1>4. \A j \in Committed : j \in Ids
  BY DEF Committed
<1>5. CASE AtRisk(i) \/ i <= mark
  <2>1. \A j \in Known' : j \in Known
    BY <1>1, <1>3, <1>5 DEF Known
  <2>2. QED
    BY <1>1, <1>3, <1>4, <2>1, ShopFrame
<1>6. CASE ~(AtRisk(i) \/ i <= mark)
  <2>1. i > mark
    BY <1>6, EtlAssumption DEF Ids, EtlInv, EtlTypeOK
  <2>2. \A r \in Runners : Running(r) => ~(i <= run[r].max) /\ run[r].pc # "bounds"
    BY <1>6 DEF AtRisk, Running
  <2>3. \A j \in Known' : j \in Known \/ j = i
    BY <1>1, <1>3, <1>6 DEF Known
  <2>4. QED
    BY <1>1, <1>3, <1>4, <2>1, <2>2, <2>3, ShopFrame
<1>7. QED
  BY <1>5, <1>6

LEMMA MoveRollbackStep ==
  ASSUME EtlInv, NEW i \in Ids, MoveRollback(i)
  PROVE  EtlInv'
<1>1. /\ moves[i].st = "open" /\ moves' = [moves EXCEPT ![i].st = "gone"]
      /\ UNCHANGED <<day, products, overtaken, etl>> /\ overtaken' \subseteq Ids
  BY DEF MoveRollback, EtlInv, EtlTypeOK
<1>2. /\ EtlTypeOK' /\ MovesSound' /\ Committed' = Committed
      /\ \A j \in Ids : moves'[j].day = moves[j].day /\ moves'[j].product = moves[j].product
  BY <1>1, MoveEnds
<1>3. Known' = Known /\ \A j \in Committed : j \in Ids
  BY <1>1, <1>2 DEF Known, Committed
<1>4. QED
  BY <1>1, <1>2, <1>3, ShopFrame

LEMMA NewProductStep ==
  ASSUME EtlInv, NewProduct
  PROVE  EtlInv'
<1> USE EtlAssumption
<1>1. products' = products + 1 /\ products < MaxProduct /\ UNCHANGED <<moves, day, overtaken, etl>>
  BY DEF NewProduct
<1>2. EtlTypeOK'
  BY <1>1 DEF EtlInv, EtlTypeOK, etl
<1>3. Known' = Known /\ Committed' = Committed /\ Allocated' = Allocated
  BY <1>1 DEF Known, Committed, Allocated
<1>4. \A i \in Allocated : moves[i].product \in Nat /\ moves[i].product <= products /\ products \in Nat
  BY KnownMoves DEF EtlInv, EtlTypeOK, MovesSound
<1>5. \A i \in Allocated : moves[i].product <= products'
  BY <1>1, <1>4
<1>6. MovesSound'
  BY <1>1, <1>3, <1>5 DEF EtlInv, MovesSound
<1>7. QED
  BY <1>1, <1>2, <1>3, <1>6, ShopFrame

LEMMA NextDayStep ==
  ASSUME EtlInv, NextDay
  PROVE  EtlInv'
<1> USE EtlAssumption
<1>1. day' = day + 1 /\ day < MaxDay /\ UNCHANGED <<moves, products, overtaken, etl>>
  BY DEF NextDay
<1>2. EtlTypeOK'
  BY <1>1 DEF EtlInv, EtlTypeOK, etl, Days
<1>3. Known' = Known /\ Committed' = Committed /\ Allocated' = Allocated
  BY <1>1 DEF Known, Committed, Allocated
<1>4. \A i \in Allocated : moves[i].day \in Nat /\ moves[i].day <= day /\ day \in Nat
  BY KnownMoves DEF EtlInv, EtlTypeOK, MovesSound, Days
<1>5. \A i \in Allocated : moves[i].day <= day'
  BY <1>1, <1>4
<1>6. MovesSound'
  BY <1>1, <1>3, <1>5 DEF EtlInv, MovesSound
<1>7. QED
  BY <1>1, <1>2, <1>3, <1>6, ShopFrame

-----------------------------------------------------------------------------
(* The runs                                                                  *)

\* A step of a run that has nothing to account for yet, or no longer.
LEMMA QuietRun ==
  ASSUME EtlInv, NEW r \in Runners, NEW next \in Plan \cup {Idle}, run' = [run EXCEPT ![r] = next],
         next.pc \in {"idle", "lock", "plan", "last"}, HoldsLock(r, next),
         UNCHANGED <<dates, dims, facts, stockDays, mark, shop>>,
         lock' \in Runners \cup {NoRunner}, status' \in EtlStatuses, runs' \in 0..MaxRuns
  PROVE  EtlInv'
<1>1. EtlTypes
  BY DEF EtlTypes, EtlInv, EtlTypeOK
<1>2. PlanSound(next)'
  BY DEF PlanSound
<1>3. FactsMatchMovements'
  BY FactsKept
<1>4. QED
  BY <1>1, <1>2, <1>3, RunFrame

LEMMA EtlStartStep ==
  ASSUME EtlInv, NEW r \in Runners, NEW force \in BOOLEAN, EtlStart(r, force)
  PROVE  EtlInv'
<1> USE EtlAssumption
<1> DEFINE next == [pc |-> "lock", full |-> force, first |-> 1, last |-> 1, max |-> -1]
<1>1. /\ run' = [run EXCEPT ![r] = next] /\ runs < MaxRuns /\ runs' = runs + 1 /\ status' = "running"
      /\ UNCHANGED <<dates, dims, facts, stockDays, mark, lock, shop>>
  BY DEF EtlStart
<1>2. 1 \in Days /\ -1 \in -1..MaxMovements
  BY DEF Days
<1>3. next \in Plan /\ next.pc = "lock"
  BY <1>2 DEF Plan
<1> HIDE DEF next
<1>4. runs' \in 0..MaxRuns /\ status' \in EtlStatuses /\ lock' \in Runners \cup {NoRunner}
  BY <1>1 DEF EtlInv, EtlTypeOK, EtlStatuses
<1>5. HoldsLock(r, next)
  BY <1>1, <1>3 DEF HoldsLock
<1>6. QED
  BY <1>1, <1>3, <1>4, <1>5, QuietRun

\* A run that ends, however it ends.
LEMMA EndStep ==
  ASSUME EtlInv, NEW r \in Runners, NEW outcome \in EtlStatuses, End(r, outcome),
         UNCHANGED <<dates, dims, facts, stockDays, mark, runs, shop>>
  PROVE  EtlInv'
<1>1. /\ run' = [run EXCEPT ![r] = Idle] /\ lock' = (IF lock = r THEN NoRunner ELSE lock)
      /\ status' \in EtlStatuses
  BY DEF End
<1>2. Idle.pc = "idle" /\ Idle \in Plan \cup {Idle}
  BY DEF Idle
<1>3. HoldsLock(r, Idle) /\ lock' \in Runners \cup {NoRunner} /\ runs' \in 0..MaxRuns
  BY <1>1, <1>2 DEF HoldsLock, EtlInv, EtlTypeOK
<1>4. QED
  BY <1>1, <1>2, <1>3, QuietRun

LEMMA EtlLockStep ==
  ASSUME EtlInv, NEW r \in Runners, EtlLock(r)
  PROVE  EtlInv'
<1>1. /\ run[r].pc = "lock" /\ UNCHANGED <<dates, dims, facts, stockDays, mark, runs, shop>>
      /\ runs' \in 0..MaxRuns
  BY DEF EtlLock, EtlInv, EtlTypeOK
<1>2. CASE LockFree
  <2> DEFINE next == [run[r] EXCEPT !.pc = "plan"]
  <2>1. lock' = r /\ lock = NoRunner /\ run' = [run EXCEPT ![r] = next] /\ status' = status
    BY <1>2 DEF EtlLock, LockFree, Goto, EtlInv, EtlTypeOK
  <2>2. run[r] \in Plan
    BY <1>1, PlanKind DEF EtlInv
  <2>3. next \in Plan /\ next.pc = "plan"
    BY <2>2 DEF Plan
  <2> HIDE DEF next
  <2>4. HoldsLock(r, next) /\ status' \in EtlStatuses
    BY <2>1 DEF HoldsLock, EtlInv, EtlTypeOK, EtlStatuses
  <2>5. QED
    BY <1>1, <2>1, <2>3, <2>4, QuietRun
<1>3. CASE ~LockFree
  <2>1. run' = [run EXCEPT ![r] = Idle] /\ status' = "success" /\ lock' = lock
    BY <1>3 DEF EtlLock
  <2>2. Idle.pc = "idle" /\ Idle \in Plan \cup {Idle}
    BY DEF Idle
  <2>3. HoldsLock(r, Idle) /\ lock' \in Runners \cup {NoRunner} /\ status' \in EtlStatuses
    BY <2>1, <2>2 DEF HoldsLock, EtlInv, EtlTypeOK, EtlStatuses
  <2>4. QED
    BY <1>1, <2>1, <2>2, <2>3, QuietRun
<1>4. QED
  BY <1>2, <1>3

LEMMA MaxIdIs ==
  ASSUME EtlTypeOK
  PROVE  MaxId \in 0..MaxMovements /\ \A i \in Committed : i <= MaxId
<1>1. Committed \cup {0} \subseteq 0..MaxMovements /\ Committed \cup {0} # {}
  BY EtlAssumption DEF Committed, Ids
<1>2. Max(Committed \cup {0}) \in Committed \cup {0} /\ \A y \in Committed \cup {0} : Max(Committed \cup {0}) >= y
  BY <1>1, MaxOf, EtlAssumption
<1>3. QED
  BY <1>1, <1>2 DEF MaxId

\* A step with the lock that changes neither facts nor watermark.
LEMMA BusyRun ==
  ASSUME EtlInv, NEW r \in Runners, Running(r), NEW next \in Plan, run' = [run EXCEPT ![r] = next],
         UNCHANGED <<facts, stockDays, mark, lock, status, runs, shop>>,
         dates' \subseteq Days, dims' \subseteq 101..(100 + MaxProduct), PlanSound(next)'
  PROVE  EtlInv'
<1>1. lock = r
  BY DEF EtlInv
<1>2. EtlTypes
  BY DEF EtlTypes, EtlInv, EtlTypeOK, EtlStatuses
<1>3. HoldsLock(r, next)
  BY <1>1 DEF HoldsLock
<1>4. FactsMatchMovements'
  BY FactsKept
<1>5. QED
  BY <1>1, <1>2, <1>3, <1>4, RunFrame

LEMMA EtlPlanStep ==
  ASSUME EtlInv, NEW r \in Runners, EtlPlan(r)
  PROVE  EtlInv'
<1> USE EtlAssumption
<1>1. /\ run[r].pc = "plan" /\ UNCHANGED <<dates, dims, facts, stockDays, mark, runs, shop>>
      /\ EtlTypeOK /\ Running(r)
  BY DEF EtlPlan, EtlInv, Running
<1>2. run[r] \in Plan
  BY <1>1, PlanKind
<1>3. dates' \subseteq Days /\ dims' \subseteq 101..(100 + MaxProduct)
  BY <1>1 DEF EtlTypeOK
<1>4. Known' = Known /\ UNCHANGED <<moves, day, products>>
  BY <1>1 DEF Known, Committed, shop
<1>5. CASE End(r, "success")
  <2>1. "success" \in EtlStatuses
    BY DEF EtlStatuses
  <2>2. QED
    BY <1>1, <1>5, <2>1, EndStep
<1>6. CASE /\ ~run[r].full /\ MaxId > mark /\ UNCHANGED <<lock, status>>
           /\ run' = [run EXCEPT ![r].pc = "bounds", ![r].max = MaxId]
  <2> DEFINE next == [run[r] EXCEPT !.pc = "bounds", !.max = MaxId]
  <2>1. run' = [run EXCEPT ![r] = next]
    BY <1>6 DEF EtlInv, EtlTypeOK
  <2>2. MaxId \in 0..MaxMovements /\ mark \in 0..MaxMovements /\ MaxId \in -1..MaxMovements
    BY <1>1, MaxIdIs DEF EtlTypeOK
  <2>3. next \in Plan
    BY <1>2, <2>2 DEF Plan
  <2>4. next.pc = "bounds"
    BY <1>2 DEF Plan
  <2>5. next.max = MaxId
    BY <1>2 DEF Plan
  <2>6. next.full = run[r].full
    BY <1>2 DEF Plan
  <2> HIDE DEF next
  <2>7. PICK x \in Plan : x = next
    BY <2>3
  <2>8. mark' <= x.max
    BY <1>1, <1>6, <2>2, <2>5, <2>7
  <2>9. PlanSound(x)'
    BY <1>6, <2>4, <2>6, <2>7, <2>8 DEF PlanSound
  <2>10. QED
    BY <1>1, <1>3, <1>6, <2>1, <2>7, <2>9, BusyRun
<1>7. CASE /\ UNCHANGED <<lock, status>>
           /\ run' = [run EXCEPT ![r] = [@ EXCEPT !.pc = "bounds", !.full = TRUE,
                     !.first = IF Committed = {} THEN 1 ELSE Min(DaysOf(Committed)),
                     !.last = day]]
  <2> DEFINE low == IF Committed = {} THEN 1 ELSE Min(DaysOf(Committed))
             next == [run[r] EXCEPT !.pc = "bounds", !.full = TRUE, !.first = low, !.last = day]
  <2>1. run' = [run EXCEPT ![r] = next]
    BY <1>7 DEF EtlInv, EtlTypeOK
  <2>2. \A i \in Committed : i \in Ids /\ moves[i].day \in Days /\ moves[i].day <= day
    BY <1>1, KnownMoves DEF EtlInv, MovesSound
  <2>3. low \in Days /\ \A i \in Committed : low <= moves[i].day
    <3>1. CASE Committed = {}
      BY <3>1 DEF Days
    <3>2. CASE Committed # {}
      <4>1. DaysOf(Committed) \subseteq 0..MaxDay /\ DaysOf(Committed) # {} /\ MaxDay \in Nat
        BY <2>2, <3>2 DEF DaysOf, Days
      <4>2. /\ Min(DaysOf(Committed)) \in DaysOf(Committed)
            /\ \A y \in DaysOf(Committed) : Min(DaysOf(Committed)) <= y
        BY <4>1, MinOf
      <4>3. QED
        BY <2>2, <3>2, <4>2 DEF DaysOf
    <3>3. QED
      BY <3>1, <3>2
  <2> HIDE DEF low
  <2>4. day \in Days
    BY <1>1 DEF EtlTypeOK
  <2>5. next \in Plan
    BY <1>2, <2>3, <2>4 DEF Plan
  <2>6. next.pc = "bounds"
    BY <1>2 DEF Plan
  <2>7. next.first = low
    BY <1>2 DEF Plan
  <2>8. next.last = day
    BY <1>2 DEF Plan
  <2>9. next.full = TRUE
    BY <1>2 DEF Plan
  <2> HIDE DEF next
  <2>10. PICK x \in Plan : x = next
    BY <2>5
  <2>11. \A i \in Known : moves[i].day \in low..day
    BY <2>2, <2>3, <2>4 DEF Known, Days
  <2>12. \A i \in Known' : Reached(x, i)'
    BY <1>4, <2>7, <2>8, <2>10, <2>11 DEF Reached
  <2>13. PlanSound(x)'
    BY <2>6, <2>9, <2>10, <2>12 DEF PlanSound
  <2>14. QED
    BY <1>1, <1>3, <1>7, <2>1, <2>10, <2>13, BusyRun
<1>8. QED
  BY <1>5, <1>6, <1>7 DEF EtlPlan

LEMMA EtlBoundsStep ==
  ASSUME EtlInv, NEW r \in Runners, EtlBounds(r)
  PROVE  EtlInv'
<1> USE EtlAssumption
<1> DEFINE fresh == {i \in Committed : i > mark}
<1>1. /\ run[r].pc = "bounds" /\ UNCHANGED <<dates, dims, facts, stockDays, mark, lock, status, runs, shop>>
      /\ EtlTypeOK /\ Running(r) /\ PlanSound(run[r])
  BY DEF EtlBounds, EtlInv, Running
<1>2. run[r] \in Plan
  BY <1>1, PlanKind
<1>3. dates' \subseteq Days /\ dims' \subseteq 101..(100 + MaxProduct)
  BY <1>1 DEF EtlTypeOK
<1>4. Known' = Known /\ UNCHANGED <<moves, day, products, mark>>
  BY <1>1 DEF Known, Committed, shop
<1>5. CASE run[r].full
  <2> DEFINE next == [run[r] EXCEPT !.pc = "dates", !.max = MaxId]
  <2>1. run' = [run EXCEPT ![r] = next]
    BY <1>5 DEF EtlBounds, EtlInv, EtlTypeOK
  <2>2. MaxId \in 0..MaxMovements /\ MaxId \in -1..MaxMovements
    BY <1>1, MaxIdIs
  <2>3. next \in Plan
    BY <1>2, <2>2 DEF Plan
  <2>4. next.pc = "dates"
    BY <1>2 DEF Plan
  <2>5. next.max = MaxId
    BY <1>2 DEF Plan
  <2>6. next.full = run[r].full /\ next.first = run[r].first /\ next.last = run[r].last
    BY <1>2 DEF Plan
  <2> HIDE DEF next
  <2>7. PICK x \in Plan : x = next
    BY <2>3
  <2>8. 0 <= x.max
    BY <2>2, <2>5, <2>7
  <2>9. \A i \in Known' : Reached(x, i)'
    BY <1>1, <1>4, <1>5, <2>6, <2>7 DEF PlanSound, Reached
  <2>10. PlanSound(x)'
    BY <1>5, <2>4, <2>6, <2>7, <2>8, <2>9 DEF PlanSound, Recounts
  <2>11. QED
    BY <1>1, <1>3, <2>1, <2>7, <2>10, BusyRun
<1>6. CASE ~run[r].full
  <2> DEFINE S == DaysOf(fresh) \cup {day}
             next == [run[r] EXCEPT !.pc = "dates", !.first = Min(S), !.last = Max(S)]
  <2>1. run' = [run EXCEPT ![r] = next]
    BY <1>6 DEF EtlBounds, EtlInv, EtlTypeOK
  <2>2. \A i \in Committed : i \in Ids /\ i \in Nat /\ moves[i].day \in Days
    BY <1>1, KnownMoves
  <2>3. day \in Days /\ mark \in Nat
    BY <1>1 DEF EtlTypeOK
  <2>4. S \subseteq Days /\ S # {} /\ \A i \in fresh : moves[i].day \in S
    BY <2>2, <2>3 DEF DaysOf
  <2> HIDE DEF S
  <2>5. S \subseteq 0..MaxDay /\ MaxDay \in Nat
    BY <2>4 DEF Days
  <2>6. /\ Min(S) \in S /\ \A y \in S : Min(S) <= y
        /\ Max(S) \in S /\ \A y \in S : Max(S) >= y
    BY <2>4, <2>5, MinOf, MaxOf
  <2>7. next \in Plan
    BY <1>2, <2>4, <2>6 DEF Plan
  <2>8. next.pc = "dates"
    BY <1>2 DEF Plan
  <2>9. next.first = Min(S)
    BY <1>2 DEF Plan
  <2>10. next.last = Max(S)
    BY <1>2 DEF Plan
  <2>11. next.full = run[r].full /\ next.max = run[r].max
    BY <1>2 DEF Plan
  <2> HIDE DEF next
  <2>12. PICK x \in Plan : x = next
    BY <2>7
  <2>13. \A y \in S : y \in x.first..x.last
    BY <2>5, <2>6, <2>9, <2>10, <2>12
  <2>14. mark <= x.max /\ 0 <= x.max
    <3>1. mark <= run[r].max
      BY <1>1, <1>6 DEF PlanSound
    <3>2. run[r].max \in Int
      BY <1>2 DEF Plan
    <3>3. QED
      BY <2>3, <2>11, <2>12, <3>1, <3>2
  <2>15. \A i \in Known' : Recounts(x, i)'
    <3>1. \A i \in Known : i \in fresh \/ i <= mark
      BY <2>2, <2>3 DEF Known
    <3>2. QED
      BY <1>4, <1>6, <2>4, <2>11, <2>12, <2>13, <3>1 DEF Recounts, Reached
  <2>16. PlanSound(x)'
    BY <1>4, <1>6, <2>8, <2>11, <2>12, <2>14, <2>15 DEF PlanSound
  <2>17. QED
    BY <1>1, <1>3, <2>1, <2>12, <2>16, BusyRun
<1>7. QED
  BY <1>5, <1>6

\* A run with the lock goes from one stage to the next.
LEMMA GoesOn ==
  ASSUME EtlInv, NEW r \in Runners, Running(r), NEW pc \in {"dims", "facts", "stock", "last"},
         Goto(r, pc)
  PROVE  \E x \in Plan : /\ run' = [run EXCEPT ![r] = x] /\ x.pc = pc /\ x.full = run[r].full
                         /\ x.first = run[r].first /\ x.last = run[r].last /\ x.max = run[r].max
<1> DEFINE next == [run[r] EXCEPT !.pc = pc]
<1>1. run[r] \in Plan
  BY PlanKind DEF EtlInv, Running
<1>2. run' = [run EXCEPT ![r] = next]
  BY DEF Goto, EtlInv, EtlTypeOK
<1>3. /\ next \in Plan /\ next.pc = pc /\ next.full = run[r].full /\ next.first = run[r].first
      /\ next.last = run[r].last /\ next.max = run[r].max
  BY <1>1 DEF Plan
<1> HIDE DEF next
<1>4. QED
  BY <1>2, <1>3

LEMMA RunDaysAreDays ==
  ASSUME EtlInv, NEW r \in Runners, Running(r)
  PROVE  RunDays(r) \subseteq Days /\ 1..run[r].last \subseteq Days /\ run[r].full \in BOOLEAN
<1>1. run[r] \in Plan
  BY PlanKind DEF EtlInv, Running
<1>2. run[r].first \in Days /\ run[r].last \in Days /\ run[r].full \in BOOLEAN
  BY <1>1 DEF Plan
<1>3. QED
  BY <1>2, EtlAssumption DEF RunDays, Days

LEMMA StageDatesStep ==
  ASSUME EtlInv, NEW r \in Runners, StageDates(r)
  PROVE  EtlInv'
<1> USE EtlAssumption
<1>1. /\ run[r].pc = "dates" /\ Goto(r, "dims") /\ UNCHANGED <<lock, status, runs, shop>>
      /\ Running(r) /\ PlanSound(run[r]) /\ EtlTypeOK /\ lock = r
  BY DEF StageDates, Running, EtlInv
<1>2. PICK x \in Plan : /\ run' = [run EXCEPT ![r] = x] /\ x.pc = "dims" /\ x.full = run[r].full
                        /\ x.first = run[r].first /\ x.last = run[r].last /\ x.max = run[r].max
  BY <1>1, GoesOn
<1>3. Known' = Known /\ UNCHANGED moves
  BY <1>1 DEF Known, Committed, shop
<1>4. 0 <= x.max /\ \A i \in Known : i <= x.max => Recounts(run[r], i)
  BY <1>1, <1>2 DEF PlanSound
<1>5. CASE run[r].full
  <2>1. /\ dates' = RunDays(r) /\ dims' = {} /\ mark' = 0
        /\ facts' = [d \in Days |-> {}] /\ stockDays' = {}
    BY <1>5 DEF StageDates
  <2>2. 0 \in 0..MaxMovements
    OBVIOUS
  <2>3. EtlTypes
    BY <1>1, <2>1, <2>2, RunDaysAreDays DEF EtlTypes, EtlTypeOK, EtlStatuses
  <2>4. HoldsLock(r, x)
    BY <1>1 DEF HoldsLock
  <2>5. \A i \in Known' : i <= x.max => Recounts(x, i)'
    BY <1>2, <1>3, <1>4, <1>5 DEF Recounts, Reached
  <2>6. PlanSound(x)'
    BY <1>2, <1>4, <2>1, <2>5 DEF PlanSound
  <2>7. FactsMatchMovements'
    <3>1. \A i \in Committed' : i \in Nat /\ ~(i <= 0)
      BY DEF Committed, Ids
    <3>2. QED
      BY <2>1, <3>1 DEF FactsMatchMovements, WatermarkCovered, FactsAreMovements
  <2>8. QED
    BY <1>1, <1>2, <2>3, <2>4, <2>6, <2>7, RunFrame
<1>6. CASE ~run[r].full
  <2>1. dates' = dates \cup RunDays(r) /\ UNCHANGED <<dims, facts, stockDays, mark>>
    BY <1>6 DEF StageDates
  <2>2. dates' \subseteq Days /\ dims' \subseteq 101..(100 + MaxProduct)
    BY <1>1, <2>1, RunDaysAreDays DEF EtlTypeOK
  <2>3. \A i \in Known' : i <= x.max => Recounts(x, i)'
    BY <1>2, <1>3, <1>4, <2>1 DEF Recounts, Reached
  <2>4. mark' <= x.max
    BY <1>1, <1>2, <1>6, <2>1 DEF PlanSound
  <2>5. PlanSound(x)'
    BY <1>2, <1>4, <2>3, <2>4 DEF PlanSound
  <2>6. QED
    BY <1>1, <1>2, <2>1, <2>2, <2>5, BusyRun
<1>7. QED
  BY <1>5, <1>6

LEMMA StageDimsStep ==
  ASSUME EtlInv, NEW r \in Runners, StageDims(r)
  PROVE  EtlInv'
<1> USE EtlAssumption
<1>1. /\ run[r].pc = "dims" /\ Goto(r, "facts") /\ dims' = dims \cup {Sku(p) : p \in 1..products}
      /\ UNCHANGED <<dates, facts, stockDays, mark, lock, status, runs, shop>>
      /\ Running(r) /\ PlanSound(run[r]) /\ EtlTypeOK
  BY DEF StageDims, Running, EtlInv
<1>2. PICK x \in Plan : /\ run' = [run EXCEPT ![r] = x] /\ x.pc = "facts" /\ x.full = run[r].full
                        /\ x.first = run[r].first /\ x.last = run[r].last /\ x.max = run[r].max
  BY <1>1, GoesOn
<1>3. Known' = Known /\ UNCHANGED moves
  BY <1>1 DEF Known, Committed, shop
<1>4. {Sku(p) : p \in 1..products} \subseteq 101..(100 + MaxProduct)
  BY <1>1 DEF EtlTypeOK, Sku
<1>5. dates' \subseteq Days /\ dims' \subseteq 101..(100 + MaxProduct)
  BY <1>1, <1>4 DEF EtlTypeOK
<1>6. \A i \in Known : moves[i].product \in 1..products
  BY <1>1, KnownMoves DEF EtlInv, MovesSound, EtlTypeOK
<1>7. \A i \in Known' : Sku(moves'[i].product) \in dims'
  BY <1>1, <1>3, <1>6
<1>8. /\ mark' <= x.max /\ 0 <= x.max
      /\ \A i \in Known' : i <= x.max => Recounts(x, i)'
  BY <1>1, <1>2, <1>3 DEF PlanSound, Recounts, Reached
<1>9. PlanSound(x)'
  BY <1>2, <1>7, <1>8 DEF PlanSound
<1>10. QED
  BY <1>1, <1>2, <1>5, <1>9, BusyRun

LEMMA StageFactsStep ==
  ASSUME EtlInv, NEW r \in Runners, StageFacts(r)
  PROVE  EtlInv'
<1> USE EtlAssumption
<1>1. /\ run[r].pc = "facts" /\ Goto(r, "stock")
      /\ facts' = [d \in Days |-> IF d \in RunDays(r) THEN Aggregate(d) ELSE facts[d]]
      /\ UNCHANGED <<dates, dims, stockDays, mark, lock, status, runs, shop>>
      /\ Running(r) /\ PlanSound(run[r]) /\ EtlTypeOK /\ lock = r
  BY DEF StageFacts, Running, EtlInv
<1>2. PICK x \in Plan : /\ run' = [run EXCEPT ![r] = x] /\ x.pc = "stock" /\ x.full = run[r].full
                        /\ x.first = run[r].first /\ x.last = run[r].last /\ x.max = run[r].max
  BY <1>1, GoesOn
<1>3. Known' = Known /\ Committed' = Committed /\ UNCHANGED moves
  BY <1>1 DEF Known, Committed, shop
<1>4. facts' \in [Days -> SUBSET Ids]
  BY <1>1 DEF EtlTypeOK, Aggregate, Committed
<1>5. EtlTypes
  BY <1>1, <1>4 DEF EtlTypes, EtlTypeOK, EtlStatuses
<1>6. HoldsLock(r, x)
  BY <1>1 DEF HoldsLock
<1>7. mark <= x.max /\ 0 <= x.max
  BY <1>1, <1>2 DEF PlanSound
<1>8. ASSUME NEW i \in Known, i <= x.max
      PROVE  i \in facts'[moves[i].day]
  <2>1. moves[i].day \in Days /\ i \in Committed
    BY <1>1, KnownMoves
  <2>2. Recounts(run[r], i) /\ Sku(moves[i].product) \in dims
    BY <1>1, <1>2, <1>8 DEF PlanSound
  <2>3. CASE moves[i].day \in RunDays(r)
    BY <1>1, <2>1, <2>2, <2>3 DEF Aggregate
  <2>4. CASE moves[i].day \notin RunDays(r)
    <3>1. i <= mark
      BY <2>2, <2>4 DEF Recounts, Reached, RunDays
    <3>2. i \in facts[moves[i].day]
      BY <3>1 DEF EtlInv, FactsMatchMovements, WatermarkCovered, Known
    <3>3. QED
      BY <1>1, <2>1, <2>4, <3>2
  <2>5. QED
    BY <2>3, <2>4
<1>9. PlanSound(x)'
  BY <1>1, <1>2, <1>3, <1>7, <1>8 DEF PlanSound
<1>10. WatermarkCovered'
  <2>1. SUFFICES ASSUME NEW i \in Known, i <= mark
                 PROVE  i \in facts'[moves[i].day]
    BY <1>1, <1>3 DEF WatermarkCovered, Known
  <2>2. i \in Nat /\ mark \in Nat /\ x.max \in Int
    BY <1>1, KnownMoves DEF EtlTypeOK, Plan
  <2>3. i <= x.max
    BY <1>7, <2>1, <2>2
  <2>4. QED
    BY <1>8, <2>3
<1>11. FactsAreMovements'
  <2>1. ASSUME NEW d \in Days
        PROVE  facts'[d] \subseteq {i \in Committed : moves[i].day = d}
    <3>1. facts[d] \subseteq {i \in Committed : moves[i].day = d}
      BY DEF EtlInv, FactsMatchMovements, FactsAreMovements
    <3>2. Aggregate(d) \subseteq {i \in Committed : moves[i].day = d}
      BY DEF Aggregate
    <3>3. QED
      BY <1>1, <3>1, <3>2
  <2>2. QED
    BY <1>3, <2>1 DEF FactsAreMovements
<1>12. QED
  BY <1>1, <1>2, <1>5, <1>6, <1>9, <1>10, <1>11, RunFrame DEF FactsMatchMovements

LEMMA StageStockStep ==
  ASSUME EtlInv, NEW r \in Runners, StageStock(r)
  PROVE  EtlInv'
<1> USE EtlAssumption
<1> DEFINE span == IF run[r].full THEN 1..run[r].last ELSE RunDays(r)
<1>1. /\ run[r].pc = "stock" /\ Goto(r, "last") /\ mark' = run[r].max
      /\ (stockDays' = stockDays \cup span \/ stockDays' = stockDays \ span)
      /\ UNCHANGED <<dates, dims, facts, lock, status, runs, shop>>
      /\ Running(r) /\ PlanSound(run[r]) /\ EtlTypeOK /\ lock = r
  BY DEF StageStock, Running, EtlInv
<1>2. PICK x \in Plan : /\ run' = [run EXCEPT ![r] = x] /\ x.pc = "last" /\ x.full = run[r].full
                        /\ x.first = run[r].first /\ x.last = run[r].last /\ x.max = run[r].max
  BY <1>1, GoesOn
<1>3. span \subseteq Days
  BY <1>1, RunDaysAreDays
<1> HIDE DEF span
<1>4. mark' \in 0..MaxMovements
  <2>1. run[r] \in Plan /\ 0 <= run[r].max
    BY <1>1, PlanKind DEF PlanSound
  <2>2. run[r].max \in -1..MaxMovements
    BY <2>1 DEF Plan
  <2>3. QED
    BY <1>1, <2>1, <2>2
<1>5. stockDays' \subseteq Days
  BY <1>1, <1>3 DEF EtlTypeOK
<1>6. EtlTypes
  BY <1>1, <1>4, <1>5 DEF EtlTypes, EtlTypeOK, EtlStatuses
<1>7. HoldsLock(r, x)
  BY <1>1 DEF HoldsLock
<1>8. PlanSound(x)'
  BY <1>2 DEF PlanSound
<1>9. Known' = Known /\ Committed' = Committed /\ UNCHANGED <<moves, facts>>
  BY <1>1 DEF Known, Committed, shop
<1>10. WatermarkCovered'
  BY <1>1, <1>9 DEF PlanSound, WatermarkCovered, Known
<1>11. FactsAreMovements'
  BY <1>9 DEF EtlInv, FactsMatchMovements, FactsAreMovements
<1>12. QED
  BY <1>1, <1>2, <1>6, <1>7, <1>8, <1>10, <1>11, RunFrame DEF FactsMatchMovements

LEMMA EtlEnds ==
  ASSUME EtlInv, NEW r \in Runners, EtlFinish(r) \/ EtlFail(r) \/ EtlDie(r)
  PROVE  EtlInv'
<1>1. UNCHANGED <<dates, dims, facts, stockDays, mark, runs, shop>>
  BY DEF EtlFinish, EtlFail, EtlDie
<1>2. PICK outcome \in EtlStatuses : End(r, outcome)
  <2>1. status \in EtlStatuses /\ "success" \in EtlStatuses /\ "failed" \in EtlStatuses
    BY DEF EtlInv, EtlTypeOK, EtlStatuses
  <2>2. QED
    BY <2>1 DEF EtlFinish, EtlFail, EtlDie
<1>3. QED
  BY <1>1, <1>2, EndStep

LEMMA EtlStarts == EtlInit => EtlInv
<1> USE EtlAssumption
<1>1. SUFFICES ASSUME EtlInit
               PROVE  EtlInv
  OBVIOUS
<1>2. 1 \in Days /\ 1 \in 1..MaxProduct /\ 0 \in 0..MaxMovements /\ 0 \in 0..MaxRuns
  BY DEF Days
<1>3. NoMove \in [st : {"none", "open", "done", "gone"}, day : Days, product : 1..MaxProduct]
      /\ NoMove.st = "none"
  BY <1>2 DEF NoMove
<1>4. moves \in [Ids -> [st : {"none", "open", "done", "gone"}, day : Days, product : 1..MaxProduct]]
  BY <1>1, <1>3 DEF EtlInit
<1>5. run \in [Runners -> Plan \cup {Idle}] /\ facts \in [Days -> SUBSET Ids]
  BY <1>1 DEF EtlInit
<1>6. EtlTypeOK
  BY <1>1, <1>2, <1>4, <1>5 DEF EtlInit, EtlTypeOK
<1>7. Allocated = 1..0 /\ Committed = {} /\ 0 \in Nat
  BY <1>1, <1>3 DEF EtlInit, Allocated, Committed
<1>8. MovesSound
  BY <1>7 DEF MovesSound
<1>9. FactsMatchMovements
  BY <1>1, <1>7 DEF EtlInit, FactsMatchMovements, WatermarkCovered, FactsAreMovements
<1>10. \A r \in Runners : (Running(r) => lock = r) /\ PlanSound(run[r])
  BY <1>1 DEF EtlInit, Idle, Running, PlanSound
<1>11. QED
  BY <1>6, <1>8, <1>9, <1>10 DEF EtlInv

\* Movements, runs of run_etl, their failures and deaths keep the invariant.
THEOREM EtlInvariance == EtlSpec => []EtlInv
<1>1. ASSUME EtlInv, [EtlNext]_etlVars
      PROVE  EtlInv'
  <2>1. CASE UNCHANGED etlVars
    <3>1. UNCHANGED etl /\ UNCHANGED shop
      BY <2>1 DEF etlVars, etl, shop
    <3>2. Committed' = Committed /\ Known' = Known /\ EtlTypeOK' /\ MovesSound'
      BY <1>1, <2>1 DEF etlVars, EtlInv, EtlTypeOK, MovesSound, Allocated, Committed, Known
    <3>3. QED
      BY <1>1, <3>1, <3>2, ShopFrame DEF shop
  <2>2. CASE \E p \in 1..products : MoveInsert(p)
    BY <1>1, <2>2, MoveInsertStep
  <2>3. CASE \E i \in Ids : MoveCommit(i) \/ MoveRollback(i)
    BY <1>1, <2>3, MoveCommitStep, MoveRollbackStep
  <2>4. CASE NewProduct \/ NextDay
    BY <1>1, <2>4, NewProductStep, NextDayStep
  <2>5. ASSUME NEW r \in Runners, NEW force \in BOOLEAN, EtlStart(r, force)
        PROVE  EtlInv'
    BY <1>1, <2>5, EtlStartStep
  <2>6. ASSUME NEW r \in Runners, EtlStep(r) \/ EtlFail(r) \/ EtlDie(r)
        PROVE  EtlInv'
    <3>1. CASE EtlLock(r) \/ EtlPlan(r) \/ EtlBounds(r)
      BY <1>1, <3>1, EtlLockStep, EtlPlanStep, EtlBoundsStep
    <3>2. CASE StageDates(r) \/ StageDims(r) \/ StageFacts(r) \/ StageStock(r)
      BY <1>1, <3>2, StageDatesStep, StageDimsStep, StageFactsStep, StageStockStep
    <3>3. CASE EtlFinish(r) \/ EtlFail(r) \/ EtlDie(r)
      BY <1>1, <3>3, EtlEnds
    <3>4. QED
      BY <2>6, <3>1, <3>2, <3>3 DEF EtlStep
  <2>7. QED
    BY <1>1, <2>1, <2>2, <2>3, <2>4, <2>5, <2>6 DEF EtlNext
<1>2. QED
  BY <1>1, EtlStarts, PTL DEF EtlSpec

\* The star schema counts the movements up to its watermark, each once and on
\* its day, and no others, in whichever stage a run stops and whoever runs
\* next; only a movement that committed behind a watermark already chosen may
\* be missing.
THEOREM FactsCounted == EtlSpec => []FactsMatchMovements
<1>1. EtlInv => FactsMatchMovements
  BY DEF EtlInv
<1>2. QED
  BY <1>1, EtlInvariance, PTL

-----------------------------------------------------------------------------
(* etl_full_build                                                            *)

Version == [val : 1..MaxAttr, cur : BOOLEAN]
Build   == [pc : BuildPcs, full : BOOLEAN, shut : [Entities -> SUBSET Nat],
            new : [Entities -> Seq(Version)], logins : SUBSET AuditIds, newMark : 0..MaxAudit,
            days : [AuditDays -> SUBSET AuditIds], began : AuditDays]
AuditRow == [st : {"none", "open", "done"}, user : WUsers, day : AuditDays]

WarehouseShape ==
  /\ source \in [Entities -> 0..MaxAttr] /\ scd \in [Entities -> Seq(Version)]
  /\ audit \in [AuditIds -> AuditRow] /\ auditDay \in AuditDays
  /\ auditFacts \in [AuditDays -> SUBSET AuditIds] /\ auditMark \in 0..MaxAuditDay
  /\ loginFacts \subseteq AuditIds /\ loginMark \in 0..MaxAudit
  /\ wlock \in Builders \cup {NoBuilder} /\ build \in [Builders -> Build \cup {NoBuild}]
  /\ builds \in 0..MaxBuilds /\ late \subseteq AuditIds

Drawn == {j \in AuditIds : audit[j].st # "none"}

\* Positions are given in order, and whoever is in the log is a user.
AuditSound ==
  /\ \E n \in Nat : Drawn = 1..n
  /\ \A i \in Drawn : source[audit[i].user] > 0

\* The events that a build has to account for.
Events == {i \in AuditIds \ late : audit[i].st = "done"}

LoadPcs          == {"login", "loginmark", "audit", "commit"}
AfterWarehouses  == {"closeuser", "insertuser"} \cup LoadPcs
AfterSuppliers   == {"closewarehouse", "insertwarehouse"} \cup AfterWarehouses
AfterProducts    == {"closesupplier", "insertsupplier"} \cup AfterSuppliers

\* The dimension of this kind has got its new rows.
Merged(pc, kind) ==
  \/ kind = "product" /\ pc \in AfterProducts
  \/ kind = "supplier" /\ pc \in AfterSuppliers
  \/ kind = "warehouse" /\ pc \in AfterWarehouses
  \/ kind = "user" /\ pc \in LoadPcs

\* A build closes current versions of rows that exist, and inserts one version
\* where it leaves none: where it has closed one, it does insert.
VersionsSound(x, e) ==
  /\ \A i \in x.shut[e] : i \in DOMAIN scd[e] /\ scd[e][i].cur
  /\ x.shut[e] # {} => source[e] > 0
  /\ \/ x.new[e] = <<>>
     \/ /\ Merged(x.pc, Kind[e]) /\ Len(x.new[e]) = 1 /\ x.new[e][1].cur
        /\ \A i \in DOMAIN scd[e] : scd[e][i].cur => i \in x.shut[e]
  /\ Merged(x.pc, Kind[e]) /\ x.new[e] = <<>> => x.shut[e] = {}

\* What the build will leave as current.
Current(x, e) == x.new[e] # <<>> \/ \E i \in DOMAIN scd[e] : scd[e][i].cur /\ i \notin x.shut[e]

Blank(x) == \A e \in Entities : x.shut[e] = {} /\ x.new[e] = <<>>

BuildSound(x) ==
  /\ x.pc = "lock" => Blank(x)
  /\ x.pc \notin {"idle", "lock"} => \A e \in Entities : VersionsSound(x, e)
  /\ x.pc \in LoadPcs => \A i \in Events : Current(x, audit[i].user)
  /\ x.pc \in {"loginmark", "audit", "commit"} => \A i \in Events : i > loginMark => i \in x.logins
  /\ x.pc = "commit" => \A i \in Events : i \in x.days[audit[i].day]

AtWork(r) == build[r].pc \notin {"idle", "lock"}

WarehouseInv ==
  /\ WarehouseShape /\ AuditSound /\ LastVersionIsCurrent /\ WatermarksCovered
  /\ \A r \in Builders : (AtWork(r) => wlock = r) /\ BuildSound(build[r])

LEMMA BuildKind ==
  ASSUME WarehouseShape, NEW r \in Builders
  PROVE  /\ build[r].pc # "idle" => build[r] \in Build
         /\ build[r] = NoBuild => build[r].pc = "idle"
         /\ NoBuild.pc = "idle"
BY DEF WarehouseShape, NoBuild

LEMMA EventRows ==
  ASSUME WarehouseShape
  PROVE  /\ Events \subseteq Drawn /\ Drawn \subseteq AuditIds
         /\ \A i \in AuditIds : /\ i \in Nat /\ audit[i].user \in WUsers /\ audit[i].user \in Entities
                                /\ audit[i].day \in AuditDays
<1>1. \A i \in AuditIds : audit[i] \in AuditRow
  BY DEF WarehouseShape
<1>2. \A i \in AuditIds : audit[i].user \in WUsers /\ audit[i].day \in AuditDays
  BY <1>1 DEF AuditRow
<1>3. QED
  BY <1>2, WarehouseAssumption DEF Events, Drawn, AuditIds, WUsers

\* The operational tables change: an event that becomes known lies outside
\* of what was loaded, and no build is at work.
LEMMA OpsFrame ==
  ASSUME WarehouseInv, UNCHANGED <<facts_, scd, wlock, build, builds>>,
         WarehouseShape', AuditSound', \A e \in Entities : source[e] > 0 => source'[e] > 0,
         \A i \in Events : audit'[i].user = audit[i].user /\ audit'[i].day = audit[i].day,
         \A i \in Events' : \/ i \in Events
                            \/ ~Building /\ ~(i <= loginMark) /\ ~(audit'[i].day < auditMark)
  PROVE  WarehouseInv'
<1> USE DEF facts_
<1>1. LastVersionIsCurrent'
  BY DEF WarehouseInv, LastVersionIsCurrent
<1>2. WatermarksCovered'
  BY DEF WarehouseInv, WatermarksCovered, LoginEventsLoaded, ClosedDaysComplete, Events
<1>3. ASSUME NEW r \in Builders
      PROVE  (AtWork(r) => wlock = r)' /\ BuildSound(build[r])'
  <2>1. PICK x : x = build[r]
    OBVIOUS
  <2>2. BuildSound(x) /\ (AtWork(r) => wlock = r) /\ build'[r] = x
    BY <2>1 DEF WarehouseInv
  <2>3. x.pc \notin {"idle", "lock"} => \A i \in Events' : i \in Events
    BY <2>1 DEF Building
  <2>4. \A e \in Entities : VersionsSound(x, e) => VersionsSound(x, e)'
    BY DEF VersionsSound
  <2>5. \A e : Current(x, e)' = Current(x, e)
    BY DEF Current
  <2>6. BuildSound(x)'
    BY <2>2, <2>3, <2>4, <2>5 DEF BuildSound, Blank, LoadPcs
  <2>7. QED
    BY <2>1, <2>2, <2>6 DEF AtWork
<1>4. QED
  BY <1>1, <1>2, <1>3 DEF WarehouseInv

LEMMA ChangeRowStep ==
  ASSUME WarehouseInv, NEW e \in Entities, ChangeRow(e)
  PROVE  WarehouseInv'
<1> USE WarehouseAssumption
<1>1. /\ source[e] < MaxAttr /\ source' = [source EXCEPT ![e] = source[e] + 1]
      /\ UNCHANGED <<audit, auditDay, late, facts_, scd, wlock, build, builds>>
  BY DEF ChangeRow
<1>2. source \in [Entities -> 0..MaxAttr]
  BY DEF WarehouseInv, WarehouseShape
<1>3. source' \in [Entities -> 0..MaxAttr] /\ \A f \in Entities : source[f] > 0 => source'[f] > 0
  BY <1>1, <1>2
<1>4. WarehouseShape'
  BY <1>1, <1>3 DEF WarehouseInv, WarehouseShape, facts_
<1>5. Drawn' = Drawn /\ Events' = Events
  BY <1>1 DEF Drawn, Events
<1>6. \A i \in Drawn : audit[i].user \in Entities
  BY EventRows DEF WarehouseInv
<1>7. AuditSound'
  BY <1>1, <1>3, <1>5, <1>6 DEF WarehouseInv, AuditSound
<1>8. QED
  BY <1>1, <1>3, <1>4, <1>5, <1>7, OpsFrame

LEMMA AuditInsertStep ==
  ASSUME WarehouseInv, NEW u \in WUsers, AuditInsert(u)
  PROVE  WarehouseInv'
<1> USE WarehouseAssumption
<1> DEFINE m == [st |-> "open", user |-> u, day |-> auditDay]
<1>1. PICK n \in Nat : Drawn = 1..n
  BY DEF WarehouseInv, AuditSound
<1>2. Cardinality(1..n) = n
  BY FS_Interval
<1>3. PICK i \in AuditIds : i = n + 1
  BY <1>1, <1>2 DEF AuditInsert, Drawn
<1>4. /\ audit' = [audit EXCEPT ![i] = m] /\ source[u] > 0
      /\ UNCHANGED <<source, auditDay, late, facts_, scd, wlock, build, builds>>
  BY <1>1, <1>2, <1>3 DEF AuditInsert, Drawn
<1>5. m \in AuditRow /\ m.st = "open" /\ m.user = u
  BY DEF WarehouseInv, WarehouseShape, AuditRow
<1> HIDE DEF m
<1>6. /\ audit' \in [AuditIds -> AuditRow] /\ audit'[i] = m
      /\ \A j \in AuditIds : j # i => audit'[j] = audit[j]
  BY <1>4, <1>5 DEF WarehouseInv, WarehouseShape
<1>7. i \notin Drawn
  BY <1>1, <1>3
<1>8. Drawn' = Drawn \cup {i} /\ Events' = Events /\ i \notin Events
  BY <1>4, <1>5, <1>6, <1>7 DEF Drawn, Events
<1>9. Drawn' = 1..(n + 1) /\ n + 1 \in Nat
  BY <1>1, <1>3, <1>8
<1>10. \A j \in Drawn' : source'[audit'[j].user] > 0
  BY <1>4, <1>5, <1>6, <1>7, <1>8 DEF WarehouseInv, AuditSound, Drawn
<1>11. AuditSound'
  BY <1>9, <1>10 DEF AuditSound
<1>12. WarehouseShape'
  BY <1>4, <1>6 DEF WarehouseInv, WarehouseShape, facts_
<1>13. \A j \in Events : audit'[j] = audit[j]
  BY <1>6, <1>8 DEF Events
<1>14. QED
  BY <1>4, <1>8, <1>11, <1>12, <1>13, OpsFrame

LEMMA AuditCommitStep ==
  ASSUME WarehouseInv, NEW i \in AuditIds, AuditCommit(i)
  PROVE  WarehouseInv'
<1> DEFINE m == [audit[i] EXCEPT !.st = "done"]
<1>1. /\ audit[i].st = "open" /\ audit' = [audit EXCEPT ![i].st = "done"]
      /\ late' = (IF Building \/ i <= loginMark \/ audit[i].day < auditMark THEN late \cup {i} ELSE late)
      /\ UNCHANGED <<source, auditDay, facts_, scd, wlock, build, builds>>
  BY DEF AuditCommit
<1>2. audit \in [AuditIds -> AuditRow]
  BY DEF WarehouseInv, WarehouseShape
<1>3. m \in AuditRow /\ m.st = "done" /\ m.user = audit[i].user /\ m.day = audit[i].day
  BY <1>2 DEF AuditRow
<1>4. audit' = [audit EXCEPT ![i] = m]
  BY <1>1, <1>2
<1> HIDE DEF m
<1>5. /\ audit' \in [AuditIds -> AuditRow] /\ audit'[i] = m
      /\ \A j \in AuditIds : j # i => audit'[j] = audit[j]
  BY <1>2, <1>3, <1>4
<1>6. Drawn' = Drawn
  BY <1>1, <1>3, <1>5 DEF Drawn
<1>7. \A j \in AuditIds : audit'[j].user = audit[j].user /\ audit'[j].day = audit[j].day
  BY <1>3, <1>5
<1>8. AuditSound'
  BY <1>1, <1>6, <1>7 DEF WarehouseInv, AuditSound, Drawn
<1>9. WarehouseShape'
  <2>1. late' \subseteq AuditIds
    BY <1>1 DEF WarehouseInv, WarehouseShape
  <2>2. QED
    BY <1>1, <1>5, <2>1 DEF WarehouseInv, WarehouseShape, facts_
<1>10. \A j \in Events : j \in AuditIds
  BY DEF Events
<1>11. \A j \in Events' : j \in Events \/ j = i
  BY <1>1, <1>5 DEF Events
<1>12. i \in Events' => ~Building /\ ~(i <= loginMark) /\ ~(audit'[i].day < auditMark)
  BY <1>1, <1>7 DEF Events
<1>13. QED
  BY <1>1, <1>7, <1>8, <1>9, <1>10, <1>11, <1>12, OpsFrame

LEMMA MidnightStep ==
  ASSUME WarehouseInv, Midnight
  PROVE  WarehouseInv'
<1>1. /\ auditDay' = auditDay + 1 /\ auditDay < MaxAuditDay
      /\ UNCHANGED <<source, audit, late, facts_, scd, wlock, build, builds>>
  BY DEF Midnight
<1>2. auditDay' \in AuditDays
  BY <1>1, WarehouseAssumption DEF WarehouseInv, WarehouseShape, AuditDays
<1>3. WarehouseShape'
  BY <1>1, <1>2 DEF WarehouseInv, WarehouseShape, facts_
<1>4. Drawn' = Drawn /\ Events' = Events
  BY <1>1 DEF Drawn, Events
<1>5. AuditSound'
  BY <1>1, <1>4 DEF WarehouseInv, AuditSound
<1>6. QED
  BY <1>1, <1>3, <1>4, <1>5, OpsFrame

\* A builder gets on.
WarehouseTypes ==
  /\ scd' \in [Entities -> Seq(Version)]
  /\ auditFacts' \in [AuditDays -> SUBSET AuditIds] /\ auditMark' \in 0..MaxAuditDay
  /\ loginFacts' \subseteq AuditIds /\ loginMark' \in 0..MaxAudit
  /\ wlock' \in Builders \cup {NoBuilder} /\ builds' \in 0..MaxBuilds

KeepsTurn(r, next) ==
  /\ wlock' = wlock \/ wlock \in {r, NoBuilder}
  /\ next.pc \notin {"idle", "lock"} => wlock' = r

LEMMA BuildFrame ==
  ASSUME WarehouseInv, NEW r \in Builders, NEW next \in Build \cup {NoBuild},
         build' = [build EXCEPT ![r] = next], UNCHANGED ops, WarehouseTypes, KeepsTurn(r, next),
         UNCHANGED <<facts_, scd>> \/ wlock = r,
         BuildSound(next)', LastVersionIsCurrent', WatermarksCovered'
  PROVE  WarehouseInv'
<1> USE DEF ops
<1>1. WarehouseShape'
  BY DEF WarehouseInv, WarehouseShape, WarehouseTypes
<1>2. Events' = Events /\ Drawn' = Drawn
  BY DEF Events, Drawn
<1>3. AuditSound'
  BY <1>2 DEF WarehouseInv, AuditSound
<1>4. build'[r] = next /\ \A q \in Builders : q # r => build'[q] = build[q]
  BY DEF WarehouseInv, WarehouseShape
<1>5. ASSUME NEW q \in Builders
      PROVE  (AtWork(q) => wlock = q)' /\ BuildSound(build[q])'
  <2>1. CASE q = r
    <3>1. BuildSound(build[q])'
      BY <1>4, <2>1
    <3>2. QED
      BY <1>4, <2>1, <3>1 DEF KeepsTurn, AtWork
  <2>2. CASE q # r
    <3>1. PICK x : x = build[q]
      OBVIOUS
    <3>2. BuildSound(x) /\ (AtWork(q) => wlock = q) /\ build'[q] = x
      BY <1>4, <2>2, <3>1 DEF WarehouseInv
    <3>3. (AtWork(q) => wlock = q)'
      BY <2>2, <3>1, <3>2, WarehouseAssumption DEF KeepsTurn, AtWork
    <3>4. BuildSound(x)'
      <4>1. CASE UNCHANGED <<facts_, scd>>
        <5>1. \A e \in Entities : VersionsSound(x, e) => VersionsSound(x, e)'
          BY <4>1 DEF VersionsSound
        <5>2. \A e : Current(x, e)' = Current(x, e)
          BY <4>1 DEF Current
        <5>3. QED
          BY <1>2, <3>2, <4>1, <5>1, <5>2 DEF BuildSound, Blank, facts_
      <4>2. CASE wlock = r
        <5>1. x.pc \in {"idle", "lock"}
          BY <2>2, <3>1, <3>2, <4>2 DEF AtWork
        <5>2. QED
          BY <3>2, <5>1 DEF BuildSound, Blank, LoadPcs
      <4>3. QED
        BY <4>1, <4>2
    <3>5. QED
      BY <3>1, <3>2, <3>3, <3>4
  <2>3. QED
    BY <2>1, <2>2
<1>6. QED
  BY <1>1, <1>3, <1>5 DEF WarehouseInv

\* A step that only the builder itself sees.
LEMMA OwnStep ==
  ASSUME WarehouseInv, NEW r \in Builders, NEW next \in Build \cup {NoBuild},
         build' = [build EXCEPT ![r] = next], UNCHANGED <<ops, facts_, scd>>, KeepsTurn(r, next),
         wlock' \in Builders \cup {NoBuilder}, builds' \in 0..MaxBuilds, BuildSound(next)'
  PROVE  WarehouseInv'
<1>1. WarehouseTypes
  BY DEF WarehouseTypes, WarehouseInv, WarehouseShape, facts_
<1>2. LastVersionIsCurrent'
  BY DEF WarehouseInv, LastVersionIsCurrent
<1>3. WatermarksCovered'
  BY DEF WarehouseInv, WatermarksCovered, LoginEventsLoaded, ClosedDaysComplete, facts_, ops
<1>4. QED
  BY <1>1, <1>2, <1>3, BuildFrame

-----------------------------------------------------------------------------
(* The dimension as a builder sees it                                        *)

LEMMA ViewRows ==
  ASSUME WarehouseShape, NEW r \in Builders, build[r] \in Build, NEW e \in Entities
  PROVE  /\ View(r, e) \in Seq(Version) /\ scd[e] \in Seq(Version) /\ build[r].new[e] \in Seq(Version)
         /\ Len(View(r, e)) = Len(scd[e]) + Len(build[r].new[e])
         /\ \A i \in 1..Len(scd[e]) : View(r, e)[i].cur <=> (scd[e][i].cur /\ i \notin build[r].shut[e])
         /\ \A i \in (Len(scd[e]) + 1)..Len(View(r, e)) : View(r, e)[i] = build[r].new[e][i - Len(scd[e])]
<1> DEFINE old == [i \in DOMAIN scd[e] |-> [scd[e][i] EXCEPT !.cur = @ /\ i \notin build[r].shut[e]]]
           n == Len(scd[e])
<1>1. scd[e] \in Seq(Version) /\ n \in Nat /\ DOMAIN scd[e] = 1..n
  BY DEF WarehouseShape
<1>2. \A i \in 1..n : scd[e][i] \in Version
  BY <1>1
<1>3. \A i \in 1..n : /\ old[i] \in Version
                      /\ old[i].cur <=> (scd[e][i].cur /\ i \notin build[r].shut[e])
  BY <1>1, <1>2 DEF Version
<1>4. old \in [1..n -> Version]
  BY <1>1, <1>3
<1>5. old \in Seq(Version) /\ Len(old) = n
  BY <1>1, <1>4, SeqDef
<1>6. build[r].new[e] \in Seq(Version)
  BY DEF Build
<1>7. View(r, e) = old \o build[r].new[e]
  BY DEF View
<1> HIDE DEF old
<1>8. PICK a \in Seq(Version) : a = old
  BY <1>5
<1>9. PICK b \in Seq(Version) : b = build[r].new[e]
  BY <1>6
<1>10. /\ a \o b \in Seq(Version) /\ Len(a \o b) = n + Len(b) /\ Len(b) \in Nat
       /\ \A i \in 1..(n + Len(b)) : (a \o b)[i] = IF i <= n THEN a[i] ELSE b[i - n]
  <2>1. /\ a \o b \in Seq(Version) /\ Len(a \o b) = Len(a) + Len(b)
        /\ \A i \in 1..(Len(a) + Len(b)) : (a \o b)[i] = IF i <= Len(a) THEN a[i] ELSE b[i - Len(a)]
    BY ConcatProperties
  <2>2. Len(a) = n /\ Len(b) \in Nat
    BY <1>5, <1>8
  <2>3. QED
    BY <2>1, <2>2
<1>11. View(r, e) = a \o b
  BY <1>7, <1>8, <1>9
<1>12. \A i \in 1..n : View(r, e)[i] = old[i]
  BY <1>1, <1>8, <1>10, <1>11
<1>13. \A i \in (n + 1)..(n + Len(b)) : View(r, e)[i] = b[i - n]
  BY <1>1, <1>10, <1>11
<1>14. QED
  BY <1>1, <1>3, <1>6, <1>9, <1>10, <1>11, <1>12, <1>13

LEMMA ViewCurrent ==
  ASSUME WarehouseShape, NEW r \in Builders, build[r] \in Build, NEW e \in Entities,
         VersionsSound(build[r], e)
  PROVE  HasCurrent(r, e) <=> Current(build[r], e)
<1> DEFINE n == Len(scd[e])
           new == build[r].new[e]
           v == View(r, e)
<1>1. /\ v \in Seq(Version) /\ scd[e] \in Seq(Version) /\ new \in Seq(Version) /\ Len(v) = n + Len(new)
      /\ \A i \in 1..n : v[i].cur <=> (scd[e][i].cur /\ i \notin build[r].shut[e])
      /\ \A i \in (n + 1)..Len(v) : v[i] = new[i - n]
  BY ViewRows
<1>2. n \in Nat /\ Len(new) \in Nat /\ DOMAIN scd[e] = 1..n /\ DOMAIN v = 1..(n + Len(new))
  BY <1>1
<1>3. HasCurrent(r, e) <=> \E i \in DOMAIN v : v[i].cur
  BY DEF HasCurrent
<1>4. new = <<>> \/ (Len(new) = 1 /\ new[1].cur)
  BY DEF VersionsSound
<1> HIDE DEF v, new, n
<1>5. CASE new = <<>>
  <2>1. Len(new) = 0
    BY <1>5
  <2>2. DOMAIN v = DOMAIN scd[e]
    BY <1>2, <2>1
  <2>3. HasCurrent(r, e) <=> \E i \in DOMAIN scd[e] : scd[e][i].cur /\ i \notin build[r].shut[e]
    BY <1>1, <1>2, <1>3, <2>2
  <2>4. QED
    BY <1>5, <2>3 DEF Current, new
<1>6. CASE Len(new) = 1 /\ new[1].cur
  <2>1. n + 1 \in DOMAIN v /\ v[n + 1] = new[1] /\ new # <<>>
    <3>0. Len(v) = n + 1 /\ DOMAIN v = 1..(n + 1) /\ n \in Nat
      BY <1>1, <1>2, <1>6, Zenon
    <3>1. n + 1 \in (n + 1)..Len(v) /\ (n + 1) - n = 1 /\ n + 1 \in DOMAIN v
      BY <3>0
    <3>2. new # <<>>
      <4>1. Len(<<>>) # 1
        OBVIOUS
      <4>2. QED
        BY <1>6, <4>1, Zenon
    <3>3. v[n + 1] = new[(n + 1) - n]
      BY <1>1, <3>1, Zenon
    <3>4. QED
      BY <3>1, <3>2, <3>3
  <2>2. QED
    BY <1>3, <1>6, <2>1 DEF Current, new
<1>7. QED
  BY <1>4, <1>5, <1>6

-----------------------------------------------------------------------------
(* The steps of a build                                                      *)

LEMMA BuildStartStep ==
  ASSUME WarehouseInv, NEW r \in Builders, NEW full \in BOOLEAN, BuildStart(r, full)
  PROVE  WarehouseInv'
<1> USE WarehouseAssumption
<1> DEFINE next == [pc |-> "lock", full |-> full, shut |-> [e \in Entities |-> {}],
                    new |-> [e \in Entities |-> <<>>], logins |-> {}, newMark |-> 0,
                    days |-> auditFacts, began |-> 1]
<1>1. /\ build' = [build EXCEPT ![r] = next] /\ builds < MaxBuilds /\ builds' = builds + 1
      /\ UNCHANGED <<ops, facts_, scd, wlock>>
  BY DEF BuildStart
<1>2. /\ [e \in Entities |-> {}] \in [Entities -> SUBSET Nat]
      /\ [e \in Entities |-> <<>>] \in [Entities -> Seq(Version)]
      /\ 0 \in 0..MaxAudit /\ 1 \in AuditDays /\ auditFacts \in [AuditDays -> SUBSET AuditIds]
  BY DEF WarehouseInv, WarehouseShape, AuditDays
<1>3. next \in Build
  BY <1>2 DEF Build, BuildPcs
<1>4. next.pc = "lock" /\ Blank(next)
  BY DEF Blank
<1> HIDE DEF next
<1>5. PICK x \in Build : x = next
  BY <1>3
<1>6. BuildSound(x)'
  BY <1>4, <1>5 DEF BuildSound, Blank, LoadPcs
<1>7. /\ KeepsTurn(r, x) /\ wlock' \in Builders \cup {NoBuilder} /\ builds' \in 0..MaxBuilds
  BY <1>1, <1>4, <1>5 DEF KeepsTurn, WarehouseInv, WarehouseShape
<1>8. QED
  BY <1>1, <1>5, <1>6, <1>7, OwnStep

LEMMA BuildStops ==
  ASSUME WarehouseInv, NEW r \in Builders, build' = [build EXCEPT ![r] = NoBuild],
         UNCHANGED <<ops, facts_, scd, builds>>,
         wlock' = wlock \/ (wlock = r /\ wlock' = NoBuilder)
  PROVE  WarehouseInv'
<1>1. NoBuild.pc = "idle" /\ NoBuild \in Build \cup {NoBuild}
  BY DEF NoBuild
<1>2. BuildSound(NoBuild)'
  BY <1>1 DEF BuildSound, LoadPcs
<1>3. KeepsTurn(r, NoBuild) /\ wlock' \in Builders \cup {NoBuilder} /\ builds' \in 0..MaxBuilds
  BY <1>1 DEF KeepsTurn, WarehouseInv, WarehouseShape
<1>4. QED
  BY <1>1, <1>2, <1>3, OwnStep

\* A builder that has not merged anything of this row.
LEMMA BlankSound ==
  ASSUME NEW x, NEW y, y.pc \in {"truncate", "closeproduct"}, y.shut = x.shut, y.new = x.new, Blank(x)
  PROVE  BuildSound(y)'
<1>1. \A k : ~Merged(y.pc, k)
  BY DEF Merged, AfterProducts, AfterSuppliers, AfterWarehouses, LoadPcs
<1>2. \A e \in Entities : VersionsSound(y, e)'
  BY <1>1 DEF VersionsSound, Blank
<1>3. QED
  BY <1>2 DEF BuildSound, LoadPcs

LEMMA BuildLockStep ==
  ASSUME WarehouseInv, NEW r \in Builders, BuildLock(r)
  PROVE  WarehouseInv'
<1>1. build[r].pc = "lock" /\ UNCHANGED <<ops, facts_, scd, builds>>
  BY DEF BuildLock
<1>2. CASE ~BuildLockFree
  BY <1>1, <1>2, BuildStops DEF BuildLock
<1>3. CASE BuildLockFree
  <2> DEFINE p == IF build[r].full THEN "truncate" ELSE "closeproduct"
             next == [build[r] EXCEPT !.pc = p, !.began = auditDay]
  <2>1. wlock' = r /\ wlock = NoBuilder /\ build' = [build EXCEPT ![r] = next]
    BY <1>3 DEF BuildLock, BuildLockFree, WarehouseInv, WarehouseShape
  <2>2. build[r] \in Build /\ Blank(build[r])
    BY <1>1, BuildKind DEF WarehouseInv, BuildSound
  <2>3. p \in {"truncate", "closeproduct"} /\ auditDay \in AuditDays
    BY DEF WarehouseInv, WarehouseShape
  <2> HIDE DEF p
  <2>4. next \in Build
    BY <2>2, <2>3 DEF Build, BuildPcs
  <2>5. next.pc = p
    BY <2>2 DEF Build
  <2>6. next.shut = build[r].shut /\ next.new = build[r].new
    BY <2>2 DEF Build
  <2> HIDE DEF next
  <2>7. PICK y \in Build : y = next
    BY <2>4
  <2>8. BuildSound(y)'
    BY <2>2, <2>3, <2>5, <2>6, <2>7, BlankSound
  <2>9. KeepsTurn(r, y) /\ wlock' \in Builders \cup {NoBuilder} /\ builds' \in 0..MaxBuilds
    BY <1>1, <2>1 DEF KeepsTurn, WarehouseInv, WarehouseShape
  <2>10. QED
    BY <1>1, <2>1, <2>7, <2>8, <2>9, OwnStep
<1>4. QED
  BY <1>2, <1>3

LEMMA BuildFailStep ==
  ASSUME WarehouseInv, NEW r \in Builders, BuildFail(r)
  PROVE  WarehouseInv'
BY BuildStops DEF BuildFail

\* A builder at work has a full record, the lock and sound versions.
LEMMA BuilderAtWork ==
  ASSUME WarehouseInv, NEW r \in Builders, build[r].pc \notin {"idle", "lock"}
  PROVE  /\ build[r] \in Build /\ wlock = r /\ BuildSound(build[r])
         /\ \A e \in Entities : VersionsSound(build[r], e)
         /\ WarehouseShape
BY BuildKind DEF WarehouseInv, AtWork, BuildSound

LEMMA TruncateStep ==
  ASSUME WarehouseInv, NEW r \in Builders, Truncate(r)
  PROVE  WarehouseInv'
<1> USE WarehouseAssumption
<1> DEFINE next == [build[r] EXCEPT !.pc = "closeproduct", !.began = auditDay]
<1>1. /\ build[r].pc = "truncate" /\ auditFacts' = [d \in AuditDays |-> {}] /\ auditMark' = 0
      /\ UNCHANGED <<ops, loginFacts, loginMark, scd, wlock, builds>>
      /\ build' = [build EXCEPT ![r] = next]
  BY DEF Truncate, WarehouseInv, WarehouseShape
<1>2. build[r] \in Build /\ wlock = r /\ \A e \in Entities : VersionsSound(build[r], e)
  BY <1>1, BuilderAtWork
<1>3. auditDay \in AuditDays /\ 0 \in 0..MaxAuditDay
  BY DEF WarehouseInv, WarehouseShape
<1>4. next \in Build
  BY <1>2, <1>3 DEF Build, BuildPcs
<1>5. next.pc = "closeproduct"
  BY <1>2 DEF Build
<1>6. next.shut = build[r].shut /\ next.new = build[r].new
  BY <1>2 DEF Build
<1> HIDE DEF next
<1>7. PICK y \in Build : y = next
  BY <1>4
<1>8. \A k : ~Merged(y.pc, k) /\ ~Merged(build[r].pc, k)
  BY <1>1, <1>5, <1>7 DEF Merged, AfterProducts, AfterSuppliers, AfterWarehouses, LoadPcs
<1>9. \A e \in Entities : VersionsSound(y, e)'
  BY <1>1, <1>2, <1>6, <1>7, <1>8 DEF VersionsSound, ops
<1>10. BuildSound(y)'
  BY <1>5, <1>7, <1>9 DEF BuildSound, LoadPcs
<1>11. WarehouseTypes
  BY <1>1, <1>3 DEF WarehouseTypes, WarehouseInv, WarehouseShape
<1>12. KeepsTurn(r, y)
  BY <1>1, <1>2 DEF KeepsTurn
<1>13. LastVersionIsCurrent'
  BY <1>1 DEF WarehouseInv, LastVersionIsCurrent
<1>14. WatermarksCovered'
  <2>1. LoginEventsLoaded'
    BY <1>1 DEF WarehouseInv, WatermarksCovered, LoginEventsLoaded, ops
  <2>2. \A i \in AuditIds : audit'[i].day \in Nat /\ ~(audit'[i].day < 0)
    BY <1>1, EventRows DEF WarehouseInv, AuditDays, ops
  <2>3. ClosedDaysComplete'
    BY <1>1, <2>2 DEF ClosedDaysComplete
  <2>4. QED
    BY <2>1, <2>3 DEF WatermarksCovered
<1>15. QED
  BY <1>1, <1>2, <1>7, <1>10, <1>11, <1>12, <1>13, <1>14, BuildFrame

\* The first statement of a merge leads from p to q, the second from q on.
Closes(p, kind, q) ==
  /\ q \in BuildPcs /\ p \notin {"idle", "lock"} /\ q \notin {"idle", "lock"} /\ q \notin LoadPcs
  /\ \A k \in Kinds : Merged(q, k) <=> Merged(p, k)
  /\ ~Merged(p, kind)

Inserts(p, kind, q) ==
  /\ q \in BuildPcs /\ p \notin {"idle", "lock"} /\ q \notin {"idle", "lock"}
  /\ (kind = "user" /\ q = "login") \/ q \notin LoadPcs
  /\ \A k \in Kinds : Merged(q, k) <=> (Merged(p, k) \/ k = kind)
  /\ ~Merged(p, kind)

LEMMA CloseStep ==
  ASSUME WarehouseInv, NEW r \in Builders, NEW p, NEW kind \in Kinds, NEW q,
         Close(r, p, kind, q), Closes(p, kind, q)
  PROVE  WarehouseInv'
<1> USE WarehouseAssumption
<1> DEFINE shut == [e \in Entities |->
                     IF Kind[e] = kind /\ source[e] > 0 THEN Outdated(e) ELSE build[r].shut[e]]
           next == [build[r] EXCEPT !.pc = q, !.shut = shut]
<1>1. /\ build[r].pc = p /\ build' = [build EXCEPT ![r] = next]
      /\ UNCHANGED <<ops, facts_, scd, wlock, builds>>
  BY DEF Close, WarehouseInv, WarehouseShape
<1>2. /\ build[r] \in Build /\ wlock = r /\ WarehouseShape
      /\ \A e \in Entities : VersionsSound(build[r], e)
  BY <1>1, BuilderAtWork DEF Closes
<1>3. \A e \in Entities : Outdated(e) \subseteq DOMAIN scd[e] /\ DOMAIN scd[e] \subseteq Nat
  BY <1>2 DEF Outdated, WarehouseShape
<1>4. shut \in [Entities -> SUBSET Nat]
  BY <1>2, <1>3 DEF Build
<1>5. \A e \in Entities : shut[e] = IF Kind[e] = kind /\ source[e] > 0 THEN Outdated(e) ELSE build[r].shut[e]
  OBVIOUS
<1> HIDE DEF shut
<1>6. next \in Build
  BY <1>2, <1>4 DEF Build, Closes
<1>7. next.pc = q
  BY <1>2 DEF Build
<1>8. next.shut = shut
  BY <1>2 DEF Build
<1>9. next.new = build[r].new
  BY <1>2 DEF Build
<1> HIDE DEF next
<1>10. PICK y \in Build : y = next
  BY <1>6
<1>11. ASSUME NEW e \in Entities
       PROVE  VersionsSound(y, e)'
  <2>1. Kind[e] \in Kinds /\ (Merged(q, Kind[e]) <=> Merged(p, Kind[e])) /\ VersionsSound(build[r], e)
    BY <1>2 DEF Closes
  <2>2. CASE Kind[e] = kind /\ source[e] > 0
    <3>1. ~Merged(p, Kind[e]) /\ y.shut[e] = Outdated(e) /\ y.new[e] = <<>> /\ y.pc = q
      BY <1>1, <1>5, <1>7, <1>8, <1>9, <1>10, <2>1, <2>2 DEF Closes, VersionsSound
    <3>2. \A i \in Outdated(e) : i \in DOMAIN scd[e] /\ scd[e][i].cur
      BY DEF Outdated
    <3>3. QED
      BY <1>1, <2>1, <2>2, <3>1, <3>2 DEF VersionsSound, ops
  <2>3. CASE ~(Kind[e] = kind /\ source[e] > 0)
    <3>1. y.shut[e] = build[r].shut[e] /\ y.new[e] = build[r].new[e] /\ y.pc = q
      BY <1>5, <1>7, <1>8, <1>9, <1>10, <2>3
    <3>2. QED
      BY <1>1, <2>1, <3>1 DEF VersionsSound, ops
  <2>4. QED
    BY <2>2, <2>3
<1>12. BuildSound(y)'
  BY <1>7, <1>10, <1>11 DEF BuildSound, LoadPcs, Closes
<1>13. KeepsTurn(r, y) /\ wlock' \in Builders \cup {NoBuilder} /\ builds' \in 0..MaxBuilds
  BY <1>1, <1>2 DEF KeepsTurn, WarehouseShape
<1>14. QED
  BY <1>1, <1>10, <1>12, <1>13, OwnStep

LEMMA InsertStep ==
  ASSUME WarehouseInv, NEW r \in Builders, NEW p, NEW kind \in Kinds, NEW q,
         Insert(r, p, kind, q), Inserts(p, kind, q)
  PROVE  WarehouseInv'
<1> USE WarehouseAssumption
<1> DEFINE row(e) == [val |-> source[e], cur |-> TRUE]
           adds(e) == Kind[e] = kind /\ source[e] > 0 /\ ~HasCurrent(r, e)
           new == [e \in Entities |-> IF adds(e) THEN <<row(e)>> ELSE build[r].new[e]]
           next == [build[r] EXCEPT !.pc = q, !.new = new]
<1>1. /\ build[r].pc = p /\ build' = [build EXCEPT ![r] = next]
      /\ UNCHANGED <<ops, facts_, scd, wlock, builds>>
  BY DEF Insert, WarehouseInv, WarehouseShape
<1>2. /\ build[r] \in Build /\ wlock = r /\ WarehouseShape
      /\ \A e \in Entities : VersionsSound(build[r], e)
  BY <1>1, BuilderAtWork DEF Inserts
<1>3. \A e \in Entities : adds(e) => <<row(e)>> \in Seq(Version)
  <2>1. ASSUME NEW e \in Entities, adds(e)
        PROVE  <<row(e)>> \in Seq(Version)
    <3>1. source[e] \in 1..MaxAttr
      BY <1>2, <2>1 DEF WarehouseShape
    <3>2. row(e) \in Version
      BY <3>1 DEF Version
    <3>3. QED
      BY <3>2
  <2>2. QED
    BY <2>1
<1>4. \A e \in Entities : new[e] = IF adds(e) THEN <<row(e)>> ELSE build[r].new[e]
  OBVIOUS
<1>5. new \in [Entities -> Seq(Version)]
  BY <1>2, <1>3 DEF Build
<1> HIDE DEF new
<1>6. next \in Build
  BY <1>2, <1>5 DEF Build, Inserts
<1>7. next.pc = q
  BY <1>2 DEF Build
<1>8. next.new = new
  BY <1>2 DEF Build
<1>9. next.shut = build[r].shut
  BY <1>2 DEF Build
<1> HIDE DEF next
<1>10. PICK y \in Build : y = next
  BY <1>6
<1>11. \A e \in Entities : HasCurrent(r, e) <=> Current(build[r], e)
  BY <1>2, ViewCurrent
<1>12. ASSUME NEW e \in Entities
       PROVE  VersionsSound(y, e)'
  <2>1. /\ Kind[e] \in Kinds /\ (Merged(q, Kind[e]) <=> (Merged(p, Kind[e]) \/ Kind[e] = kind))
        /\ VersionsSound(build[r], e)
    BY <1>2 DEF Inserts
  <2>2. y.shut[e] = build[r].shut[e] /\ y.new[e] = new[e] /\ y.pc = q
    BY <1>7, <1>8, <1>9, <1>10
  <2>3. CASE adds(e)
    <3>1. y.new[e] = <<row(e)>> /\ Len(<<row(e)>>) = 1 /\ <<row(e)>>[1].cur /\ <<row(e)>> # <<>>
      BY <1>4, <2>2, <2>3
    <3>2. ~Current(build[r], e) /\ Merged(q, Kind[e])
      BY <1>11, <2>1, <2>3
    <3>3. \A i \in DOMAIN scd[e] : scd[e][i].cur => i \in y.shut[e]
      BY <2>2, <3>2 DEF Current
    <3> HIDE DEF row
    <3>4. QED
      BY <1>1, <2>1, <2>2, <3>1, <3>2, <3>3 DEF VersionsSound, ops
  <2>4. CASE ~adds(e) /\ Kind[e] # kind
    <3>1. y.new[e] = build[r].new[e]
      BY <1>4, <2>2, <2>4
    <3>2. QED
      BY <1>1, <2>1, <2>2, <2>4, <3>1 DEF VersionsSound, ops
  <2>5. CASE ~adds(e) /\ Kind[e] = kind
    <3>1. y.new[e] = <<>>
      BY <1>1, <1>4, <2>1, <2>2, <2>5 DEF VersionsSound, Inserts
    <3>2. y.shut[e] = {}
      <4>1. CASE ~(source[e] > 0)
        BY <2>1, <2>2, <4>1 DEF VersionsSound
      <4>2. CASE source[e] > 0
        <5>1. build[r].new[e] = <<>>
          BY <1>1, <2>1, <2>5 DEF VersionsSound, Inserts
        <5>2. PICK i \in DOMAIN scd[e] : scd[e][i].cur /\ i \notin build[r].shut[e]
          BY <1>11, <2>5, <4>2, <5>1 DEF Current
        <5>3. \A j \in DOMAIN scd[e] : scd[e][j].cur <=> j = Len(scd[e])
          BY DEF WarehouseInv, LastVersionIsCurrent
        <5>4. \A j \in build[r].shut[e] : j = i
          BY <2>1, <5>2, <5>3 DEF VersionsSound
        <5>5. QED
          BY <2>2, <5>2, <5>4
      <4>3. QED
        BY <4>1, <4>2
    <3>3. QED
      BY <1>1, <2>1, <3>1, <3>2 DEF VersionsSound, ops
  <2>6. QED
    BY <2>3, <2>4, <2>5
<1>13. ASSUME q \in LoadPcs
       PROVE  \A i \in Events' : Current(y, audit[i].user)'
  <2>1. kind = "user" /\ q = "login" /\ Events' = Events /\ UNCHANGED <<audit, scd>>
    BY <1>1, <1>13 DEF Inserts, Events, ops
  <2>2. ASSUME NEW i \in Events
        PROVE  Current(y, audit[i].user)
    <3>1. PICK u \in WUsers : u = audit[i].user
      BY <1>2, EventRows
    <3>2. u \in Entities /\ Kind[u] = "user" /\ source[u] > 0
      BY <1>2, <3>1, EventRows DEF WUsers, WarehouseInv, AuditSound
    <3>3. CASE adds(u)
      <4>1. y.new[u] = <<row(u)>>
        BY <1>4, <1>8, <1>10, <3>2, <3>3
      <4> HIDE DEF row, adds
      <4>2. y.new[u] # <<>>
        BY <4>1
      <4>3. QED
        BY <3>1, <4>2 DEF Current
    <3>4. CASE ~adds(u)
      <4>1. Current(build[r], u)
        BY <1>11, <2>1, <3>2, <3>4
      <4>2. y.new[u] = build[r].new[u] /\ y.shut[u] = build[r].shut[u]
        BY <1>4, <1>8, <1>9, <1>10, <3>2, <3>4
      <4>3. QED
        BY <3>1, <4>1, <4>2 DEF Current
    <3>5. QED
      BY <3>3, <3>4
  <2>3. QED
    BY <2>1, <2>2 DEF Current
<1>14. BuildSound(y)'
  <2>1. y.pc = q /\ q # "lock" /\ q \notin {"loginmark", "audit", "commit"}
    BY <1>7, <1>10 DEF Inserts, LoadPcs
  <2>2. \A e \in Entities : VersionsSound(y, e)'
    BY <1>12
  <2>3. q \in LoadPcs => \A i \in Events' : Current(y, audit[i].user)'
    BY <1>13
  <2>4. QED
    BY <2>1, <2>2, <2>3 DEF BuildSound
<1>15. KeepsTurn(r, y) /\ wlock' \in Builders \cup {NoBuilder} /\ builds' \in 0..MaxBuilds
  BY <1>1, <1>2 DEF KeepsTurn, WarehouseShape
<1>16. QED
  BY <1>1, <1>10, <1>14, <1>15, OwnStep

LEMMA MergeStep ==
  ASSUME WarehouseInv, NEW r \in Builders,
         MergeProducts(r) \/ MergeSuppliers(r) \/ MergeWarehouses(r) \/ MergeUsers(r)
  PROVE  WarehouseInv'
<1> USE DEF Closes, Inserts, Merged, Kinds, AfterProducts, AfterSuppliers, AfterWarehouses, LoadPcs, BuildPcs
<1>1. /\ Closes("closeproduct", "product", "insertproduct")
      /\ Closes("closesupplier", "supplier", "insertsupplier")
      /\ Closes("closewarehouse", "warehouse", "insertwarehouse")
      /\ Closes("closeuser", "user", "insertuser")
  OBVIOUS
<1>2. /\ Inserts("insertproduct", "product", "closesupplier")
      /\ Inserts("insertsupplier", "supplier", "closewarehouse")
      /\ Inserts("insertwarehouse", "warehouse", "closeuser")
      /\ Inserts("insertuser", "user", "login")
  OBVIOUS
<1>3. "product" \in Kinds /\ "supplier" \in Kinds /\ "warehouse" \in Kinds /\ "user" \in Kinds
  OBVIOUS
<1> HIDE DEF Closes, Inserts, Merged, Kinds, AfterProducts, AfterSuppliers, AfterWarehouses, LoadPcs, BuildPcs
<1>4. QED
  BY <1>1, <1>2, <1>3, CloseStep, InsertStep
     DEF MergeProducts, MergeSuppliers, MergeWarehouses, MergeUsers

\* The users are merged: the loaders see every event.
LEMMA EventsSeen ==
  ASSUME WarehouseInv, NEW r \in Builders, build[r].pc \in LoadPcs
  PROVE  /\ build[r] \in Build /\ wlock = r /\ WarehouseShape /\ BuildSound(build[r])
         /\ \A e \in Entities : VersionsSound(build[r], e)
         /\ Events \subseteq Loadable(r) /\ Loadable(r) \subseteq AuditIds
<1>1. build[r].pc \notin {"idle", "lock"}
  BY DEF LoadPcs
<1>2. /\ build[r] \in Build /\ wlock = r /\ WarehouseShape /\ BuildSound(build[r])
      /\ \A e \in Entities : VersionsSound(build[r], e)
  BY <1>1, BuilderAtWork
<1>3. ASSUME NEW i \in Events
      PROVE  i \in Loadable(r)
  <2>1. i \in AuditIds /\ audit[i].st = "done" /\ audit[i].user \in Entities
    BY <1>2, EventRows DEF Events
  <2>2. Current(build[r], audit[i].user)
    BY <1>2 DEF BuildSound
  <2>3. HasCurrent(r, audit[i].user)
    BY <1>2, <2>1, <2>2, ViewCurrent
  <2>4. QED
    BY <2>1, <2>3 DEF Loadable
<1>4. QED
  BY <1>2, <1>3 DEF Loadable

\* The loaders leave the merged versions alone.
LEMMA LoadsOn ==
  ASSUME WarehouseInv, NEW r \in Builders, build[r].pc \in LoadPcs, UNCHANGED <<ops, scd>>,
         NEW y \in Build, y.pc \in LoadPcs, y.shut = build[r].shut, y.new = build[r].new
  PROVE  /\ Events' = Events
         /\ \A e \in Entities : VersionsSound(y, e)'
         /\ \A i \in Events : Current(y, audit[i].user)'
<1>1. Events' = Events
  BY DEF Events, ops
<1>2. BuildSound(build[r]) /\ \A e \in Entities : VersionsSound(build[r], e)
  BY EventsSeen
<1>3. \A k : Merged(y.pc, k) <=> Merged(build[r].pc, k)
  BY DEF Merged, AfterProducts, AfterSuppliers, AfterWarehouses
<1>4. \A e \in Entities : VersionsSound(y, e)'
  BY <1>2, <1>3 DEF VersionsSound, ops
<1>5. \A i \in Events : Current(build[r], audit[i].user)
  BY <1>2 DEF BuildSound
<1>6. \A i \in Events : Current(y, audit[i].user)'
  BY <1>5 DEF Current, ops
<1>7. QED
  BY <1>1, <1>4, <1>6

LEMMA LoadLoginsStep ==
  ASSUME WarehouseInv, NEW r \in Builders, LoadLogins(r)
  PROVE  WarehouseInv'
<1> DEFINE next == [build[r] EXCEPT !.pc = "loginmark", !.logins = Fresh(r)]
<1>1. /\ build[r].pc = "login" /\ build' = [build EXCEPT ![r] = next]
      /\ UNCHANGED <<ops, facts_, scd, wlock, builds>>
  BY DEF LoadLogins, WarehouseInv, WarehouseShape
<1>2. /\ build[r].pc \in LoadPcs /\ build[r] \in Build /\ wlock = r /\ WarehouseShape
      /\ Events \subseteq Loadable(r) /\ Loadable(r) \subseteq AuditIds
  BY <1>1, EventsSeen DEF LoadPcs
<1>3. Fresh(r) \subseteq AuditIds /\ \A i \in Events : i > loginMark => i \in Fresh(r)
  BY <1>2 DEF Fresh
<1>4. next \in Build
  BY <1>2, <1>3 DEF Build, BuildPcs
<1>5. next.pc = "loginmark"
  BY <1>2 DEF Build
<1>6. next.logins = Fresh(r)
  BY <1>2 DEF Build
<1>7. next.shut = build[r].shut /\ next.new = build[r].new
  BY <1>2 DEF Build
<1> HIDE DEF next
<1>8. PICK y \in Build : y = next
  BY <1>4
<1>9. y.pc \in LoadPcs
  BY <1>5, <1>8 DEF LoadPcs
<1>10. /\ Events' = Events
       /\ \A e \in Entities : VersionsSound(y, e)'
       /\ \A i \in Events : Current(y, audit[i].user)'
  BY <1>1, <1>2, <1>7, <1>8, <1>9, LoadsOn
<1>11. \A i \in Events : i > loginMark' => i \in y.logins
  BY <1>1, <1>3, <1>6, <1>8 DEF facts_
<1>12. BuildSound(y)'
  BY <1>5, <1>8, <1>10, <1>11 DEF BuildSound
<1>13. KeepsTurn(r, y) /\ wlock' \in Builders \cup {NoBuilder} /\ builds' \in 0..MaxBuilds
  BY <1>1, <1>2 DEF KeepsTurn, WarehouseShape
<1>14. QED
  BY <1>1, <1>8, <1>12, <1>13, OwnStep

LEMMA LoginMarkStep ==
  ASSUME WarehouseInv, NEW r \in Builders, LoginMark(r)
  PROVE  WarehouseInv'
<1> USE WarehouseAssumption
<1> DEFINE m == Max(Fresh(r) \cup {loginMark})
           next == [build[r] EXCEPT !.pc = "audit", !.newMark = m]
<1>1. /\ build[r].pc = "loginmark" /\ build' = [build EXCEPT ![r] = next]
      /\ UNCHANGED <<ops, facts_, scd, wlock, builds>>
  BY DEF LoginMark, WarehouseInv, WarehouseShape
<1>2. /\ build[r].pc \in LoadPcs /\ build[r] \in Build /\ wlock = r /\ WarehouseShape
      /\ BuildSound(build[r]) /\ Loadable(r) \subseteq AuditIds
  BY <1>1, EventsSeen DEF LoadPcs
<1>3. m \in 0..MaxAudit
  <2>1. Fresh(r) \cup {loginMark} \subseteq 0..MaxAudit
    BY <1>2 DEF Fresh, WarehouseShape, AuditIds
  <2>2. m \in Fresh(r) \cup {loginMark}
    BY <2>1, MaxOf
  <2>3. QED
    BY <2>1, <2>2
<1> HIDE DEF m
<1>4. next \in Build
  BY <1>2, <1>3 DEF Build, BuildPcs
<1>5. next.pc = "audit"
  BY <1>2 DEF Build
<1>6. next.logins = build[r].logins
  BY <1>2 DEF Build
<1>7. next.shut = build[r].shut /\ next.new = build[r].new
  BY <1>2 DEF Build
<1> HIDE DEF next
<1>8. PICK y \in Build : y = next
  BY <1>4
<1>9. y.pc \in LoadPcs
  BY <1>5, <1>8 DEF LoadPcs
<1>10. /\ Events' = Events
       /\ \A e \in Entities : VersionsSound(y, e)'
       /\ \A i \in Events : Current(y, audit[i].user)'
  BY <1>1, <1>2, <1>7, <1>8, <1>9, LoadsOn
<1>11. \A i \in Events : i > loginMark' => i \in y.logins
  BY <1>1, <1>2, <1>6, <1>8 DEF facts_, BuildSound
<1>12. BuildSound(y)'
  BY <1>5, <1>8, <1>10, <1>11 DEF BuildSound
<1>13. KeepsTurn(r, y) /\ wlock' \in Builders \cup {NoBuilder} /\ builds' \in 0..MaxBuilds
  BY <1>1, <1>2 DEF KeepsTurn, WarehouseShape
<1>14. QED
  BY <1>1, <1>8, <1>12, <1>13, OwnStep

LEMMA LoadAuditDailyStep ==
  ASSUME WarehouseInv, NEW r \in Builders, LoadAuditDaily(r)
  PROVE  WarehouseInv'
<1> USE WarehouseAssumption
<1> DEFINE days == [d \in AuditDays |->
                     IF d >= auditMark THEN {i \in Loadable(r) : audit[i].day = d} ELSE auditFacts[d]]
           next == [build[r] EXCEPT !.pc = "commit", !.days = days]
<1>1. /\ build[r].pc = "audit" /\ build' = [build EXCEPT ![r] = next]
      /\ UNCHANGED <<ops, facts_, scd, wlock, builds>>
  BY DEF LoadAuditDaily, WarehouseInv, WarehouseShape
<1>2. /\ build[r].pc \in LoadPcs /\ build[r] \in Build /\ wlock = r /\ WarehouseShape
      /\ BuildSound(build[r]) /\ Events \subseteq Loadable(r) /\ Loadable(r) \subseteq AuditIds
  BY <1>1, EventsSeen DEF LoadPcs
<1>3. days \in [AuditDays -> SUBSET AuditIds]
  BY <1>2 DEF WarehouseShape
<1>4. \A i \in Events : i \in days[audit[i].day]
  <2>1. ASSUME NEW i \in Events
        PROVE  i \in days[audit[i].day]
    <3>1. i \in AuditIds \ late /\ audit[i].st = "done" /\ audit[i].day \in AuditDays
      BY <1>2, EventRows DEF Events
    <3>2. CASE audit[i].day >= auditMark
      BY <1>2, <3>1, <3>2
    <3>3. CASE ~(audit[i].day >= auditMark)
      <4>1. audit[i].day < auditMark
        BY <1>2, <3>1, <3>3 DEF WarehouseShape, AuditDays
      <4>2. i \in auditFacts[audit[i].day]
        BY <3>1, <4>1 DEF WarehouseInv, WatermarksCovered, ClosedDaysComplete
      <4>3. QED
        BY <3>1, <3>3, <4>2
    <3>4. QED
      BY <3>2, <3>3
  <2>2. QED
    BY <2>1
<1> HIDE DEF days
<1>5. next \in Build
  BY <1>2, <1>3 DEF Build, BuildPcs
<1>6. next.pc = "commit"
  BY <1>2 DEF Build
<1>7. next.days = days
  BY <1>2 DEF Build
<1>8. next.logins = build[r].logins
  BY <1>2 DEF Build
<1>9. next.shut = build[r].shut /\ next.new = build[r].new
  BY <1>2 DEF Build
<1> HIDE DEF next
<1>10. PICK y \in Build : y = next
  BY <1>5
<1>11. y.pc \in LoadPcs
  BY <1>6, <1>10 DEF LoadPcs
<1>12. /\ Events' = Events
       /\ \A e \in Entities : VersionsSound(y, e)'
       /\ \A i \in Events : Current(y, audit[i].user)'
  BY <1>1, <1>2, <1>9, <1>10, <1>11, LoadsOn
<1>13. \A i \in Events : i > loginMark' => i \in y.logins
  BY <1>1, <1>2, <1>8, <1>10 DEF facts_, BuildSound
<1>14. \A i \in Events : i \in y.days[audit'[i].day]
  BY <1>1, <1>4, <1>7, <1>10 DEF ops
<1>15. BuildSound(y)'
  BY <1>6, <1>10, <1>12, <1>13, <1>14 DEF BuildSound
<1>16. KeepsTurn(r, y) /\ wlock' \in Builders \cup {NoBuilder} /\ builds' \in 0..MaxBuilds
  BY <1>1, <1>2 DEF KeepsTurn, WarehouseShape
<1>17. QED
  BY <1>1, <1>10, <1>15, <1>16, OwnStep

\* What a finished build makes of the versions of one row.
LEMMA CommittedVersions ==
  ASSUME WarehouseInv, NEW r \in Builders, build[r].pc = "commit", NEW e \in Entities
  PROVE  /\ View(r, e) \in Seq(Version)
         /\ \A i \in DOMAIN View(r, e) : View(r, e)[i].cur <=> i = Len(View(r, e))
<1> USE WarehouseAssumption
<1> DEFINE n == Len(scd[e])
           new == build[r].new[e]
           v == View(r, e)
<1>1. /\ build[r] \in Build /\ WarehouseShape /\ VersionsSound(build[r], e)
      /\ build[r].pc \in LoadPcs
  BY EventsSeen DEF LoadPcs
<1>2. /\ v \in Seq(Version) /\ scd[e] \in Seq(Version) /\ new \in Seq(Version) /\ Len(v) = n + Len(new)
      /\ \A i \in 1..n : v[i].cur <=> (scd[e][i].cur /\ i \notin build[r].shut[e])
      /\ \A i \in (n + 1)..Len(v) : v[i] = new[i - n]
  BY <1>1, ViewRows
<1>3. n \in Nat /\ Len(new) \in Nat /\ DOMAIN scd[e] = 1..n /\ DOMAIN v = 1..(n + Len(new))
  BY <1>2
<1>4. Merged(build[r].pc, Kind[e])
  BY <1>1 DEF Merged, Kinds, AfterProducts, AfterSuppliers, AfterWarehouses
<1>5. \A i \in 1..n : scd[e][i].cur <=> i = n
  BY <1>3 DEF WarehouseInv, LastVersionIsCurrent
<1>6. \/ new = <<>> /\ build[r].shut[e] = {}
      \/ Len(new) = 1 /\ new[1].cur /\ \A i \in 1..n : scd[e][i].cur => i \in build[r].shut[e]
  BY <1>1, <1>3, <1>4 DEF VersionsSound
<1> HIDE DEF v, new, n
<1>7. CASE new = <<>> /\ build[r].shut[e] = {}
  <2>1. Len(new) = 0
    BY <1>7
  <2>2. DOMAIN v = 1..n /\ Len(v) = n
    BY <1>2, <1>3, <2>1
  <2>3. \A i \in DOMAIN v : v[i].cur <=> i = Len(v)
    BY <1>2, <1>5, <1>7, <2>2
  <2>4. QED
    BY <1>2, <2>3 DEF v
<1>8. CASE Len(new) = 1 /\ new[1].cur /\ \A i \in 1..n : scd[e][i].cur => i \in build[r].shut[e]
  <2>1. Len(v) = n + 1 /\ DOMAIN v = 1..(n + 1) /\ (n + 1) - n = 1 /\ n + 1 \in (n + 1)..Len(v)
    BY <1>2, <1>3, <1>8
  <2>2. v[n + 1].cur
    BY <1>2, <1>8, <2>1
  <2>3. \A i \in 1..n : ~v[i].cur
    BY <1>2, <1>8
  <2>4. \A i \in DOMAIN v : i = n + 1 \/ (i \in 1..n /\ i # n + 1)
    BY <1>3, <2>1
  <2>5. \A i \in DOMAIN v : v[i].cur <=> i = Len(v)
    BY <2>1, <2>2, <2>3, <2>4
  <2>6. QED
    BY <1>2, <2>5 DEF v
<1>9. QED
  BY <1>6, <1>7, <1>8

LEMMA BuildCommitStep ==
  ASSUME WarehouseInv, NEW r \in Builders, BuildCommit(r)
  PROVE  WarehouseInv'
<1> USE WarehouseAssumption
<1>1. /\ build[r].pc = "commit" /\ scd' = [e \in Entities |-> View(r, e)]
      /\ loginFacts' = loginFacts \cup build[r].logins /\ loginMark' = build[r].newMark
      /\ auditFacts' = build[r].days /\ auditMark' = build[r].began
      /\ build' = [build EXCEPT ![r] = NoBuild] /\ UNCHANGED <<ops, builds>>
  BY DEF BuildCommit
<1>2. /\ build[r] \in Build /\ wlock = r /\ WarehouseShape /\ BuildSound(build[r])
  BY <1>1, EventsSeen DEF LoadPcs
<1>3. wlock' = NoBuilder
  BY <1>2 DEF BuildCommit
<1>4. \A e \in Entities : /\ View(r, e) \in Seq(Version)
                          /\ \A i \in DOMAIN View(r, e) : View(r, e)[i].cur <=> i = Len(View(r, e))
  BY <1>1, CommittedVersions
<1>5. \A e \in Entities : scd'[e] = View(r, e)
  BY <1>1
<1>6. LastVersionIsCurrent'
  BY <1>4, <1>5 DEF LastVersionIsCurrent
<1>7. /\ build[r].logins \subseteq AuditIds /\ build[r].newMark \in 0..MaxAudit
      /\ build[r].days \in [AuditDays -> SUBSET AuditIds] /\ build[r].began \in AuditDays
  BY <1>2 DEF Build
<1>8. WarehouseTypes
  <2>1. scd' \in [Entities -> Seq(Version)]
    BY <1>1, <1>4
  <2>2. auditMark' \in 0..MaxAuditDay
    BY <1>1, <1>7 DEF AuditDays
  <2>3. QED
    BY <1>1, <1>2, <1>3, <1>7, <2>1, <2>2 DEF WarehouseTypes, WarehouseShape
<1>9. /\ \A i \in Events : i > loginMark => i \in build[r].logins
      /\ \A i \in Events : i \in build[r].days[audit[i].day]
  BY <1>1, <1>2 DEF BuildSound
<1>10. LoginEventsLoaded'
  <2>1. ASSUME NEW i \in Events
        PROVE  i \in loginFacts \cup build[r].logins
    <3>1. i \in AuditIds \ late /\ audit[i].st = "done" /\ i \in Nat /\ loginMark \in Nat
      BY <1>2, EventRows DEF Events, WarehouseShape
    <3>2. CASE i > loginMark
      BY <1>9, <3>2
    <3>3. CASE i <= loginMark
      BY <3>1, <3>3 DEF WarehouseInv, WatermarksCovered, LoginEventsLoaded
    <3>4. QED
      BY <3>1, <3>2, <3>3
  <2>2. QED
    BY <1>1, <2>1 DEF LoginEventsLoaded, Events, ops
<1>11. ClosedDaysComplete'
  BY <1>1, <1>9 DEF ClosedDaysComplete, Events, ops
<1>12. NoBuild.pc = "idle" /\ NoBuild \in Build \cup {NoBuild}
  BY DEF NoBuild
<1>13. BuildSound(NoBuild)' /\ KeepsTurn(r, NoBuild)
  BY <1>2, <1>12 DEF BuildSound, LoadPcs, KeepsTurn
<1>14. QED
  BY <1>1, <1>2, <1>6, <1>8, <1>10, <1>11, <1>12, <1>13, BuildFrame DEF WatermarksCovered

LEMMA WarehouseStarts == WarehouseInit => WarehouseInv
<1> SUFFICES ASSUME WarehouseInit
             PROVE  WarehouseInv
  OBVIOUS
<1> USE WarehouseAssumption DEF WarehouseInit
<1>1. NoAudit \in AuditRow /\ NoAudit.st = "none"
  <2>1. (CHOOSE u \in WUsers : TRUE) \in WUsers
    OBVIOUS
  <2>2. 1 \in AuditDays
    BY DEF AuditDays
  <2>3. QED
    BY <2>1, <2>2 DEF NoAudit, AuditRow
<1>2. WarehouseShape
  <2>1. source \in [Entities -> 0..MaxAttr] /\ scd \in [Entities -> Seq(Version)]
    OBVIOUS
  <2>2. audit \in [AuditIds -> AuditRow] /\ auditDay \in AuditDays
    BY <1>1 DEF AuditDays
  <2>3. QED
    BY <2>1, <2>2 DEF WarehouseShape
<1>3. Drawn = {}
  BY <1>1 DEF Drawn
<1>4. AuditSound
  <2>1. Drawn = 1..0 /\ 0 \in Nat
    BY <1>3
  <2>2. QED
    BY <1>3, <2>1 DEF AuditSound
<1>5. LastVersionIsCurrent
  BY DEF LastVersionIsCurrent
<1>6. WatermarksCovered
  BY <1>1 DEF WatermarksCovered, LoginEventsLoaded, ClosedDaysComplete
<1>7. \A r \in Builders : build[r].pc = "idle"
  BY DEF NoBuild
<1>8. \A r \in Builders : BuildSound(build[r]) /\ ~AtWork(r)
  BY <1>7 DEF BuildSound, AtWork, LoadPcs
<1>9. QED
  BY <1>2, <1>4, <1>5, <1>6, <1>8 DEF WarehouseInv

\* The versions and watermarks of the warehouse layer, the builder's share of
\* them and the ETL lock hold together in every state etl_full_build reaches.
THEOREM WarehouseInvariance == WarehouseSpec => []WarehouseInv
<1>1. WarehouseInv /\ [WarehouseNext]_warehouseVars => WarehouseInv'
  <2> SUFFICES ASSUME WarehouseInv, [WarehouseNext]_warehouseVars
               PROVE  WarehouseInv'
    OBVIOUS
  <2>1. CASE UNCHANGED warehouseVars
    <3>1. /\ UNCHANGED <<source, audit, auditDay, late, auditFacts, auditMark, loginFacts, loginMark>>
          /\ UNCHANGED <<scd, wlock, build, builds>>
      BY <2>1 DEF warehouseVars, ops, facts_
    <3>2. Events' = Events /\ Drawn' = Drawn
      BY <3>1 DEF Events, Drawn
    <3>3. WarehouseShape' /\ AuditSound' /\ LastVersionIsCurrent' /\ WatermarksCovered'
      BY <3>1, <3>2 DEF WarehouseInv, WarehouseShape, AuditSound, LastVersionIsCurrent,
                        WatermarksCovered, LoginEventsLoaded, ClosedDaysComplete
    <3>4. ASSUME NEW r \in Builders
          PROVE  (AtWork(r) => wlock = r)' /\ BuildSound(build[r])'
      <4>1. (AtWork(r) => wlock = r) /\ BuildSound(build[r])
        BY DEF WarehouseInv
      <4>2. PICK x : x = build[r]
        OBVIOUS
      <4>3. BuildSound(x)'
        BY <3>1, <3>2, <4>1, <4>2 DEF BuildSound, VersionsSound, Current, Blank
      <4>4. QED
        BY <3>1, <4>1, <4>2, <4>3 DEF AtWork
    <3>5. QED
      BY <3>3, <3>4 DEF WarehouseInv
  <2>2. ASSUME NEW r \in Builders, BuildStep(r)
        PROVE  WarehouseInv'
    BY <2>2, BuildLockStep, TruncateStep, MergeStep, LoadLoginsStep, LoginMarkStep,
       LoadAuditDailyStep, BuildCommitStep, BuildFailStep DEF BuildStep
  <2>3. QED
    BY <2>1, <2>2, ChangeRowStep, AuditInsertStep, AuditCommitStep, MidnightStep, BuildStartStep
       DEF WarehouseNext
<1>2. QED
  BY <1>1, WarehouseStarts, PTL DEF WarehouseSpec

\* Of the versions of an entity the last one, and no other, is current.
THEOREM LastVersions == WarehouseSpec => []LastVersionIsCurrent
<1>1. WarehouseInv => LastVersionIsCurrent
  BY DEF WarehouseInv
<1>2. QED
  BY <1>1, WarehouseInvariance, PTL

\* Neither watermark of etl_full_build passes an event that is not loaded.
THEOREM MarksCovered == WarehouseSpec => []WatermarksCovered
<1>1. WarehouseInv => WatermarksCovered
  BY DEF WarehouseInv
<1>2. QED
  BY <1>1, WarehouseInvariance, PTL
-----------------------------------------------------------------------------
(* The audit chain                                                           *)

ChainRow    == [st : {"none", "open", "done"}, prev : 0..MaxRow, at : 0..MaxAge,
                by : Writers \cup {NoWriter}]
ChainWriter == [pc : {"off", "begun", "insert"}, began : 0..MaxAge, id : 0..MaxRow]

ChainShape ==
  /\ rows \in [RowIds -> ChainRow] /\ nextRow \in 1..(MaxRow + 1)
  /\ chainLock \in Writers \cup {NoWriter} /\ writer \in [Writers -> ChainWriter]
  /\ today \in 0..MaxAge /\ crossed \subseteq RowIds /\ purged \subseteq RowIds

Kept == Stored({"open", "done"})

OpenRowsLocked ==
  \A i \in RowIds : rows[i].st = "open" => rows[i].by \in Writers /\ chainLock = rows[i].by

Inserting(w) == writer[w].pc = "insert"

\* The ids that wait for the lock are different and unused.
IdsUnused ==
  /\ \A i \in Kept : i < nextRow
  /\ \A w \in Writers : Inserting(w) =>
       /\ writer[w].id \in RowIds /\ writer[w].id < nextRow /\ rows[writer[w].id].st = "none"
       /\ \A v \in Writers : Inserting(v) /\ writer[v].id = writer[w].id => v = w

\* The predecessor of a row outlives a rollback; only retention takes it.
LinkLeads(i) ==
  \/ rows[i].prev = 0 \/ rows[i].prev \in purged \/ rows[i].prev \in Chained
  \/ rows[i].st = "open" /\ rows[i].prev \in Kept

\* What lies between a row and its predecessor was chained after the row.
GapCrossed(i) ==
  /\ rows[i].prev < i
  /\ \A k \in Kept : rows[i].prev < k /\ k < i => k \in crossed

ChainInv ==
  /\ ChainShape /\ OpenRowsLocked /\ IdsUnused
  /\ \A i \in Kept : LinkLeads(i)
  /\ \A i \in Kept \ crossed : GapCrossed(i)

LEMMA KeptRows ==
  ASSUME ChainShape
  PROVE  /\ Kept = {i \in RowIds : rows[i].st # "none"} /\ Chained \subseteq Kept
         /\ Chained = {i \in RowIds : rows[i].st = "done"}
         /\ \A i \in RowIds : i \in Nat /\ i > 0 /\ rows[i].prev \in Nat /\ rows[i] \in ChainRow
         /\ \A i \in Kept : rows[i].st = "open" \/ i \in Chained
<1>1. \A i \in RowIds : rows[i] \in ChainRow
  BY DEF ChainShape
<1>2. \A i \in RowIds : rows[i].st \in {"none", "open", "done"} /\ rows[i].prev \in Nat
  BY <1>1, ChainAssumption DEF ChainRow
<1>3. QED
  BY <1>1, <1>2, ChainAssumption DEF Kept, Stored, Chained, RowIds

\* The rows and the lock stay as they are.
LEMMA ChainFrame ==
  ASSUME ChainInv, ChainShape', UNCHANGED <<rows, chainLock, crossed, purged>>, IdsUnused'
  PROVE  ChainInv'
<1>1. Kept' = Kept /\ Chained' = Chained
  BY DEF Kept, Chained, Stored
<1>2. (\A i \in Kept : LinkLeads(i))' /\ (\A i \in Kept \ crossed : GapCrossed(i))'
  BY <1>1 DEF ChainInv, LinkLeads, GapCrossed
<1>3. OpenRowsLocked'
  BY DEF ChainInv, OpenRowsLocked
<1>4. QED
  BY <1>2, <1>3 DEF ChainInv

\* Rows go, or are committed.
LEMMA RowsEnd ==
  ASSUME ChainInv, ChainShape', OpenRowsLocked', UNCHANGED <<nextRow, crossed>>,
         \A i \in RowIds : rows'[i].st # "none" => rows[i].st # "none" /\ rows'[i].prev = rows[i].prev,
         \A i \in Kept' : LinkLeads(i)',
         \A w \in Writers : Inserting(w)' => Inserting(w) /\ writer'[w].id = writer[w].id
  PROVE  ChainInv'
<1>1. Kept' \subseteq Kept
  <2>1. Kept = {i \in RowIds : rows[i].st # "none"}
    BY KeptRows DEF ChainInv
  <2>2. Kept' = {i \in RowIds : rows'[i].st # "none"}
    <3>1. \A i \in RowIds : rows'[i] \in ChainRow
      BY DEF ChainShape
    <3>2. \A i \in RowIds : rows'[i].st \in {"none", "open", "done"}
      BY <3>1 DEF ChainRow
    <3>3. QED
      BY <3>2 DEF Kept, Stored
  <2>3. QED
    BY <2>1, <2>2
<1>2. \A i \in Kept' : i \in RowIds /\ rows'[i].st # "none"
  BY DEF Kept, Stored
<1>3. \A i \in Kept' \ crossed' : GapCrossed(i)'
  BY <1>1, <1>2 DEF ChainInv, GapCrossed
<1>4. \A w \in Writers : Inserting(w)' =>
        /\ writer'[w].id \in RowIds /\ writer'[w].id < nextRow' /\ rows'[writer'[w].id].st = "none"
        /\ \A v \in Writers : Inserting(v)' /\ writer'[v].id = writer'[w].id => v = w
  BY DEF ChainInv, IdsUnused
<1>5. IdsUnused'
  BY <1>1, <1>4 DEF ChainInv, IdsUnused
<1>6. QED
  BY <1>3, <1>5 DEF ChainInv

LEMMA BeginWriteStep ==
  ASSUME ChainInv, NEW w \in Writers, BeginWrite(w)
  PROVE  ChainInv'
<1> DEFINE next == [pc |-> "begun", began |-> today, id |-> 0]
<1>1. /\ writer' = [writer EXCEPT ![w] = next]
      /\ UNCHANGED <<rows, nextRow, chainLock, today, crossed, purged>>
  BY DEF BeginWrite
<1>2. next \in ChainWriter /\ next.pc = "begun"
  BY ChainAssumption DEF ChainWriter, ChainInv, ChainShape
<1> HIDE DEF next
<1>3. ChainShape'
  BY <1>1, <1>2 DEF ChainInv, ChainShape
<1>4. writer'[w] = next /\ \A v \in Writers : v # w => writer'[v] = writer[v]
  BY <1>1 DEF ChainInv, ChainShape
<1>5. Kept' = Kept
  BY <1>1 DEF Kept, Stored
<1>6. IdsUnused'
  BY <1>1, <1>2, <1>4, <1>5 DEF ChainInv, IdsUnused, Inserting
<1>7. QED
  BY <1>1, <1>3, <1>6, ChainFrame

LEMMA DrawIdStep ==
  ASSUME ChainInv, NEW w \in Writers, DrawId(w)
  PROVE  ChainInv'
<1> USE ChainAssumption
<1> DEFINE next == [writer[w] EXCEPT !.pc = "insert", !.id = nextRow]
<1>1. /\ writer' = [writer EXCEPT ![w] = next] /\ nextRow <= MaxRow /\ nextRow' = nextRow + 1
      /\ UNCHANGED <<rows, chainLock, today, crossed, purged>>
  BY DEF DrawId, ChainInv, ChainShape
<1>2. writer[w] \in ChainWriter /\ nextRow \in RowIds /\ nextRow \in 0..MaxRow
  BY <1>1 DEF ChainInv, ChainShape, RowIds
<1>3. next \in ChainWriter
  BY <1>2 DEF ChainWriter
<1>4. next.id = nextRow
  BY <1>2 DEF ChainWriter
<1> HIDE DEF next
<1>5. ChainShape'
  BY <1>1, <1>2, <1>3 DEF ChainInv, ChainShape, RowIds
<1>6. writer'[w] = next /\ \A v \in Writers : v # w => writer'[v] = writer[v]
  BY <1>1 DEF ChainInv, ChainShape
<1>7. Kept' = Kept /\ Kept \subseteq RowIds /\ \A i \in RowIds : i \in Nat
  BY <1>1 DEF Kept, Stored, RowIds
<1>8. rows[nextRow].st = "none"
  <2>1. nextRow \notin Kept
    BY <1>2, <1>7 DEF ChainInv, IdsUnused
  <2>2. Kept = {i \in RowIds : rows[i].st # "none"}
    BY KeptRows DEF ChainInv
  <2>3. QED
    BY <1>2, <2>1, <2>2
<1>9. \A i \in Kept' : i < nextRow'
  BY <1>1, <1>2, <1>7 DEF ChainInv, IdsUnused
<1>10. \A v \in Writers : v # w /\ Inserting(v)' =>
         Inserting(v) /\ writer'[v].id \in RowIds /\ writer'[v].id < nextRow
           /\ rows[writer'[v].id].st = "none"
  BY <1>6 DEF ChainInv, IdsUnused, Inserting
<1>11. \A v \in Writers : Inserting(v)' =>
         /\ writer'[v].id \in RowIds /\ writer'[v].id < nextRow' /\ rows'[writer'[v].id].st = "none"
  <2>1. ASSUME NEW v \in Writers, v # w, Inserting(v)'
        PROVE  writer'[v].id < nextRow'
    <3>1. PICK i \in RowIds : i = writer'[v].id
      BY <1>10, <2>1
    <3>2. i < nextRow /\ i \in Nat /\ nextRow \in Nat
      BY <1>2, <1>7, <1>10, <2>1, <3>1
    <3>3. QED
      BY <1>1, <3>1, <3>2
  <2>2. nextRow < nextRow'
    BY <1>1, <1>2, <1>7
  <2>3. QED
    BY <1>1, <1>2, <1>4, <1>6, <1>8, <1>10, <2>1, <2>2
<1>12. \A v, u \in Writers : Inserting(v)' /\ Inserting(u)' /\ writer'[v].id = writer'[u].id => v = u
  <2>1. \A v \in Writers : v # w /\ Inserting(v)' => writer'[v].id # writer'[w].id
    BY <1>2, <1>4, <1>6, <1>7, <1>10
  <2>2. \A v, u \in Writers : v # w /\ u # w /\ Inserting(v)' /\ Inserting(u)'
                               /\ writer'[v].id = writer'[u].id => v = u
    BY <1>6, <1>10 DEF ChainInv, IdsUnused
  <2>3. QED
    BY <2>1, <2>2
<1>13. IdsUnused'
  BY <1>9, <1>11, <1>12 DEF IdsUnused
<1>14. QED
  BY <1>1, <1>5, <1>13, ChainFrame

\* The trigger runs where every open row is the writer's own, so its
\* predecessor is the largest of all.
LEMMA PredecessorIs ==
  ASSUME ChainInv, NEW w \in Writers, ChainLockFree(w)
  PROVE  /\ Predecessor(w) \in {0} \cup Kept /\ Predecessor(w) \in 0..MaxRow
         /\ \A k \in Kept : Predecessor(w) >= k
         /\ \A i \in RowIds : rows[i].st = "open" => rows[i].by = w
<1> USE ChainAssumption
<1> DEFINE S == {0} \cup Chained \cup {i \in Stored({"open"}) : rows[i].by = w}
<1>1. \A i \in RowIds : rows[i].st = "open" => rows[i].by = w
  BY DEF ChainInv, OpenRowsLocked, ChainLockFree
<1>2. S = {0} \cup Kept
  BY <1>1 DEF Kept, Chained, Stored
<1>3. S \subseteq 0..MaxRow
  BY <1>2 DEF Kept, Stored, RowIds
<1>4. Max(S) \in S /\ \A y \in S : Max(S) >= y
  BY <1>3, MaxOf
<1>5. Predecessor(w) = Max(S)
  BY DEF Predecessor
<1> HIDE DEF S
<1>6. QED
  BY <1>1, <1>2, <1>3, <1>4, <1>5

LEMMA TriggerStep ==
  ASSUME ChainInv, NEW w \in Writers, trg_fn_audit_hash_chain(w)
  PROVE  ChainInv'
<1> USE ChainAssumption
<1>1. PICK i : i = writer[w].id
  OBVIOUS
<1>2. PICK p : p = Predecessor(w)
  OBVIOUS
<1> DEFINE new == [st |-> "open", prev |-> p, at |-> writer[w].began, by |-> w]
           next == [writer[w] EXCEPT !.pc = "begun", !.id = 0]
<1>3. /\ Inserting(w) /\ ChainLockFree(w) /\ chainLock' = w
      /\ rows' = [rows EXCEPT ![i] = new]
      /\ crossed' = crossed \cup (IF p > i THEN {i} ELSE {})
      /\ writer' = [writer EXCEPT ![w] = next]
      /\ UNCHANGED <<nextRow, today, purged>>
  BY <1>1, <1>2 DEF trg_fn_audit_hash_chain, Inserting, ChainInv, ChainShape
<1>4. i \in RowIds /\ i \in Nat /\ i > 0 /\ i < nextRow /\ rows[i].st = "none"
  BY <1>1, <1>3 DEF ChainInv, IdsUnused, RowIds
<1>5. /\ p \in {0} \cup Kept /\ p \in 0..MaxRow /\ \A k \in Kept : p >= k
      /\ \A k \in RowIds : rows[k].st = "open" => rows[k].by = w
  BY <1>2, <1>3, PredecessorIs
<1>6. writer[w] \in ChainWriter /\ 0 \in 0..MaxRow
  BY DEF ChainInv, ChainShape
<1>7. next \in ChainWriter
  BY <1>6, Zenon DEF ChainWriter
<1>8. next.pc = "begun"
  BY <1>6 DEF ChainWriter
<1>9. new \in ChainRow /\ new.st = "open" /\ new.prev = p /\ new.by = w
  BY <1>5, <1>6 DEF ChainRow, ChainWriter
<1> HIDE DEF new, next
<1>10. ChainShape'
  BY <1>3, <1>4, <1>7, <1>9 DEF ChainInv, ChainShape
<1>11. rows'[i] = new /\ \A k \in RowIds : k # i => rows'[k] = rows[k]
  BY <1>3, <1>4 DEF ChainInv, ChainShape
<1>12. writer'[w] = next /\ \A v \in Writers : v # w => writer'[v] = writer[v]
  BY <1>3 DEF ChainInv, ChainShape
<1>13. /\ Kept = {k \in RowIds : rows[k].st # "none"} /\ i \notin Kept
       /\ \A k \in RowIds : k \in Nat /\ k > 0 /\ rows[k].prev \in Nat
  BY <1>4, KeptRows DEF ChainInv
<1>14. Kept' = Kept \cup {i} /\ Chained' = Chained
  BY <1>4, <1>9, <1>11 DEF Kept, Chained, Stored
<1>15. OpenRowsLocked'
  <2>1. \A k \in RowIds : rows'[k].st = "open" => rows'[k].by = w
    BY <1>5, <1>9, <1>11
  <2>2. QED
    BY <1>3, <2>1 DEF OpenRowsLocked
<1>16. IdsUnused'
  <2>1. \A k \in Kept' : k < nextRow'
    BY <1>3, <1>4, <1>14 DEF ChainInv, IdsUnused
  <2>2. \A v \in Writers : Inserting(v)' => v # w /\ Inserting(v) /\ writer'[v] = writer[v]
    BY <1>8, <1>12 DEF Inserting
  <2>3. \A v \in Writers : Inserting(v)' => writer[v].id # i
    BY <1>1, <1>3, <2>2 DEF ChainInv, IdsUnused
  <2>4. \A v \in Writers : Inserting(v)' =>
          /\ writer'[v].id \in RowIds /\ writer'[v].id < nextRow' /\ rows'[writer'[v].id].st = "none"
    BY <1>3, <1>11, <2>2, <2>3 DEF ChainInv, IdsUnused
  <2>5. \A v, u \in Writers : Inserting(v)' /\ Inserting(u)' /\ writer'[v].id = writer'[u].id => v = u
    BY <2>2 DEF ChainInv, IdsUnused
  <2>6. QED
    BY <2>1, <2>4, <2>5 DEF IdsUnused
<1>17. \A k \in Kept' : LinkLeads(k)'
  <2>1. LinkLeads(i)'
    BY <1>5, <1>9, <1>11, <1>14 DEF LinkLeads
  <2>2. ASSUME NEW k \in Kept
        PROVE  LinkLeads(k)'
    <3>1. LinkLeads(k) /\ rows'[k] = rows[k]
      BY <1>11, <1>13 DEF ChainInv
    <3>2. QED
      BY <1>3, <1>14, <3>1 DEF LinkLeads
  <2>3. QED
    BY <1>14, <2>1, <2>2
<1>18. p > i => i \in crossed'
  BY <1>3
<1>19. \A k \in Kept' \ crossed' : GapCrossed(k)'
  <2>1. ASSUME i \notin crossed'
        PROVE  GapCrossed(i)'
    <3>1. p < i
      BY <1>4, <1>5, <1>13, <1>18, <2>1
    <3>2. rows'[i].prev = p
      BY <1>9, <1>11
    <3>3. \A k \in Kept' : ~(p < k /\ k < i)
      BY <1>4, <1>5, <1>13, <1>14
    <3>4. QED
      BY <3>1, <3>2, <3>3 DEF GapCrossed
  <2>2. ASSUME NEW k \in Kept, k \notin crossed'
        PROVE  GapCrossed(k)'
    <3>1. k \notin crossed /\ rows'[k] = rows[k] /\ GapCrossed(k)
      BY <1>3, <1>11, <1>13, <2>2 DEF ChainInv
    <3>2. i < k => i \in crossed'
      BY <1>4, <1>5, <1>13, <1>18
    <3>3. \A j \in Kept' : rows[k].prev < j /\ j < k => j \in crossed'
      BY <1>3, <1>14, <3>1, <3>2 DEF GapCrossed
    <3>4. QED
      BY <3>1, <3>3 DEF GapCrossed
  <2>3. QED
    BY <1>14, <2>1, <2>2
<1>20. QED
  BY <1>10, <1>15, <1>16, <1>17, <1>19 DEF ChainInv

LEMMA EndWriteStep ==
  ASSUME ChainInv, NEW w \in Writers, NEW commits \in BOOLEAN, EndWrite(w, commits)
  PROVE  ChainInv'
<1> USE ChainAssumption
<1> DEFINE own(i) == rows[i].st = "open" /\ rows[i].by = w
<1>1. /\ chainLock' = IF chainLock = w THEN NoWriter ELSE chainLock
      /\ writer' = [writer EXCEPT ![w] = Off] /\ UNCHANGED <<nextRow, today, crossed, purged>>
      /\ DOMAIN rows' = RowIds
  BY DEF EndWrite
<1>2. \A i \in RowIds : rows[i] \in ChainRow
  BY DEF ChainInv, ChainShape
<1>3. \A i \in RowIds : ~own(i) => rows'[i] = rows[i]
  BY DEF EndWrite
<1>4. \A i \in RowIds : own(i) /\ ~commits => rows'[i] = NoRow
  BY DEF EndWrite
<1>5. \A i \in RowIds : own(i) /\ commits => rows'[i] = [rows[i] EXCEPT !.st = "done", !.by = NoWriter]
  BY DEF EndWrite
<1>6. \A i \in RowIds : own(i) /\ commits => rows'[i] \in ChainRow
  <2>1. ASSUME NEW x \in ChainRow
        PROVE  [x EXCEPT !.st = "done", !.by = NoWriter] \in ChainRow
    BY DEF ChainRow
  <2>2. QED
    BY <1>2, <1>5, <2>1
<1>7. \A i \in RowIds : own(i) /\ commits => rows'[i].st = "done" /\ rows'[i].prev = rows[i].prev
  BY <1>2, <1>5 DEF ChainRow
<1>8. NoRow \in ChainRow /\ NoRow.st = "none"
  BY DEF NoRow, ChainRow
<1>9. Off \in ChainWriter /\ Off.pc = "off"
  BY DEF Off, ChainWriter
<1>10. ChainShape'
  <2>1. \A i \in RowIds : rows'[i] \in ChainRow
    BY <1>2, <1>3, <1>4, <1>6, <1>8
  <2>2. rows' \in [RowIds -> ChainRow]
    <3>1. rows' = [i \in RowIds |-> rows'[i]]
      BY DEF EndWrite
    <3>2. QED
      BY <2>1, <3>1
  <2>3. QED
    BY <1>1, <1>9, <2>2 DEF ChainInv, ChainShape
<1>11. OpenRowsLocked'
  <2>1. \A i \in RowIds : rows'[i].st = "open" => ~own(i) /\ rows'[i] = rows[i]
    BY <1>3, <1>4, <1>7, <1>8
  <2>2. QED
    BY <1>1, <2>1 DEF ChainInv, OpenRowsLocked
<1>12. \A i \in RowIds : rows'[i].st # "none" => rows[i].st # "none" /\ rows'[i].prev = rows[i].prev
  BY <1>3, <1>4, <1>7, <1>8
<1>13. \A v \in Writers : Inserting(v)' => Inserting(v) /\ writer'[v].id = writer[v].id
  BY <1>1, <1>9 DEF ChainInv, ChainShape, Inserting
<1>14. Chained \subseteq Chained'
  BY <1>3 DEF Chained, Stored
<1>15. ASSUME NEW i \in Kept'
       PROVE  LinkLeads(i)'
  <2>1. i \in RowIds /\ rows'[i].st # "none"
    BY DEF Kept, Stored
  <2>2. i \in Kept /\ rows'[i].prev = rows[i].prev
    BY <1>12, <2>1, KeptRows DEF ChainInv
  <2>3. LinkLeads(i)
    BY <2>2 DEF ChainInv
  <2>4. CASE rows[i].prev = 0 \/ rows[i].prev \in purged \/ rows[i].prev \in Chained
    BY <1>1, <1>14, <2>2, <2>4 DEF LinkLeads
  <2>5. CASE rows[i].st = "open" /\ rows[i].prev \in Kept /\ rows[i].prev \notin Chained
    <3>1. PICK k \in RowIds : k = rows[i].prev /\ rows[k].st = "open"
      BY <2>5, KeptRows DEF ChainInv, Kept, Stored
    <3>2. rows[k].by = rows[i].by
      BY <2>1, <2>5, <3>1 DEF ChainInv, OpenRowsLocked
    <3>3. CASE own(i)
      <4>1. commits
        BY <1>4, <1>8, <2>1, <3>3
      <4>2. rows'[k].st = "done"
        BY <1>7, <3>1, <3>2, <3>3, <4>1
      <4>3. k \in Chained'
        BY <4>2 DEF Chained, Stored
      <4>4. QED
        BY <2>2, <3>1, <4>3 DEF LinkLeads
    <3>4. CASE ~own(i)
      <4>1. rows'[i] = rows[i] /\ rows'[k] = rows[k]
        BY <1>3, <2>1, <2>5, <3>1, <3>2, <3>4
      <4>2. k \in Kept'
        BY <3>1, <4>1 DEF Kept, Stored
      <4>3. QED
        BY <2>5, <3>1, <4>1, <4>2 DEF LinkLeads
    <3>5. QED
      BY <3>3, <3>4
  <2>6. QED
    BY <2>3, <2>4, <2>5 DEF LinkLeads
<1>16. QED
  BY <1>1, <1>10, <1>11, <1>12, <1>13, <1>15, RowsEnd

LEMMA PurgeStep ==
  ASSUME ChainInv, sp_retention_purge_audit_log
  PROVE  ChainInv'
<1> USE ChainAssumption
<1>1. /\ rows' = [i \in RowIds |-> IF i \in Expired THEN NoRow ELSE rows[i]]
      /\ purged' = purged \cup Expired /\ UNCHANGED <<nextRow, chainLock, writer, today, crossed>>
  BY DEF sp_retention_purge_audit_log
<1>2. Expired \subseteq Chained /\ Chained \subseteq RowIds
  BY DEF Expired, Chained, Stored
<1>3. NoRow \in ChainRow /\ NoRow.st = "none"
  BY DEF NoRow, ChainRow
<1>4. \A i \in RowIds : i \notin Expired => rows'[i] = rows[i]
  BY <1>1
<1>5. \A i \in RowIds : i \in Expired => rows'[i].st = "none"
  BY <1>1, <1>3
<1>6. ChainShape'
  BY <1>1, <1>2, <1>3 DEF ChainInv, ChainShape
<1>7. OpenRowsLocked'
  BY <1>1, <1>4, <1>5 DEF ChainInv, OpenRowsLocked
<1>8. \A i \in RowIds : rows'[i].st # "none" => rows[i].st # "none" /\ rows'[i].prev = rows[i].prev
  BY <1>4, <1>5
<1>9. ASSUME NEW i \in Kept'
      PROVE  LinkLeads(i)'
  <2>1. i \in RowIds /\ rows'[i].st # "none"
    BY DEF Kept, Stored
  <2>2. i \in Kept /\ rows'[i] = rows[i]
    BY <1>4, <1>5, <1>8, <2>1, KeptRows DEF ChainInv
  <2>3. LinkLeads(i)
    BY <2>2 DEF ChainInv
  <2>4. Kept \ Expired \subseteq Kept' /\ Chained \ Expired \subseteq Chained'
    BY <1>4 DEF Kept, Chained, Stored
  <2>5. QED
    BY <1>1, <2>2, <2>3, <2>4 DEF LinkLeads
<1>10. \A w \in Writers : Inserting(w)' => Inserting(w) /\ writer'[w].id = writer[w].id
  BY <1>1 DEF Inserting
<1>11. QED
  BY <1>1, <1>6, <1>7, <1>8, <1>9, <1>10, RowsEnd

LEMMA ChainStarts == ChainInit => ChainInv
<1> SUFFICES ASSUME ChainInit
             PROVE  ChainInv
  OBVIOUS
<1> USE ChainAssumption DEF ChainInit
<1>1. NoRow \in ChainRow /\ NoRow.st = "none"
  BY DEF NoRow, ChainRow
<1>2. Off \in ChainWriter /\ Off.pc = "off"
  BY DEF Off, ChainWriter
<1> DEFINE old(i) == [st |-> "done", prev |-> i - 1, at |-> 0, by |-> NoWriter]
<1>3. \A i \in RowIds : i <= Legacy => rows[i] = old(i)
  BY DEF Backfilled
<1>4. \A i \in RowIds : ~(i <= Legacy) => rows[i] = NoRow
  BY DEF Backfilled
<1>5. \A i \in RowIds : i <= Legacy => old(i) \in ChainRow /\ old(i).st = "done" /\ old(i).prev = i - 1
  BY DEF ChainRow, RowIds
<1> HIDE DEF old
<1>6. \A i \in RowIds : rows[i] \in ChainRow
  BY <1>1, <1>3, <1>4, <1>5
<1>7. rows \in [RowIds -> ChainRow]
  <2>1. rows = [i \in RowIds |-> rows[i]]
    BY DEF Backfilled
  <2>2. QED
    BY <1>6, <2>1
<1>8. ChainShape
  BY <1>2, <1>7 DEF ChainShape
<1>9. \A i \in RowIds : i \in Nat /\ i > 0
  BY DEF RowIds
<1>10. Kept = {i \in RowIds : i <= Legacy} /\ Chained = Kept
  BY <1>1, <1>3, <1>4, <1>5 DEF Kept, Chained, Stored
<1>11. OpenRowsLocked
  BY <1>1, <1>3, <1>4, <1>5 DEF OpenRowsLocked
<1>12. \A w \in Writers : ~Inserting(w)
  BY <1>2 DEF Inserting
<1>13. IdsUnused
  BY <1>9, <1>10, <1>12 DEF IdsUnused
<1>14. \A i \in Kept : LinkLeads(i)
  <2>1. ASSUME NEW i \in Kept
        PROVE  LinkLeads(i)
    <3>1. rows[i].prev = i - 1 /\ i \in Nat /\ i > 0 /\ i <= Legacy
      BY <1>3, <1>5, <1>9, <1>10
    <3>2. i - 1 = 0 \/ i - 1 \in Kept
      BY <1>10, <3>1 DEF RowIds
    <3>3. QED
      BY <1>10, <3>1, <3>2 DEF LinkLeads
  <2>2. QED
    BY <2>1
<1>15. \A i \in Kept : GapCrossed(i)
  <2>1. ASSUME NEW i \in Kept
        PROVE  GapCrossed(i)
    <3>1. rows[i].prev = i - 1 /\ i \in Nat /\ \A k \in Kept : k \in Nat
      BY <1>3, <1>5, <1>9, <1>10
    <3>2. PICK q \in Int, n \in Nat : q = rows[i].prev /\ n = i /\ q = n - 1
      BY <3>1
    <3>3. q < n /\ \A k \in Nat : ~(q < k /\ k < n)
      BY <3>2
    <3>4. QED
      BY <3>1, <3>2, <3>3 DEF GapCrossed
  <2>2. QED
    BY <2>1
<1>16. QED
  BY <1>8, <1>11, <1>13, <1>14, <1>15 DEF ChainInv

\* Open rows belong to the holder of the chain lock, waiting ids are unused,
\* links lead to rows that are kept or purged, and what lies between a row and
\* its predecessor was chained later.
THEOREM ChainInvariance == ChainSpec => []ChainInv
<1>1. ChainInv /\ [ChainNext]_chainVars => ChainInv'
  <2> SUFFICES ASSUME ChainInv, [ChainNext]_chainVars
               PROVE  ChainInv'
    OBVIOUS
  <2>1. CASE UNCHANGED chainVars \/ DayPasses
    <3>1. UNCHANGED <<rows, nextRow, chainLock, writer, crossed, purged>> /\ today' \in 0..MaxAge
      BY <2>1, ChainAssumption DEF chainVars, DayPasses, ChainInv, ChainShape
    <3>2. ChainShape'
      BY <3>1 DEF ChainInv, ChainShape
    <3>3. IdsUnused'
      BY <3>1 DEF ChainInv, IdsUnused, Inserting, Kept, Stored
    <3>4. QED
      BY <3>1, <3>2, <3>3, ChainFrame
  <2>2. ASSUME NEW w \in Writers, CommitWrite(w) \/ AbortWrite(w)
        PROVE  ChainInv'
    BY <2>2, EndWriteStep DEF CommitWrite, AbortWrite
  <2>3. QED
    BY <2>1, <2>2, BeginWriteStep, DrawIdStep, TriggerStep, PurgeStep DEF ChainNext
<1>2. QED
  BY <1>1, ChainStarts, PTL DEF ChainSpec

\* A link that sp_audit_verify_integrity reports is explained: one of the two
\* rows was chained after a larger id, or retention took the row between them.
THEOREM ExplainedBreaks == ChainSpec => []BreaksAreExplained
<1>1. ChainInv => BreaksAreExplained
  <2> SUFFICES ASSUME ChainInv, NEW i \in sp_audit_verify_integrity, i \notin crossed
               PROVE  LET j == Max(Before(i)) IN
                        j \in crossed \/ (rows[i].prev \in purged /\ rows[i].prev > j)
    BY DEF BreaksAreExplained
  <2>1. PICK j : j = Max(Before(i))
    OBVIOUS
  <2>2. i \in Chained /\ Before(i) # {} /\ rows[i].prev # j
    BY <2>1 DEF sp_audit_verify_integrity
  <2>3. /\ Chained \subseteq Kept /\ Chained \subseteq RowIds /\ i \in RowIds /\ rows[i].st = "done"
        /\ \A k \in RowIds : k \in Nat /\ k > 0 /\ rows[k].prev \in Nat
    BY <2>2, KeptRows DEF ChainInv
  <2>4. j \in Before(i) /\ \A k \in Before(i) : j >= k
    <3>1. Before(i) \subseteq RowIds /\ RowIds \subseteq 0..MaxRow
      <4>1. Before(i) \subseteq Chained
        BY DEF Before
      <4>2. RowIds \subseteq 0..MaxRow
        BY ChainAssumption DEF RowIds
      <4>3. QED
        BY <2>3, <4>1, <4>2
    <3>2. QED
      BY <2>1, <2>2, <3>1, ChainAssumption, MaxOf
  <2>5. j \in Chained /\ j < i
    BY <2>4 DEF Before
  <2>6. LinkLeads(i) /\ GapCrossed(i)
    BY <2>2, <2>3 DEF ChainInv
  <2>7. CASE rows[i].prev < j
    BY <2>1, <2>3, <2>5, <2>6, <2>7 DEF GapCrossed
  <2>8. CASE rows[i].prev > j
    <3>1. rows[i].prev \notin Before(i) /\ rows[i].prev < i
      BY <2>3, <2>4, <2>5, <2>6, <2>8 DEF GapCrossed
    <3>2. rows[i].prev \notin Chained /\ rows[i].prev # 0
      BY <2>3, <2>5, <2>8, <3>1 DEF Before
    <3>3. rows[i].prev \in purged
      BY <2>3, <2>6, <3>2 DEF LinkLeads
    <3>4. QED
      BY <2>1, <2>8, <3>3
  <2>9. QED
    BY <2>2, <2>3, <2>5, <2>7, <2>8
<1>2. QED
  BY <1>1, ChainInvariance, PTL
=============================================================================
