------------------------------- MODULE EtlRun -------------------------------
(***************************************************************************)
(* run_etl of database/etl.py: the star schema built from the movements in *)
(* stages that commit one by one, behind an advisory lock and a watermark, *)
(* by web threads, queue workers and the command line at the same time.    *)
(*                                                                         *)
(* A fact row is abstracted to the movements it aggregates.  Ids come from *)
(* a sequence when a movement is inserted and become visible at its        *)
(* commit, in any order; its day is the day it was inserted.               *)
(***************************************************************************)
EXTENDS Integers, FiniteSets, FiniteSetsExt

CONSTANTS Runners,     \* processes that call run_etl
          NoRunner,    \* holder of the free advisory lock
          MaxMovements, MaxDay, MaxProduct, MaxRuns

ASSUME EtlAssumption ==
  /\ NoRunner \notin Runners /\ MaxMovements \in Nat /\ MaxRuns \in Nat
  /\ MaxDay \in Nat \ {0} /\ MaxProduct \in Nat \ {0}

Ids  == 1..MaxMovements
Days == 1..MaxDay

VARIABLES
  moves,     \* id -> [st, day, product]; st: "none", "open", "done", "gone"
  day,       \* CURRENT_DATE
  products,  \* products 1..products exist
  dates,     \* dim_date
  dims,      \* skus of dim_product
  facts,     \* fact_movement_daily: day -> movements aggregated in its rows
  stockDays, \* days with rows in fact_inventory_daily
  mark,      \* etl_state['last_movement_id']
  lock,      \* advisory lock 774001: the session of a runner
  run,       \* what each runner does
  status,    \* etl_warehouse_state['etl_job_status']
  runs,      \* runs started, bounded by MaxRuns
  overtaken  \* history: movements that committed below a watermark already chosen

etlVars == <<moves, day, products, dates, dims, facts, stockDays, mark, lock, run, status,
             runs, overtaken>>

NoMove == [st |-> "none", day |-> 1, product |-> 1]
Idle   == [pc |-> "idle"]

\* max is -1 until SELECT MAX(id) has run.
Plan == [pc : {"lock", "plan", "bounds", "dates", "dims", "facts", "stock", "last"},
         full : BOOLEAN, first : Days, last : Days, max : -1..MaxMovements]

EtlTypeOK ==
  /\ moves \in [Ids -> [st : {"none", "open", "done", "gone"}, day : Days, product : 1..MaxProduct]]
  /\ day \in Days /\ products \in 1..MaxProduct
  /\ dates \subseteq Days /\ dims \subseteq 101..(100 + MaxProduct)
  /\ facts \in [Days -> SUBSET Ids] /\ stockDays \subseteq Days
  /\ mark \in 0..MaxMovements
  /\ lock \in Runners \cup {NoRunner}
  /\ run \in [Runners -> Plan \cup {Idle}]
  /\ status \in {"none", "running", "failed", "success"}
  /\ runs \in 0..MaxRuns /\ overtaken \subseteq Ids

EtlInit ==
  /\ moves = [i \in Ids |-> NoMove] /\ day = 1 /\ products = 1
  /\ dates = {} /\ dims = {} /\ facts = [d \in Days |-> {}] /\ stockDays = {}
  /\ mark = 0 /\ lock = NoRunner
  /\ run = [r \in Runners |-> Idle]
  /\ status = "none" /\ runs = 0 /\ overtaken = {}

Sku(p)    == 100 + p
Committed == {i \in Ids : moves[i].st = "done"}
MaxId     == Max(Committed \cup {0})
DaysOf(S) == {moves[i].day : i \in S}

etl  == <<dates, dims, facts, stockDays, mark, lock, run, status, runs>>
shop == <<moves, day, products, overtaken>>

-----------------------------------------------------------------------------
(* The operational tables *)

Allocated == {i \in Ids : moves[i].st # "none"}

\* INSERT INTO movements takes the next id.
MoveInsert(p) ==
  LET i == Cardinality(Allocated) + 1 IN
  /\ i \in Ids
  /\ moves' = [moves EXCEPT ![i] = [st |-> "open", day |-> day, product |-> p]]
  /\ UNCHANGED <<day, products, overtaken, etl>>

\* A run has chosen a watermark at or above the movement, or, in a full
\* rebuild, its first day before its watermark.
AtRisk(i) ==
  \E r \in Runners : run[r].pc \notin {"idle", "lock"} /\ (i <= run[r].max \/ run[r].pc = "bounds")

MoveCommit(i) ==
  /\ moves[i].st = "open"
  /\ moves' = [moves EXCEPT ![i].st = "done"]
  /\ overtaken' = IF AtRisk(i) \/ i <= mark THEN overtaken \cup {i} ELSE overtaken
  /\ UNCHANGED <<day, products, etl>>

MoveRollback(i) ==
  /\ moves[i].st = "open"
  /\ moves' = [moves EXCEPT ![i].st = "gone"]
  /\ UNCHANGED <<day, products, overtaken, etl>>

NewProduct ==
  /\ products < MaxProduct /\ products' = products + 1
  /\ UNCHANGED <<moves, day, overtaken, etl>>

NextDay ==
  /\ day < MaxDay /\ day' = day + 1
  /\ UNCHANGED <<moves, products, overtaken, etl>>

-----------------------------------------------------------------------------
(* run_etl *)

Goto(r, pc) == run' = [run EXCEPT ![r].pc = pc]

\* The route's thread or the queue's handler records "running" and calls
\* run_etl(force).
EtlStart(r, force) ==
  /\ run[r] = Idle /\ runs < MaxRuns
  /\ run' = [run EXCEPT ![r] = [pc |-> "lock", full |-> force, first |-> 1, last |-> 1,
                               max |-> -1]]
  /\ runs' = runs + 1
  /\ status' = "running"
  /\ UNCHANGED <<dates, dims, facts, stockDays, mark, lock, shop>>

LockFree_Ignored == lock \in Runners \cup {NoRunner}

LockFree == lock = NoRunner

\* pg_try_advisory_lock: go on, or return a skipped run, which counts as success.
EtlLock(r) ==
  /\ run[r].pc = "lock"
  /\ \/ /\ LockFree
        /\ lock' = r
        /\ Goto(r, "plan")
        /\ UNCHANGED status
     \/ /\ ~LockFree
        /\ run' = [run EXCEPT ![r] = Idle]
        /\ status' = "success"
        /\ UNCHANGED lock
  /\ UNCHANGED <<dates, dims, facts, stockDays, mark, runs, shop>>

FactsExist == \E d \in Days : facts[d] # {}

\* A run that ends: the connection is closed, which frees its lock.
End(r, outcome) ==
  /\ run' = [run EXCEPT ![r] = Idle]
  /\ lock' = IF lock = r THEN NoRunner ELSE lock
  /\ status' = outcome

\* An incremental run reads MAX(id) first and returns when there is nothing new;
\* a full one reads the first day first; without movements it goes back further
\* than the days of the model.
EtlPlan(r) ==
  /\ run[r].pc = "plan"
  /\ \/ /\ FactsExist /\ ~run[r].full /\ MaxId <= mark
        /\ End(r, "success")
     \/ /\ FactsExist /\ ~run[r].full /\ MaxId > mark
        /\ run' = [run EXCEPT ![r].pc = "bounds", ![r].max = MaxId]
        /\ UNCHANGED <<lock, status>>
     \/ /\ ~FactsExist \/ run[r].full
        /\ run' = [run EXCEPT ![r] = [@ EXCEPT !.pc = "bounds", !.full = TRUE,
                     !.first = IF Committed = {} THEN 1 ELSE Min(DaysOf(Committed)),
                     !.last = day]]
        /\ UNCHANGED <<lock, status>>
  /\ UNCHANGED <<dates, dims, facts, stockDays, mark, runs, shop>>

\* The days an incremental run has to redo, up to today; the watermark of a
\* full one.
EtlBounds(r) ==
  LET fresh == {i \in Committed : i > mark} IN
  /\ run[r].pc = "bounds"
  /\ run' = [run EXCEPT ![r] =
       IF run[r].full THEN [@ EXCEPT !.pc = "dates", !.max = MaxId]
       ELSE [@ EXCEPT !.pc = "dates", !.first = Min(DaysOf(fresh) \cup {day}),
                      !.last = Max(DaysOf(fresh) \cup {day})]]
  /\ UNCHANGED <<dates, dims, facts, stockDays, mark, lock, status, runs, shop>>

RunDays(r) == run[r].first..run[r].last

\* Stage 1, with the TRUNCATE of a full rebuild and its watermark reset.
StageDates(r) ==
  /\ run[r].pc = "dates"
  /\ IF run[r].full
     THEN /\ dates' = RunDays(r) /\ dims' = {} /\ mark' = 0
          /\ facts' = [d \in Days |-> {}] /\ stockDays' = {}
     ELSE dates' = dates \cup RunDays(r) /\ UNCHANGED <<dims, facts, stockDays, mark>>
  /\ Goto(r, "dims")
  /\ UNCHANGED <<lock, status, runs, shop>>

\* Stage 2: the missing rows of dim_product (warehouses and suppliers alike).
StageDims(r) ==
  /\ run[r].pc = "dims"
  /\ dims' = dims \cup {Sku(p) : p \in 1..products}
  /\ Goto(r, "facts")
  /\ UNCHANGED <<dates, facts, stockDays, mark, lock, status, runs, shop>>

\* The rows of a day, joined to the dimension.
Aggregate(d) == {i \in Committed : moves[i].day = d /\ Sku(moves[i].product) \in dims}

\* Stage 3: the days of the run, aggregated again from all their movements.
StageFacts(r) ==
  /\ run[r].pc = "facts"
  /\ facts' = [d \in Days |-> IF d \in RunDays(r) THEN Aggregate(d) ELSE facts[d]]
  /\ Goto(r, "stock")
  /\ UNCHANGED <<dates, dims, stockDays, mark, lock, status, runs, shop>>

\* Stage 4: the stock of each day of each product whose id is a key of the
\* map from skus, and the watermark.  A full rebuild goes back further than the
\* days of the model.
StageStock(r) ==
  LET span == IF run[r].full THEN 1..run[r].last ELSE RunDays(r) IN
  /\ run[r].pc = "stock"
  /\ stockDays' = IF \E p \in 1..products : p \in dims THEN stockDays \cup span
                  ELSE stockDays \ span
  /\ mark' = run[r].max
  /\ Goto(r, "last")
  /\ UNCHANGED <<dates, dims, facts, lock, status, runs, shop>>

\* Validation, last_run_at and the warehouse layer, whose failure is not fatal.
EtlFinish(r) ==
  /\ run[r].pc = "last"
  /\ End(r, "success")
  /\ UNCHANGED <<dates, dims, facts, stockDays, mark, runs, shop>>

\* A database error anywhere: the stage rolls back (a retry inside its failed
\* transaction cannot help) and the run raises.
EtlFail(r) ==
  /\ run[r] # Idle
  /\ End(r, "failed")
  /\ UNCHANGED <<dates, dims, facts, stockDays, mark, runs, shop>>

\* The process dies: the server drops its session and the lock.
EtlDie(r) ==
  /\ run[r] # Idle
  /\ End(r, status)
  /\ UNCHANGED <<dates, dims, facts, stockDays, mark, runs, shop>>

EtlStep(r) == EtlLock(r) \/ EtlPlan(r) \/ EtlBounds(r) \/ StageDates(r) \/ StageDims(r)
              \/ StageFacts(r) \/ StageStock(r) \/ EtlFinish(r)

EtlNext ==
  \/ \E p \in 1..products : MoveInsert(p)
  \/ \E i \in Ids : MoveCommit(i) \/ MoveRollback(i)
  \/ NewProduct \/ NextDay
  \/ \E r \in Runners : \/ \E force \in BOOLEAN : EtlStart(r, force)
                        \/ EtlStep(r) \/ EtlFail(r) \/ EtlDie(r)

EtlSpec == EtlInit /\ [][EtlNext]_etlVars

-----------------------------------------------------------------------------
(* Properties *)

\* The watermark never passes a movement that no fact row counts, whichever
\* stage a run fails or dies in and whoever runs next, except a movement that
\* committed after the run had chosen its bounds.
WatermarkCovered ==
  \A i \in Committed \ overtaken : i <= mark => i \in facts[moves[i].day]

\* No movement is counted twice or on a day that is not its own, and only
\* committed ones are counted.
FactsAreMovements ==
  \A d \in Days : facts[d] \subseteq {i \in Committed : moves[i].day = d}

\* The star schema counts the movements up to its watermark, each once, and
\* no others: run_etl commits stage by stage, may stop between two commits,
\* and runs in several processes.
FactsMatchMovements == WatermarkCovered /\ FactsAreMovements
=============================================================================
