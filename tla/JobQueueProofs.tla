--------------------------- MODULE JobQueueProofs ---------------------------
(***************************************************************************)
(* Theorems about the job queue, for any number of jobs and workers, any   *)
(* batch size, max_attempts and number of worker crashes.                  *)
(***************************************************************************)
EXTENDS JobQueue, TLAPS

\* A row with a status is a full row.
LEMMA FullRow ==
  ASSUME TypeOK, NEW j \in Jobs, row[j].status \in {"pending", "running", "completed", "dead"}
  PROVE  row[j] \in Row
BY DEF TypeOK, Absent

\* What a worker's pc says about its batch and its job.
LEMMA WorkerKind ==
  ASSUME TypeOK, NEW w \in Workers
  PROVE  /\ worker[w].pc \in {"idle", "requeued", "claiming", "batch", "handling"}
         /\ worker[w].batch \in [Jobs -> Nat \cup {-1}]
         /\ worker[w] = [pc |-> worker[w].pc, batch |-> worker[w].batch, job |-> worker[w].job]
         /\ worker[w].pc \in {"idle", "requeued"} => worker[w].batch = NoBatch
         /\ worker[w].pc \in {"claiming", "batch", "handling"} => worker[w].batch \in Claimed
         /\ worker[w].pc = "handling" => worker[w].job \in Jobs
         /\ worker[w].pc # "handling" => worker[w].job = Nobody
<1>1. worker[w] \in WorkerState
  BY DEF TypeOK
<1>2. NoBatch \in [Jobs -> Nat \cup {-1}]
  BY DEF NoBatch
<1>3. QED
  BY <1>1, <1>2 DEF WorkerState, Claimed

LEMMA IdleWorkerType == IdleWorker \in WorkerState
BY DEF IdleWorker, WorkerState

\* A running row is a full row again.
LEMMA RunningType ==
  ASSUME NEW r \in Row, NEW owner \in Workers \cup {Cron, Nobody}
  PROVE  /\ Running(r, owner) \in Row
         /\ Running(r, owner).status = "running"
         /\ Running(r, owner).attempts = r.attempts
BY DEF Running, Row

LEMMA StaleType ==
  ASSUME NEW r \in Row
  PROVE  Stale(r) \in Row
<1>1. r.attempts + 1 \in Nat
  BY DEF Row
<1>2. QED
  BY <1>1 DEF Stale, Row

\* Without only takes the job from the batch, and never forgets another.
LEMMA WithoutJob ==
  ASSUME TypeOK, NEW w \in Workers, NEW j \in Jobs
  PROVE  /\ Without(w, j) \in WorkerState
         /\ Without(w, j).pc \in {"idle", "batch"}
         /\ \A i \in Jobs : Without(w, j).batch[i] = IF i = j THEN -1 ELSE worker[w].batch[i]
<1> DEFINE rest == [worker[w].batch EXCEPT ![j] = -1]
<1>1. worker[w].batch \in [Jobs -> Nat \cup {-1}]
  BY WorkerKind
<1>2. rest \in [Jobs -> Nat \cup {-1}]
  BY <1>1
<1>3. \A i \in Jobs : rest[i] = IF i = j THEN -1 ELSE worker[w].batch[i]
  BY <1>1
<1>4. CASE rest = NoBatch
  <2>1. Without(w, j) = IdleWorker
    BY <1>4 DEF Without
  <2>2. IdleWorker.pc = "idle" /\ IdleWorker.batch = rest
    BY <1>4 DEF IdleWorker
  <2>3. QED
    BY <1>3, <2>1, <2>2, IdleWorkerType
<1>5. CASE rest # NoBatch
  <2>1. Without(w, j) = [pc |-> "batch", batch |-> rest, job |-> Nobody]
    BY <1>5 DEF Without
  <2>2. rest \in Claimed
    BY <1>2, <1>5 DEF Claimed
  <2>3. QED
    BY <1>3, <2>1, <2>2 DEF WorkerState
<1>6. QED
  BY <1>4, <1>5

LEMMA UnlockType ==
  ASSUME TypeOK, NEW w \in Workers, Unlock(w)
  PROVE  /\ rowLock' \in [Jobs -> Workers \cup {Nobody}]
         /\ \A j \in Jobs : rowLock'[j] = IF rowLock[j] = w THEN Nobody ELSE rowLock[j]
BY DEF Unlock, TypeOK

-----------------------------------------------------------------------------
(* The inductive invariant *)

Handles(w, j) == worker[w].pc = "handling" /\ worker[w].job = j

\* FOR UPDATE: a claim transaction under way has locked exactly the rows that it
\* selected, and nobody moves them out of pending meanwhile.
ClaimsLocked ==
  \A j \in Jobs, w \in Workers :
    /\ worker[w].pc = "claiming" /\ j \in Batch(w) <=> rowLock[j] = w
    /\ rowLock[j] = w => row[j].status = "pending"

\* The job in hand is one of the batch.
HandlesItsBatch == \A j \in Jobs, w \in Workers : Handles(w, j) => j \in Batch(w)

\* Why a claim cannot take a job that is being worked on: its row is running.
HeldRowsRun ==
  \A j \in Jobs \ requeued, w \in Workers : Holds(w, j) => row[j].status = "running"

\* Every start of the handler is paid for by the attempts column, except the one
\* under way, and the Job object in the worker's memory has the column's value.
RunsCounted ==
  \A j \in Jobs \ requeued :
    /\ runs[j] <= MaxAttempts
    /\ row[j] = Absent => runs[j] = 0
    /\ row[j].status = "pending" => runs[j] <= row[j].attempts /\ row[j].attempts < MaxAttempts
    /\ \A w \in Workers : j \in Batch(w) =>
         /\ worker[w].batch[j] = row[j].attempts
         /\ row[j].attempts < MaxAttempts
         /\ runs[j] <= row[j].attempts + (IF Handles(w, j) THEN 1 ELSE 0)

JobInv == /\ TypeOK
          /\ ClaimsLocked
          /\ HandlesItsBatch
          /\ ClaimsAreExclusive
          /\ HeldRowsRun
          /\ RunsCounted

\* A job that was never requeued is in one worker's memory only, claims that are
\* not committed yet included.
LEMMA SoleClaim ==
  ASSUME JobInv, NEW j \in Jobs \ requeued, NEW v \in Workers, NEW w \in Workers,
         j \in Batch(v), j \in Batch(w)
  PROVE  v = w
<1>1. CASE Holds(v, j) /\ Holds(w, j)
  BY <1>1 DEF JobInv, ClaimsAreExclusive
<1>2. CASE worker[v].pc = "claiming" /\ worker[w].pc = "claiming"
  BY <1>2 DEF JobInv, ClaimsLocked
<1>3. ASSUME NEW x \in Workers, NEW y \in Workers, j \in Batch(x), j \in Batch(y),
             worker[x].pc = "claiming", worker[y].pc # "claiming"
      PROVE  FALSE
  <2>1. row[j].status = "running"
    BY <1>3 DEF JobInv, HeldRowsRun, Holds
  <2>2. rowLock[j] = x /\ rowLock[j] # Nobody
    BY <1>3, NobodyAssumption DEF JobInv, ClaimsLocked
  <2>3. QED
    BY <2>1, <2>2 DEF JobInv, ClaimsLocked
<1>4. QED
  BY <1>1, <1>2, <1>3 DEF Holds

-----------------------------------------------------------------------------
(* Steps that leave the workers alone *)

\* A step on rows that no claim has locked and that gives no job back to pending
\* unless it is new.
LEMMA TableStep ==
  ASSUME JobInv, TypeOK',
         UNCHANGED <<rowLock, worker, requeued, runs>>,
         \A j \in Jobs :
           \/ row'[j] = row[j]
           \/ /\ row[j] = Absent
              /\ row'[j].status = "pending" /\ row'[j].attempts = 0
           \/ /\ row[j] # Absent /\ row'[j] # Absent
              /\ row'[j].attempts = row[j].attempts
              /\ \/ row'[j].status = row[j].status
                 \/ row'[j].status = "running" /\ row[j].status = "pending" /\ rowLock[j] = Nobody
  PROVE  JobInv'
<1> /\ \A w \in Workers : Batch(w)' = Batch(w)
    /\ \A w \in Workers, j \in Jobs : (Holds(w, j)' <=> Holds(w, j)) /\ (Handles(w, j)' <=> Handles(w, j))
  BY DEF Batch, Holds, Handles
<1>1. Absent.status = "absent"
  BY DEF Absent
<1>2. ClaimsLocked'
  <2>1. \A j \in Jobs, w \in Workers : rowLock[j] = w => row'[j].status = "pending"
    BY <1>1, NobodyAssumption DEF JobInv, ClaimsLocked
  <2>2. QED
    BY <2>1 DEF JobInv, ClaimsLocked
<1>3. HandlesItsBatch' /\ ClaimsAreExclusive'
  BY DEF JobInv, HandlesItsBatch, ClaimsAreExclusive
<1>4. HeldRowsRun'
  <2>1. SUFFICES ASSUME NEW j \in Jobs \ requeued, NEW w \in Workers, Holds(w, j)
                 PROVE  row'[j].status = "running"
    BY DEF HeldRowsRun
  <2>2. row[j].status = "running"
    BY <2>1 DEF JobInv, HeldRowsRun
  <2>3. QED
    BY <1>1, <2>2
<1>5. RunsCounted'
  <2>1. SUFFICES ASSUME NEW j \in Jobs \ requeued
                 PROVE  /\ runs[j] <= MaxAttempts
                        /\ row'[j] = Absent => runs[j] = 0
                        /\ row'[j].status = "pending" => runs[j] <= row'[j].attempts /\ row'[j].attempts < MaxAttempts
                        /\ \A w \in Workers : j \in Batch(w) =>
                             /\ worker[w].batch[j] = row'[j].attempts
                             /\ row'[j].attempts < MaxAttempts
                             /\ runs[j] <= row'[j].attempts + (IF Handles(w, j) THEN 1 ELSE 0)
    BY DEF RunsCounted
  <2>2. row[j] = Absent => \A w \in Workers : j \notin Batch(w)
    <3>1. SUFFICES ASSUME row[j] = Absent, NEW w \in Workers, j \in Batch(w)
                   PROVE  FALSE
      OBVIOUS
    <3>2. CASE Holds(w, j)
      BY <1>1, <3>1, <3>2 DEF JobInv, HeldRowsRun
    <3>3. CASE worker[w].pc = "claiming"
      BY <1>1, <3>1, <3>3, NobodyAssumption DEF JobInv, ClaimsLocked
    <3>4. QED
      BY <3>1, <3>2, <3>3 DEF Holds
  <2>3. CASE row'[j] = row[j]
    BY <2>3 DEF JobInv, RunsCounted
  <2>4. CASE row[j] = Absent /\ row'[j].status = "pending" /\ row'[j].attempts = 0
    <3>1. runs[j] = 0
      BY <2>4 DEF JobInv, RunsCounted
    <3>2. row'[j] # Absent
      BY <1>1, <2>4
    <3>3. QED
      BY <2>2, <2>4, <3>1, <3>2, MaxAttemptsAssumption DEF JobInv, RunsCounted
  <2>5. CASE /\ row[j] # Absent /\ row'[j] # Absent
             /\ row'[j].attempts = row[j].attempts
             /\ row'[j].status \in {row[j].status, "running"}
    BY <2>5 DEF JobInv, RunsCounted
  <2>6. QED
    BY <2>3, <2>4, <2>5
<1>6. QED
  BY <1>2, <1>3, <1>4, <1>5 DEF JobInv

LEMMA EnqueueStep ==
  ASSUME JobInv, NEW j \in Jobs, Enqueue(j)
  PROVE  JobInv'
<1>1. PICK now \in BOOLEAN :
        row' = [row EXCEPT ![j] = [status |-> "pending", attempts |-> 0, due |-> now,
                                   stale |-> FALSE, locked_by |-> Nobody]]
  BY DEF Enqueue
<1>2. [status |-> "pending", attempts |-> 0, due |-> now, stale |-> FALSE, locked_by |-> Nobody] \in Row
  BY DEF Row
<1>3. TypeOK'
  BY <1>1, <1>2 DEF Enqueue, JobInv, TypeOK
<1>4. /\ row[j] = Absent /\ row'[j].status = "pending" /\ row'[j].attempts = 0
      /\ \A i \in Jobs : i # j => row'[i] = row[i]
  BY <1>1 DEF Enqueue, JobInv, TypeOK
<1>5. QED
  BY <1>3, <1>4, TableStep DEF Enqueue

LEMMA ClockStep ==
  ASSUME JobInv, NEW j \in Jobs, Clock(j)
  PROVE  JobInv'
<1>1. row[j] \in Row /\ row \in [Jobs -> Row \cup {Absent}]
  BY FullRow DEF JobInv, TypeOK, Clock, BecomeDue, BecomeStale
<1>2. PICK r \in {[row[j] EXCEPT !.due = TRUE], [row[j] EXCEPT !.stale = TRUE]} :
        row' = [row EXCEPT ![j] = r]
  BY DEF Clock, BecomeDue, BecomeStale
<1>3. r \in Row /\ r.attempts = row[j].attempts /\ r.status = row[j].status
  BY <1>1, <1>2 DEF Row
<1>4. UNCHANGED <<rowLock, worker, requeued, runs, crashes>>
  BY DEF Clock, BecomeDue, BecomeStale
<1>5. TypeOK'
  BY <1>1, <1>2, <1>3, <1>4 DEF JobInv, TypeOK
<1>6. row'[j] = r /\ \A i \in Jobs : i # j => row'[i] = row[i]
  BY <1>1, <1>2
<1>7. r # Absent /\ row[j] # Absent
  BY <1>1, <1>3 DEF Row, Absent
<1>8. QED
  BY <1>3, <1>4, <1>5, <1>6, <1>7, TableStep

LEMMA CronStep ==
  ASSUME JobInv, CronDispatch
  PROVE  JobInv'
<1>1. PICK S \in Picks \ {{}} :
        /\ row' = [j \in Jobs |-> IF j \in S THEN Running(row[j], Cron) ELSE row[j]]
        /\ UNCHANGED <<rowLock, worker, requeued, runs, crashes>>
  BY DEF CronDispatch
<1>2. \A j \in S : j \in Jobs /\ row[j].status = "pending" /\ rowLock[j] = Nobody
  BY <1>1 DEF Picks, Due
<1>3. \A j \in S : row[j] \in Row
  BY <1>2, FullRow DEF JobInv
<1>4. \A j \in S : /\ Running(row[j], Cron) \in Row
                   /\ Running(row[j], Cron).status = "running"
                   /\ Running(row[j], Cron).attempts = row[j].attempts
  BY <1>3, RunningType
<1>5. TypeOK'
  BY <1>1, <1>4 DEF JobInv, TypeOK
<1>6. \A j \in Jobs : row'[j] = IF j \in S THEN Running(row[j], Cron) ELSE row[j]
  BY <1>1
<1>7. \A j \in S : row[j] # Absent /\ row'[j] # Absent
  BY <1>2, <1>3, <1>4, <1>6 DEF Row, Absent
<1>8. QED
  BY <1>1, <1>2, <1>4, <1>5, <1>6, <1>7, TableStep

-----------------------------------------------------------------------------
(* Steps of a worker that leave the rows alone, or only take running ones    *)

\* Worker w gives up its claims, or its job, and row' differs on jobs it no
\* longer holds only.
LEMMA LeaveStep ==
  ASSUME JobInv, TypeOK', NEW w \in Workers,
         \A v \in Workers : v # w => worker'[v] = worker[v],
         requeued' = requeued, runs' = runs,
         worker'[w].pc \notin {"claiming", "handling"},
         \A j \in Jobs : worker'[w].batch[j] \in {-1, worker[w].batch[j]},
         worker[w].pc = "claiming" => \A j \in Jobs : worker'[w].batch[j] = -1,
         \A j \in Jobs : Handles(w, j) => worker'[w].batch[j] = -1,
         \A j \in Jobs : rowLock'[j] = IF rowLock[j] = w THEN Nobody ELSE rowLock[j],
         \A j \in Jobs :
           \/ row'[j] = row[j]
           \/ /\ Handles(w, j) /\ row[j].status = "running"
              /\ \/ row'[j].status \in {"completed", "dead"}
                 \/ /\ row'[j].status = "pending"
                    /\ row'[j].attempts = row[j].attempts + 1
                    /\ worker[w].batch[j] + 1 < MaxAttempts
  PROVE  JobInv'
<1> TypeOK
  BY DEF JobInv
<1>0. Absent.status = "absent"
  BY DEF Absent
<1>1. \A v \in Workers, j \in Jobs : j \in Batch(v)' =>
        j \in Batch(v) /\ (v = w => worker[v].pc # "claiming" /\ ~Handles(w, j))
  BY DEF Batch
<1>2. \A v \in Workers, j \in Jobs : v # w =>
        /\ j \in Batch(v)' <=> j \in Batch(v)
        /\ Holds(v, j)' <=> Holds(v, j)
        /\ Handles(v, j)' <=> Handles(v, j)
  BY DEF Batch, Holds, Handles
<1>3. \A j \in Jobs : (Holds(w, j)' => Holds(w, j) /\ ~Handles(w, j)) /\ ~Handles(w, j)'
  BY <1>1 DEF Holds, Handles
<1>4. ClaimsLocked'
  <2>1. SUFFICES ASSUME NEW j \in Jobs, NEW v \in Workers
                 PROVE  /\ worker'[v].pc = "claiming" /\ j \in Batch(v)' <=> rowLock'[j] = v
                        /\ rowLock'[j] = v => row'[j].status = "pending"
    BY DEF ClaimsLocked
  <2>2. CASE v = w
    BY <2>2, NobodyAssumption
  <2>3. CASE v # w
    <3>1. rowLock'[j] = v <=> rowLock[j] = v
      BY <2>3, NobodyAssumption
    <3>2. rowLock[j] = v => row[j].status = "pending" /\ row'[j] = row[j]
      BY DEF JobInv, ClaimsLocked
    <3>3. QED
      BY <1>2, <2>3, <3>1, <3>2 DEF JobInv, ClaimsLocked
  <2>4. QED
    BY <2>2, <2>3
<1>5. HandlesItsBatch'
  BY <1>2, <1>3 DEF JobInv, HandlesItsBatch
<1>6. ClaimsAreExclusive'
  BY <1>2, <1>3 DEF JobInv, ClaimsAreExclusive
<1>7. HeldRowsRun'
  <2>1. SUFFICES ASSUME NEW j \in Jobs \ requeued, NEW v \in Workers, Holds(v, j)'
                 PROVE  row'[j].status = "running"
    BY DEF HeldRowsRun
  <2>2. Holds(v, j) /\ row[j].status = "running"
    BY <1>2, <1>3, <2>1 DEF JobInv, HeldRowsRun
  <2>3. ~Handles(w, j)
    <3>1. Handles(w, j) => Holds(w, j)
      BY DEF JobInv, HandlesItsBatch, Handles, Holds
    <3>2. QED
      BY <1>3, <2>1, <2>2, <3>1 DEF JobInv, ClaimsAreExclusive
  <2>4. QED
    BY <2>2, <2>3
<1>8. RunsCounted'
  <2>1. SUFFICES ASSUME NEW j \in Jobs \ requeued
                 PROVE  /\ runs[j] <= MaxAttempts
                        /\ row'[j] = Absent => runs[j] = 0
                        /\ row'[j].status = "pending" => runs[j] <= row'[j].attempts /\ row'[j].attempts < MaxAttempts
                        /\ \A v \in Workers : j \in Batch(v)' =>
                             /\ worker'[v].batch[j] = row'[j].attempts
                             /\ row'[j].attempts < MaxAttempts
                             /\ runs[j] <= row'[j].attempts + (IF Handles(v, j)' THEN 1 ELSE 0)
    BY DEF RunsCounted
  <2>2. \A v \in Workers : j \in Batch(v)' =>
          /\ j \in Batch(v) /\ worker'[v].batch[j] = worker[v].batch[j]
          /\ Handles(v, j)' <=> Handles(v, j)
    BY <1>1, <1>2, <1>3 DEF Batch
  <2>3. CASE row'[j] = row[j]
    BY <2>2, <2>3 DEF JobInv, RunsCounted
  <2>4. CASE /\ Handles(w, j) /\ row[j].status = "running"
             /\ \/ row'[j].status \in {"completed", "dead"}
                \/ /\ row'[j].status = "pending"
                   /\ row'[j].attempts = row[j].attempts + 1
                   /\ worker[w].batch[j] + 1 < MaxAttempts
    <3>1. j \in Batch(w)
      BY <2>4 DEF JobInv, HandlesItsBatch
    <3>2. \A v \in Workers : j \notin Batch(v)'
      BY <1>1, <2>2, <2>4, <3>1, SoleClaim
    <3>3. /\ runs[j] <= row[j].attempts + 1
          /\ worker[w].batch[j] = row[j].attempts
          /\ runs[j] <= MaxAttempts
      BY <2>4, <3>1 DEF JobInv, RunsCounted
    <3>4. row'[j] # Absent
      BY <1>0, <2>4
    <3>5. QED
      BY <2>4, <3>2, <3>3, <3>4
  <2>5. QED
    BY <2>3, <2>4
<1>9. QED
  BY <1>4, <1>5, <1>6, <1>7, <1>8 DEF JobInv

\* A worker that is not claiming has no row locked.
LEMMA NoLock ==
  ASSUME JobInv, NEW w \in Workers, worker[w].pc # "claiming"
  PROVE  \A j \in Jobs : rowLock[j] # w
BY DEF JobInv, ClaimsLocked

LEMMA CrashStep ==
  ASSUME JobInv, NEW w \in Workers, Crash(w)
  PROVE  JobInv'
<1> TypeOK
  BY DEF JobInv
<1>1. /\ worker' \in [Workers -> WorkerState]
      /\ worker'[w] = IdleWorker /\ \A v \in Workers : v # w => worker'[v] = worker[v]
  BY IdleWorkerType DEF Crash, TypeOK
<1>2. crashes' \in 0..MaxCrashes
  BY MaxCrashesAssumption DEF Crash, TypeOK
<1>3. TypeOK'
  BY <1>1, <1>2, UnlockType DEF Crash, TypeOK
<1>4. worker'[w].pc = "idle" /\ \A j \in Jobs : worker'[w].batch[j] = -1
  BY <1>1 DEF IdleWorker, NoBatch
<1>5. /\ requeued' = requeued /\ runs' = runs /\ row' = row
      /\ \A j \in Jobs : rowLock'[j] = IF rowLock[j] = w THEN Nobody ELSE rowLock[j]
  BY UnlockType DEF Crash
<1>6. QED
  BY <1>1, <1>3, <1>4, <1>5, LeaveStep

LEMMA UnknownStep ==
  ASSUME JobInv, NEW w \in Workers, NEW j \in Jobs, ExecuteUnknown(w, j)
  PROVE  JobInv'
<1> TypeOK
  BY DEF JobInv
<1>1. /\ worker' \in [Workers -> WorkerState]
      /\ worker'[w] = Without(w, j) /\ \A v \in Workers : v # w => worker'[v] = worker[v]
  BY WithoutJob DEF ExecuteUnknown, TypeOK
<1>2. TypeOK'
  BY <1>1 DEF ExecuteUnknown, TypeOK
<1>3. /\ requeued' = requeued /\ runs' = runs /\ row' = row
      /\ worker[w].pc = "batch"
      /\ \A i \in Jobs : rowLock'[i] = IF rowLock[i] = w THEN Nobody ELSE rowLock[i]
  BY NoLock DEF ExecuteUnknown
<1>4. /\ worker'[w].pc \notin {"claiming", "handling"}
      /\ \A i \in Jobs : worker'[w].batch[i] \in {-1, worker[w].batch[i]} /\ ~Handles(w, i)
  BY <1>1, <1>3, WithoutJob DEF Handles
<1>5. QED
  BY <1>1, <1>2, <1>3, <1>4, LeaveStep

\* The end of an execution, whatever it writes.
LEMMA EndStep ==
  ASSUME JobInv, NEW w \in Workers, NEW r, ExecuteEnd(w, r),
         Writable(worker[w].job) =>
           \/ r = row[worker[w].job]
           \/ /\ r \in Row
              /\ \/ r.status \in {"completed", "dead"}
                 \/ /\ r.status = "pending"
                    /\ r.attempts = row[worker[w].job].attempts + 1
                    /\ worker[w].batch[worker[w].job] + 1 < MaxAttempts
  PROVE  JobInv'
<1> TypeOK
  BY DEF JobInv
<1> DEFINE j == worker[w].job
<1>1. worker[w].pc = "handling" /\ j \in Jobs
  BY WorkerKind DEF ExecuteEnd
<1>2. /\ worker' \in [Workers -> WorkerState]
      /\ worker'[w] = Without(w, j) /\ \A v \in Workers : v # w => worker'[v] = worker[v]
  BY <1>1, WithoutJob DEF ExecuteEnd, TypeOK
<1>3. row' \in [Jobs -> Row \cup {Absent}]
  BY <1>1 DEF ExecuteEnd, TypeOK
<1>4. TypeOK'
  BY <1>2, <1>3 DEF ExecuteEnd, TypeOK
<1>5. /\ requeued' = requeued /\ runs' = runs
      /\ \A i \in Jobs : rowLock'[i] = IF rowLock[i] = w THEN Nobody ELSE rowLock[i]
  BY <1>1, NoLock DEF ExecuteEnd
<1>6. /\ worker'[w].pc \notin {"claiming", "handling"}
      /\ worker'[w].batch[j] = -1
      /\ \A i \in Jobs : worker'[w].batch[i] \in {-1, worker[w].batch[i]}
  BY <1>1, <1>2, WithoutJob
<1>7. Handles(w, j) /\ \A i \in Jobs : Handles(w, i) => i = j
  BY <1>1 DEF Handles
<1>8. \A i \in Jobs : row'[i] # row[i] => i = j /\ row[j].status = "running" /\ row'[j] = r
  BY <1>1 DEF ExecuteEnd, TypeOK, Writable
<1>9. ASSUME row'[j] # row[j]
      PROVE  \/ row'[j].status \in {"completed", "dead"}
             \/ /\ row'[j].status = "pending"
                /\ row'[j].attempts = row[j].attempts + 1
                /\ worker[w].batch[j] + 1 < MaxAttempts
  BY <1>1, <1>8, <1>9 DEF Writable
<1>10. QED
  BY <1>1, <1>2, <1>4, <1>5, <1>6, <1>7, <1>8, <1>9, LeaveStep

LEMMA ExecuteEndStep ==
  ASSUME JobInv, NEW w \in Workers, ExecuteOk(w) \/ ExecuteFail(w) \/ ExecuteLost(w)
  PROVE  JobInv'
<1> TypeOK
  BY DEF JobInv
<1> DEFINE j == worker[w].job
<1>1. worker[w].pc = "handling" /\ j \in Jobs
  BY WorkerKind DEF ExecuteOk, ExecuteFail, ExecuteLost, ExecuteEnd
<1>2. Writable(j) => row[j] \in Row
  BY <1>1, FullRow DEF Writable
<1>3. CASE ExecuteOk(w)
  <2>1. Writable(j) => /\ [row[j] EXCEPT !.status = "completed"] \in Row
                       /\ [row[j] EXCEPT !.status = "completed"].status = "completed"
    BY <1>2 DEF Row
  <2>2. QED
    BY <1>3, <2>1, EndStep DEF ExecuteOk
<1>4. CASE ExecuteFail(w)
  <2>1. CASE LastAttempt(w)
    <3>1. Writable(j) => /\ [row[j] EXCEPT !.status = "dead"] \in Row
                         /\ [row[j] EXCEPT !.status = "dead"].status = "dead"
      BY <1>2 DEF Row
    <3>2. ExecuteEnd(w, [row[j] EXCEPT !.status = "dead"])
      BY <1>4, <2>1 DEF ExecuteFail
    <3>3. QED
      BY <3>1, <3>2, EndStep
  <2>2. CASE ~LastAttempt(w)
    <3> DEFINE r == [row[j] EXCEPT !.status = "pending", !.attempts = @ + 1, !.due = FALSE]
    <3>1. Writable(j) => r \in Row /\ r.status = "pending" /\ r.attempts = row[j].attempts + 1
      <4>1. Writable(j) => row[j].attempts + 1 \in Nat
        BY <1>2 DEF Row
      <4>2. QED
        BY <1>2, <4>1 DEF Row
    <3>2. worker[w].batch[j] + 1 < MaxAttempts
      <4>1. worker[w].batch[j] \in Nat \cup {-1}
        BY <1>1, WorkerKind
      <4>2. QED
        BY <2>2, <4>1, MaxAttemptsAssumption DEF LastAttempt
    <3>3. ExecuteEnd(w, r)
      BY <1>4, <2>2 DEF ExecuteFail
    <3>4. QED
      BY <3>1, <3>2, <3>3, EndStep
  <2>3. QED
    BY <2>1, <2>2
<1>5. CASE ExecuteLost(w)
  BY <1>5, EndStep DEF ExecuteLost
<1>6. QED
  BY <1>3, <1>4, <1>5

LEMMA RequeueStep ==
  ASSUME JobInv, NEW w \in Workers, RequeueStale(w)
  PROVE  JobInv'
<1> TypeOK
  BY DEF JobInv
<1>1. /\ worker[w].pc = "idle" /\ UNCHANGED <<rowLock, runs, crashes>>
      /\ requeued' = requeued \cup {j \in Jobs : IsStale(j)}
      /\ \A j \in Jobs : row'[j] = IF IsStale(j) THEN Stale(row[j]) ELSE row[j]
  BY DEF RequeueStale
<1>2. /\ worker' \in [Workers -> WorkerState]
      /\ worker'[w].pc = "requeued" /\ worker'[w].batch = worker[w].batch
      /\ \A v \in Workers : v # w => worker'[v] = worker[v]
  <2>1. worker[w] = [pc |-> "idle", batch |-> NoBatch, job |-> Nobody]
    BY <1>1, WorkerKind
  <2>2. worker' = [worker EXCEPT ![w] = [pc |-> "requeued", batch |-> NoBatch, job |-> Nobody]]
    <3>1. [worker[w] EXCEPT !.pc = "requeued"] = [pc |-> "requeued", batch |-> NoBatch, job |-> Nobody]
      BY <2>1
    <3>2. worker' = [worker EXCEPT ![w] = [worker[w] EXCEPT !.pc = "requeued"]]
      BY DEF RequeueStale
    <3>3. QED
      BY <3>1, <3>2
  <2>3. [pc |-> "requeued", batch |-> NoBatch, job |-> Nobody] \in WorkerState
    BY DEF WorkerState
  <2>4. QED
    BY <2>1, <2>2, <2>3 DEF TypeOK
<1>3. row' \in [Jobs -> Row \cup {Absent}]
  <2>1. \A j \in Jobs : IsStale(j) => Stale(row[j]) \in Row
    BY FullRow, StaleType DEF IsStale
  <2>2. QED
    BY <2>1 DEF RequeueStale, TypeOK
<1>4. TypeOK'
  BY <1>1, <1>2, <1>3 DEF TypeOK
<1>5. /\ \A v \in Workers, j \in Jobs : j \in Batch(v)' <=> j \in Batch(v)
      /\ \A v \in Workers, j \in Jobs : Holds(v, j)' <=> Holds(v, j)
      /\ \A v \in Workers, j \in Jobs : Handles(v, j)' <=> Handles(v, j)
      /\ \A v \in Workers : worker'[v].batch = worker[v].batch
      /\ \A v \in Workers : worker'[v].pc = "claiming" <=> worker[v].pc = "claiming"
  BY <1>1, <1>2 DEF Batch, Holds, Handles
<1>6. \A j \in Jobs \ requeued' : j \in Jobs \ requeued /\ row'[j] = row[j]
  BY <1>1
<1>7. ClaimsLocked'
  <2>1. \A j \in Jobs, v \in Workers : rowLock[j] = v => row[j].status = "pending" /\ row'[j] = row[j]
    BY <1>1 DEF JobInv, ClaimsLocked, IsStale
  <2>2. QED
    BY <1>1, <1>5, <2>1 DEF JobInv, ClaimsLocked
<1>8. HandlesItsBatch' /\ ClaimsAreExclusive' /\ HeldRowsRun'
  BY <1>5, <1>6 DEF JobInv, HandlesItsBatch, ClaimsAreExclusive, HeldRowsRun
<1>9. RunsCounted'
  BY <1>1, <1>5, <1>6 DEF JobInv, RunsCounted
<1>10. QED
  BY <1>4, <1>7, <1>8, <1>9 DEF JobInv

LEMMA SelectStep ==
  ASSUME JobInv, NEW w \in Workers, ClaimSelect(w)
  PROVE  JobInv'
<1> TypeOK
  BY DEF JobInv
<1>1. PICK S \in Picks :
        /\ worker[w].pc = "requeued"
        /\ rowLock' = [j \in Jobs |-> IF j \in S THEN w ELSE rowLock[j]]
        /\ worker' = [worker EXCEPT
             ![w] = IF S = {} THEN IdleWorker
                    ELSE [pc |-> "claiming", job |-> Nobody,
                          batch |-> [j \in Jobs |-> IF j \in S THEN row[j].attempts ELSE -1]]]
        /\ UNCHANGED <<row, requeued, runs, crashes>>
  BY DEF ClaimSelect
<1> DEFINE b == [j \in Jobs |-> IF j \in S THEN row[j].attempts ELSE -1]
           new == IF S = {} THEN IdleWorker ELSE [pc |-> "claiming", job |-> Nobody, batch |-> b]
<1>2. \A j \in S : j \in Jobs /\ row[j].status = "pending" /\ rowLock[j] = Nobody
  BY <1>1 DEF Picks, Due
<1>3. \A j \in S : row[j] \in Row /\ row[j].attempts \in Nat
  BY <1>2, FullRow DEF Row
<1>4. b \in [Jobs -> Nat \cup {-1}] /\ \A j \in Jobs : b[j] # -1 <=> j \in S
  BY <1>3
<1>5. /\ new \in WorkerState /\ new.pc # "handling"
      /\ new.pc = "claiming" <=> S # {}
      /\ \A j \in Jobs : new.batch[j] = b[j]
  <2>1. CASE S = {}
    BY <2>1, IdleWorkerType DEF IdleWorker, NoBatch
  <2>2. CASE S # {}
    <3>1. b \in Claimed
      BY <1>2, <1>4, <2>2 DEF Claimed, NoBatch
    <3>2. [pc |-> "claiming", job |-> Nobody, batch |-> b] \in WorkerState
      BY <3>1 DEF WorkerState
    <3>3. QED
      BY <2>2, <3>2
  <2>3. QED
    BY <2>1, <2>2
<1>6. /\ worker' \in [Workers -> WorkerState]
      /\ worker'[w] = new /\ \A v \in Workers : v # w => worker'[v] = worker[v]
  BY <1>1, <1>5 DEF TypeOK
<1>7. /\ rowLock' \in [Jobs -> Workers \cup {Nobody}]
      /\ \A j \in Jobs : rowLock'[j] = IF j \in S THEN w ELSE rowLock[j]
  BY <1>1 DEF TypeOK
<1>8. TypeOK'
  BY <1>1, <1>6, <1>7 DEF TypeOK
<1>9. /\ \A v \in Workers, j \in Jobs : v # w => (j \in Batch(v)' <=> j \in Batch(v))
      /\ \A j \in Jobs : j \in Batch(w)' <=> j \in S
      /\ \A v \in Workers, j \in Jobs : Holds(v, j)' <=> Holds(v, j) /\ v # w
      /\ \A v \in Workers, j \in Jobs : Handles(v, j)' <=> Handles(v, j) /\ v # w
  BY <1>4, <1>5, <1>6 DEF Batch, Holds, Handles
<1>10. ClaimsLocked'
  <2>1. SUFFICES ASSUME NEW j \in Jobs, NEW v \in Workers
                 PROVE  /\ worker'[v].pc = "claiming" /\ j \in Batch(v)' <=> rowLock'[j] = v
                        /\ rowLock'[j] = v => row'[j].status = "pending"
    BY DEF ClaimsLocked
  <2>2. CASE v = w
    BY <1>1, <1>2, <1>5, <1>6, <1>7, <1>9, <2>2, NoLock
  <2>3. CASE v # w
    <3>1. rowLock'[j] = v <=> rowLock[j] = v
      BY <1>2, <1>7, <2>3, NobodyAssumption
    <3>2. QED
      BY <1>1, <1>6, <1>9, <2>3, <3>1 DEF JobInv, ClaimsLocked
  <2>4. QED
    BY <2>2, <2>3
<1>11. HandlesItsBatch' /\ ClaimsAreExclusive' /\ HeldRowsRun'
  BY <1>1, <1>9 DEF JobInv, HandlesItsBatch, ClaimsAreExclusive, HeldRowsRun
<1>12. RunsCounted'
  <2>1. SUFFICES ASSUME NEW j \in Jobs \ requeued, NEW v \in Workers, j \in Batch(v)'
                 PROVE  /\ worker'[v].batch[j] = row[j].attempts
                        /\ row[j].attempts < MaxAttempts
                        /\ runs[j] <= row[j].attempts + (IF Handles(v, j)' THEN 1 ELSE 0)
    BY <1>1 DEF JobInv, RunsCounted
  <2>2. CASE v = w
    <3>1. j \in S /\ worker'[v].batch[j] = row[j].attempts
      BY <1>5, <1>6, <1>9, <2>1, <2>2
    <3>2. runs[j] <= row[j].attempts /\ row[j].attempts < MaxAttempts
      BY <1>2, <3>1 DEF JobInv, RunsCounted
    <3>3. ~Handles(v, j)'
      BY <1>9, <2>2
    <3>4. QED
      BY <1>3, <3>1, <3>2, <3>3
  <2>3. CASE v # w
    BY <1>6, <1>9, <2>1, <2>3 DEF JobInv, RunsCounted
  <2>4. QED
    BY <2>2, <2>3
<1>13. QED
  BY <1>8, <1>10, <1>11, <1>12 DEF JobInv

LEMMA CommitStep ==
  ASSUME JobInv, NEW w \in Workers, ClaimCommit(w)
  PROVE  JobInv'
<1> TypeOK
  BY DEF JobInv
<1>1. /\ worker[w].pc = "claiming" /\ UNCHANGED <<requeued, runs, crashes>>
      /\ \A j \in Jobs : row'[j] = IF j \in Batch(w) THEN Running(row[j], w) ELSE row[j]
      /\ \A j \in Jobs : rowLock'[j] = IF rowLock[j] = w THEN Nobody ELSE rowLock[j]
      /\ rowLock' \in [Jobs -> Workers \cup {Nobody}]
  BY UnlockType DEF ClaimCommit
<1>2. \A j \in Jobs : /\ j \in Batch(w) <=> rowLock[j] = w
                      /\ j \in Batch(w) => row[j].status = "pending" /\ row[j] \in Row
  BY <1>1, FullRow DEF JobInv, ClaimsLocked
<1>3. \A j \in Jobs : j \in Batch(w) => /\ row'[j] \in Row
                                        /\ row'[j].status = "running"
                                        /\ row'[j].attempts = row[j].attempts
  BY <1>1, <1>2, RunningType
<1>4. /\ worker' \in [Workers -> WorkerState]
      /\ worker'[w].pc = "batch" /\ worker'[w].batch = worker[w].batch
      /\ \A v \in Workers : v # w => worker'[v] = worker[v]
  <2>1. worker[w].batch \in Claimed /\ worker[w].job = Nobody
        /\ worker[w] = [pc |-> "claiming", batch |-> worker[w].batch, job |-> Nobody]
    BY <1>1, WorkerKind
  <2>2. [worker[w] EXCEPT !.pc = "batch"] = [pc |-> "batch", batch |-> worker[w].batch, job |-> Nobody]
    BY <2>1
  <2>3. [pc |-> "batch", batch |-> worker[w].batch, job |-> Nobody] \in WorkerState
    BY <2>1 DEF WorkerState
  <2>4. worker' = [worker EXCEPT ![w] = [worker[w] EXCEPT !.pc = "batch"]]
    BY DEF ClaimCommit
  <2>5. QED
    BY <2>2, <2>3, <2>4 DEF TypeOK
<1>5. TypeOK'
  <2>1. row' \in [Jobs -> Row \cup {Absent}]
    BY <1>1, <1>3 DEF ClaimCommit, TypeOK
  <2>2. QED
    BY <1>1, <1>4, <2>1 DEF TypeOK
<1>6. /\ \A v \in Workers, j \in Jobs : j \in Batch(v)' <=> j \in Batch(v)
      /\ \A v \in Workers, j \in Jobs : v # w => (Holds(v, j)' <=> Holds(v, j))
      /\ \A j \in Jobs : Holds(w, j)' <=> j \in Batch(w)
      /\ \A v \in Workers, j \in Jobs : Handles(v, j)' <=> Handles(v, j)
  BY <1>1, <1>4 DEF Batch, Holds, Handles
<1>7. ClaimsLocked'
  <2>1. SUFFICES ASSUME NEW j \in Jobs, NEW v \in Workers
                 PROVE  /\ worker'[v].pc = "claiming" /\ j \in Batch(v)' <=> rowLock'[j] = v
                        /\ rowLock'[j] = v => row'[j].status = "pending"
    BY DEF ClaimsLocked
  <2>2. CASE v = w
    BY <1>1, <1>4, <2>2, NobodyAssumption
  <2>3. CASE v # w
    <3>1. rowLock'[j] = v <=> rowLock[j] = v
      BY <1>1, <2>3, NobodyAssumption
    <3>2. rowLock[j] = v => row'[j] = row[j]
      BY <1>1, <1>2, <2>3
    <3>3. QED
      BY <1>4, <1>6, <2>3, <3>1, <3>2 DEF JobInv, ClaimsLocked
  <2>4. QED
    BY <2>2, <2>3
<1>8. HandlesItsBatch'
  BY <1>6 DEF JobInv, HandlesItsBatch
<1>9. \A j \in Jobs \ requeued, v \in Workers : j \in Batch(w) /\ j \in Batch(v) => v = w
  BY SoleClaim
<1>10. ClaimsAreExclusive'
  <2>1. \A j \in Jobs, v \in Workers : Holds(v, j)' => j \in Batch(v)
    BY <1>6 DEF Holds
  <2>2. \A j \in Jobs \ requeued, u, v \in Workers : j \in Batch(u) /\ j \in Batch(v) => u = v
    BY SoleClaim
  <2>3. QED
    BY <1>1, <2>1, <2>2 DEF ClaimsAreExclusive
<1>11. HeldRowsRun'
  <2>1. SUFFICES ASSUME NEW j \in Jobs \ requeued, NEW v \in Workers, Holds(v, j)'
                 PROVE  row'[j].status = "running"
    BY <1>1 DEF HeldRowsRun
  <2>2. CASE j \in Batch(w)
    BY <1>3, <2>2
  <2>3. CASE j \notin Batch(w)
    <3>1. v # w /\ Holds(v, j)
      BY <1>6, <2>1, <2>3
    <3>2. QED
      BY <1>1, <2>3, <3>1 DEF JobInv, HeldRowsRun
  <2>4. QED
    BY <2>2, <2>3
<1>12. RunsCounted'
  <2>1. SUFFICES ASSUME NEW j \in Jobs \ requeued
                 PROVE  /\ runs[j] <= MaxAttempts
                        /\ row'[j] = Absent => runs[j] = 0
                        /\ row'[j].status = "pending" => runs[j] <= row'[j].attempts /\ row'[j].attempts < MaxAttempts
                        /\ \A v \in Workers : j \in Batch(v) =>
                             /\ worker[v].batch[j] = row'[j].attempts
                             /\ row'[j].attempts < MaxAttempts
                             /\ runs[j] <= row'[j].attempts + (IF Handles(v, j) THEN 1 ELSE 0)
    <3>1. \A v \in Workers : worker'[v].batch = worker[v].batch
      BY <1>4
    <3>2. QED
      BY <1>1, <1>6, <3>1 DEF RunsCounted
  <2>2. CASE j \in Batch(w)
    <3>1. row'[j] # Absent
      BY <1>3, <2>2 DEF Absent
    <3>2. QED
      BY <1>3, <2>2, <3>1 DEF JobInv, RunsCounted
  <2>3. CASE j \notin Batch(w)
    BY <1>1, <2>3 DEF JobInv, RunsCounted
  <2>4. QED
    BY <2>2, <2>3
<1>13. QED
  BY <1>5, <1>7, <1>8, <1>10, <1>11, <1>12 DEF JobInv

LEMMA StartStep ==
  ASSUME JobInv, NEW w \in Workers, NEW j \in Jobs, ExecuteStart(w, j)
  PROVE  JobInv'
<1> TypeOK
  BY DEF JobInv
<1>1. /\ worker[w].pc = "batch" /\ j \in Batch(w) /\ rowLock[j] = Nobody
      /\ UNCHANGED <<rowLock, requeued, crashes>>
      /\ runs' = [runs EXCEPT ![j] = @ + 1]
  BY DEF ExecuteStart
<1>2. /\ worker' \in [Workers -> WorkerState]
      /\ worker'[w].pc = "handling" /\ worker'[w].batch = worker[w].batch /\ worker'[w].job = j
      /\ \A v \in Workers : v # w => worker'[v] = worker[v]
  <2> DEFINE new == [worker[w] EXCEPT !.pc = "handling", !.job = j]
  <2>1. worker[w] \in [pc : {"batch"}, batch : Claimed, job : {Nobody}]
    BY <1>1 DEF TypeOK, WorkerState
  <2>2. new \in [pc : {"handling"}, batch : Claimed, job : Jobs]
    BY <2>1
  <2>3. new.pc = "handling" /\ new.batch = worker[w].batch /\ new.job = j
    BY <2>1
  <2>4. worker' = [worker EXCEPT ![w] = new]
    BY DEF ExecuteStart, TypeOK
  <2>5. QED
    BY <2>2, <2>3, <2>4 DEF TypeOK, WorkerState
<1>3. /\ row' \in [Jobs -> Row \cup {Absent}]
      /\ \A i \in Jobs : i # j => row'[i] = row[i]
      /\ row[j].status # "pending" => row'[j] = row[j]
  <2>1. row[j].status = "pending" => Running(row[j], row[j].locked_by) \in Row
    <3>1. row[j].status = "pending" => row[j] \in Row /\ row[j].locked_by \in Workers \cup {Cron, Nobody}
      BY FullRow DEF Row
    <3>2. QED
      BY <3>1, RunningType
  <2>2. QED
    BY <2>1 DEF ExecuteStart, TypeOK
<1>4. /\ runs' \in [Jobs -> Nat] /\ runs'[j] = runs[j] + 1 /\ runs[j] \in Nat
      /\ \A i \in Jobs : i # j => runs'[i] = runs[i]
  BY <1>1 DEF TypeOK
<1>5. TypeOK'
  BY <1>1, <1>2, <1>3, <1>4 DEF TypeOK
<1>6. /\ \A v \in Workers, i \in Jobs : i \in Batch(v)' <=> i \in Batch(v)
      /\ \A v \in Workers, i \in Jobs : Holds(v, i)' <=> Holds(v, i)
      /\ \A v \in Workers, i \in Jobs : v # w => (Handles(v, i)' <=> Handles(v, i))
      /\ \A i \in Jobs : (Handles(w, i)' <=> i = j) /\ ~Handles(w, i)
      /\ \A v \in Workers : worker'[v].batch = worker[v].batch
  BY <1>1, <1>2 DEF Batch, Holds, Handles
<1>7. ClaimsLocked'
  <2>1. \A v \in Workers : worker'[v].pc = "claiming" <=> worker[v].pc = "claiming"
    BY <1>1, <1>2
  <2>2. \A v \in Workers, i \in Jobs : rowLock[i] = v => row'[i] = row[i]
    BY <1>1, <1>3, NobodyAssumption
  <2>3. QED
    BY <1>1, <1>6, <2>1, <2>2 DEF JobInv, ClaimsLocked
<1>8. HandlesItsBatch'
  BY <1>1, <1>6 DEF JobInv, HandlesItsBatch
<1>9. ClaimsAreExclusive'
  BY <1>1, <1>6 DEF JobInv, ClaimsAreExclusive
<1>10. j \notin requeued => row[j].status = "running" /\ row'[j] = row[j]
  BY <1>1, <1>3 DEF JobInv, HeldRowsRun, Holds
<1>11. HeldRowsRun'
  BY <1>1, <1>3, <1>6, <1>10 DEF JobInv, HeldRowsRun
<1>12. RunsCounted'
  <2>1. SUFFICES ASSUME NEW i \in Jobs \ requeued
                 PROVE  /\ runs'[i] <= MaxAttempts
                        /\ row[i] = Absent => runs'[i] = 0
                        /\ row[i].status = "pending" => runs'[i] <= row[i].attempts /\ row[i].attempts < MaxAttempts
                        /\ \A v \in Workers : i \in Batch(v) =>
                             /\ worker[v].batch[i] = row[i].attempts
                             /\ row[i].attempts < MaxAttempts
                             /\ runs'[i] <= row[i].attempts + (IF Handles(v, i)' THEN 1 ELSE 0)
    <3>1. \A i \in Jobs \ requeued : row'[i] = row[i]
      BY <1>3, <1>10
    <3>2. QED
      BY <1>1, <1>6, <3>1 DEF RunsCounted
  <2>2. CASE i # j
    <3>1. runs'[i] = runs[i] /\ \A v \in Workers : Handles(v, i)' <=> Handles(v, i)
      BY <1>4, <1>6, <2>2
    <3>2. QED
      BY <3>1 DEF JobInv, RunsCounted
  <2>3. CASE i = j
    <3>1. row[j].status = "running" /\ row[j] \in Row /\ row[j].attempts \in Nat
      BY <1>10, <2>3, FullRow DEF Row
    <3>2. /\ worker[w].batch[j] = row[j].attempts
          /\ row[j].attempts < MaxAttempts
          /\ runs[j] <= row[j].attempts + (IF Handles(w, j) THEN 1 ELSE 0)
      BY <1>1, <2>3 DEF JobInv, RunsCounted
    <3>3. runs[j] <= row[j].attempts
      BY <1>4, <1>6, <3>1, <3>2
    <3>4. \A v \in Workers : j \in Batch(v) => v = w
      BY <1>1, <2>3, SoleClaim
    <3>5. row[j] # Absent
      BY <3>1 DEF Absent
    <3>6. runs'[j] <= MaxAttempts /\ runs'[j] <= row[j].attempts + 1
      BY <1>4, <3>1, <3>2, <3>3, MaxAttemptsAssumption
    <3>7. QED
      BY <1>6, <2>3, <3>1, <3>2, <3>4, <3>5, <3>6
  <2>4. QED
    BY <2>2, <2>3
<1>13. QED
  BY <1>5, <1>7, <1>8, <1>9, <1>11, <1>12 DEF JobInv

-----------------------------------------------------------------------------
(* Theorems *)

LEMMA JobInvStep ==
  ASSUME JobInv, [Next]_vars
  PROVE  JobInv'
<1>1. CASE UNCHANGED vars
  BY <1>1 DEF vars, JobInv, TypeOK, ClaimsLocked, HandlesItsBatch, ClaimsAreExclusive,
              HeldRowsRun, RunsCounted, Holds, Handles, Batch
<1>2. CASE Next
  BY <1>2, EnqueueStep, ClockStep, CronStep, RequeueStep, SelectStep, CommitStep,
     UnknownStep, StartStep, ExecuteEndStep, CrashStep DEF Next, Tick, Execute
<1>3. QED
  BY <1>1, <1>2

\* The inductive invariant: claims are locked, held rows run, and every start of
\* a handler is covered by the attempts column.
THEOREM JobInvariance == Spec => []JobInv
<1>1. Init => JobInv
  <2>1. SUFFICES ASSUME Init
                 PROVE  JobInv
    OBVIOUS
  <2>2. \A w \in Workers : worker[w] = IdleWorker /\ Batch(w) = {}
    BY <2>1 DEF Init, Batch, IdleWorker, NoBatch
  <2>3. \A w \in Workers : worker[w].pc = "idle"
    BY <2>2 DEF IdleWorker
  <2>4. TypeOK
    BY <2>1, IdleWorkerType, MaxCrashesAssumption DEF Init, TypeOK
  <2>5. ClaimsLocked /\ HandlesItsBatch /\ ClaimsAreExclusive /\ HeldRowsRun
    BY <2>1, <2>2, <2>3, NobodyAssumption
       DEF Init, ClaimsLocked, HandlesItsBatch, ClaimsAreExclusive, HeldRowsRun, Holds, Handles
  <2>6. RunsCounted
    BY <2>1, <2>2, MaxAttemptsAssumption DEF Init, RunsCounted, Absent
  <2>7. QED
    BY <2>4, <2>5, <2>6 DEF JobInv
<1>2. JobInv /\ [Next]_vars => JobInv'
  BY JobInvStep
<1>3. QED
  BY <1>1, <1>2, PTL DEF Spec

\* Type correctness: a claim never selects, marks or executes a row that is not
\* there, and a worker inside a tick always has a job left.
THEOREM JobTypeCorrect == Spec => []TypeOK
<1>1. JobInv => TypeOK
  BY DEF JobInv
<1>2. QED
  BY <1>1, JobInvariance, PTL

\* SKIP LOCKED and one transaction per claim: two workers hold the same job only
\* after requeue_stale took it from one of them.
THEOREM ExclusiveClaims == Spec => []ClaimsAreExclusive
<1>1. JobInv => ClaimsAreExclusive
  BY DEF JobInv
<1>2. QED
  BY <1>1, JobInvariance, PTL

\* A job never taken from a worker is started at most max_attempts times, though
\* _execute_job decides on the attempts that claim_jobs read.
THEOREM BoundedAttempts == Spec => []RunsWithinMaxAttempts
<1>1. ASSUME JobInv
      PROVE  RunsWithinMaxAttempts
  <2>1. RunsCounted
    BY <1>1 DEF JobInv
  <2>2. ASSUME NEW j \in Jobs \ requeued
        PROVE  runs[j] <= MaxAttempts
    BY <2>1, Zenon DEF RunsCounted
  <2>3. QED
    BY <2>2 DEF RunsWithinMaxAttempts
<1>2. QED
  BY <1>1, JobInvariance, PTL

\* Nothing revives or relabels a completed or dead job.
THEOREM SettledIsFinal == Spec => SettledJobsFrozen
<1> DEFINE Frozen == \A j \in Jobs : row[j].status \in {"completed", "dead"} => row'[j] = row[j]
<1>1. JobInv /\ [Next]_vars => [Frozen]_vars
  <2> SUFFICES ASSUME JobInv, Next
               PROVE  Frozen
    OBVIOUS
  <2> TypeOK
    BY DEF JobInv
  <2>1. ASSUME NEW j \in Jobs, Enqueue(j) \/ Clock(j)
        PROVE  Frozen
    BY <2>1 DEF Enqueue, Clock, BecomeDue, BecomeStale, TypeOK, Absent
  <2>2. ASSUME CronDispatch
        PROVE  Frozen
    BY <2>2 DEF CronDispatch, Picks, Due
  <2>3. ASSUME NEW w \in Workers, RequeueStale(w)
        PROVE  Frozen
    BY <2>3 DEF RequeueStale, IsStale
  <2>4. ASSUME NEW w \in Workers, ClaimSelect(w) \/ Crash(w)
        PROVE  Frozen
    BY <2>4 DEF ClaimSelect, Crash
  <2>5. ASSUME NEW w \in Workers, ClaimCommit(w)
        PROVE  Frozen
    <3>1. \A j \in Jobs : j \in Batch(w) => row[j].status = "pending"
      BY <2>5 DEF ClaimCommit, JobInv, ClaimsLocked
    <3>2. QED
      BY <2>5, <3>1 DEF ClaimCommit
  <2>6. ASSUME NEW w \in Workers, NEW j \in Jobs, ExecuteUnknown(w, j) \/ ExecuteStart(w, j)
        PROVE  Frozen
    BY <2>6 DEF ExecuteUnknown, ExecuteStart, TypeOK
  <2>7. ASSUME NEW w \in Workers, NEW r, ExecuteEnd(w, r)
        PROVE  Frozen
    BY <2>7 DEF ExecuteEnd, Writable, TypeOK
  <2> HIDE DEF Frozen
  <2>8. ASSUME NEW w \in Workers, Execute(w)
        PROVE  Frozen
    <3>1. CASE ExecuteOk(w) \/ ExecuteFail(w) \/ ExecuteLost(w)
      BY <2>7, <3>1, Zenon DEF ExecuteOk, ExecuteFail, ExecuteLost
    <3>2. QED
      BY <2>6, <2>8, <3>1, Zenon DEF Execute
  <2>9. QED
    BY <2>1, <2>2, <2>3, <2>4, <2>5, <2>8, Zenon DEF Next, Tick
<1>2. QED
  BY <1>1, JobInvariance, PTL DEF Spec, SettledJobsFrozen
=============================================================================
