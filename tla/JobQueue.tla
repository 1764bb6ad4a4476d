------------------------------ MODULE JobQueue ------------------------------
(***************************************************************************)
(* The persistent job queue: job_queue rows, the polling workers of        *)
(* worker.py, JobQueueService._execute_job and the pg_cron dispatcher.     *)
(*                                                                         *)
(* Time is abstracted to two facts about a row: a pending row is due when  *)
(* next_run has passed, and a running row is stale when started_at is more *)
(* than STALE_MINUTES old.  Priorities are left out: a worker may claim    *)
(* and run due rows in any order.                                          *)
(***************************************************************************)
EXTENDS Integers, FiniteSets, FiniteSetsExt

CONSTANTS Jobs,        \* ids of job_queue rows
          Handled,     \* jobs whose task_name has a registered handler
          Workers,     \* polling worker threads
          Cron,        \* the backend that runs job_queue_process_batch
          Nobody,      \* locked_by IS NULL, or no transaction holds the row lock
          MaxAttempts, \* job_queue.max_attempts
          BatchSize,   \* LIMIT of a claim
          MaxCrashes   \* bound on the crashes of worker processes

ASSUME MaxAttemptsAssumption == MaxAttempts \in Nat \ {0}
ASSUME BatchSizeAssumption == BatchSize \in Nat \ {0}
ASSUME MaxCrashesAssumption == MaxCrashes \in Nat
ASSUME HandledAssumption == Handled \subseteq Jobs
ASSUME NobodyAssumption == Nobody \notin Workers \cup {Cron} /\ Cron \notin Workers

VARIABLES row,      \* the job_queue table
          rowLock,  \* the claim transaction that holds a row FOR UPDATE
          worker,   \* where each worker is in tick()
          requeued, \* history: jobs that requeue_stale took from a worker
          runs,     \* history: how often a job's handler was started
          crashes   \* history: worker crashes so far

vars == <<row, rowLock, worker, requeued, runs, crashes>>

Absent == [status |-> "absent"]

Row == [status : {"pending", "running", "completed", "dead"}, attempts : Nat,
        due : BOOLEAN, stale : BOOLEAN, locked_by : Workers \cup {Cron, Nobody}]

\* batch holds the claimed jobs not yet executed, with the attempts column as it
\* was when they were claimed: the Job objects that claim_jobs returns.
NoBatch == [j \in Jobs |-> -1]
Claimed == [Jobs -> Nat \cup {-1}] \ {NoBatch}

WorkerState == [pc : {"idle", "requeued"}, batch : {NoBatch}, job : {Nobody}]
               \cup [pc : {"claiming", "batch"}, batch : Claimed, job : {Nobody}]
               \cup [pc : {"handling"}, batch : Claimed, job : Jobs]

IdleWorker == [pc |-> "idle", batch |-> NoBatch, job |-> Nobody]

\* A worker between ticks holds no claimed job, a worker inside one holds some.
TypeOK ==
  /\ row \in [Jobs -> Row \cup {Absent}]
  /\ rowLock \in [Jobs -> Workers \cup {Nobody}]
  /\ worker \in [Workers -> WorkerState]
  /\ requeued \subseteq Jobs
  /\ runs \in [Jobs -> Nat]
  /\ crashes \in 0..MaxCrashes

Init ==
  /\ row = [j \in Jobs |-> Absent]
  /\ rowLock = [j \in Jobs |-> Nobody]
  /\ worker = [w \in Workers |-> IdleWorker]
  /\ requeued = {}
  /\ runs = [j \in Jobs |-> 0]
  /\ crashes = 0

Batch(w) == {j \in Jobs : worker[w].batch[j] # -1}

-----------------------------------------------------------------------------
(* The table *)

\* job_queue_enqueue; with a delay the row is not due yet.
Enqueue(j) ==
  /\ row[j] = Absent
  /\ \E now \in BOOLEAN :
       row' = [row EXCEPT ![j] = [status |-> "pending", attempts |-> 0, due |-> now,
                                  stale |-> FALSE, locked_by |-> Nobody]]
  /\ UNCHANGED <<rowLock, worker, requeued, runs, crashes>>

BecomeDue(j) ==
  /\ row[j].status = "pending"
  /\ ~row[j].due
  /\ row' = [row EXCEPT ![j].due = TRUE]
  /\ UNCHANGED <<rowLock, worker, requeued, runs, crashes>>

BecomeStale(j) ==
  /\ row[j].status = "running"
  /\ ~row[j].stale
  /\ row' = [row EXCEPT ![j].stale = TRUE]
  /\ UNCHANGED <<rowLock, worker, requeued, runs, crashes>>

Due_LocksIgnored == {j \in Jobs : row[j].status = "pending" /\ row[j].due}

\* What SELECT ... WHERE status = 'pending' AND next_run <= now()
\* FOR UPDATE SKIP LOCKED can return.
Due == {j \in Jobs : row[j].status = "pending" /\ row[j].due /\ rowLock[j] = Nobody}

\* ... and what it returns with a LIMIT.
Picks == {S \in SUBSET Due : Cardinality(S) = Min({BatchSize, Cardinality(Due)})}

Running(r, owner) == [r EXCEPT !.status = "running", !.stale = FALSE, !.locked_by = owner]

\* job_queue_process_batch, every minute from pg_cron: marks the rows running and
\* notifies a channel that nothing in the application listens to.
CronDispatch ==
  \E S \in Picks \ {{}} :
    /\ row' = [j \in Jobs |-> IF j \in S THEN Running(row[j], Cron) ELSE row[j]]
    /\ UNCHANGED <<rowLock, worker, requeued, runs, crashes>>

-----------------------------------------------------------------------------
(* tick() *)

\* What requeue_stale writes to a stale row.
Stale(r) ==
  [r EXCEPT !.status = IF r.attempts + 1 >= MaxAttempts THEN "dead" ELSE "pending",
            !.due = TRUE, !.stale = FALSE, !.attempts = @ + 1, !.locked_by = Nobody]

IsStale_WorkersOnly(j) == row[j].status = "running" /\ row[j].stale /\ row[j].locked_by \in Workers

\* status = 'running' AND started_at < now() - STALE_MINUTES, whoever marked it.
IsStale(j) == row[j].status = "running" /\ row[j].stale

\* requeue_stale: one statement over every stale row.
RequeueStale(w) ==
  /\ worker[w].pc = "idle"
  /\ row' = [j \in Jobs |-> IF IsStale(j) THEN Stale(row[j]) ELSE row[j]]
  /\ requeued' = requeued \cup {j \in Jobs : IsStale(j)}
  /\ worker' = [worker EXCEPT ![w].pc = "requeued"]
  /\ UNCHANGED <<rowLock, runs, crashes>>

\* claim_jobs: the SELECT ... FOR UPDATE SKIP LOCKED.
ClaimSelect(w) ==
  \E S \in Picks :
    /\ worker[w].pc = "requeued"
    /\ rowLock' = [j \in Jobs |-> IF j \in S THEN w ELSE rowLock[j]]
    /\ worker' = [worker EXCEPT
         ![w] = IF S = {} THEN IdleWorker
                ELSE [pc |-> "claiming", job |-> Nobody,
                      batch |-> [j \in Jobs |-> IF j \in S THEN row[j].attempts ELSE -1]]]
    /\ UNCHANGED <<row, requeued, runs, crashes>>

Unlock(w) == rowLock' = [j \in Jobs |-> IF rowLock[j] = w THEN Nobody ELSE rowLock[j]]

\* claim_jobs: the UPDATE of the selected rows and COMMIT.
ClaimCommit(w) ==
  /\ worker[w].pc = "claiming"
  /\ row' = [j \in Jobs |-> IF j \in Batch(w) THEN Running(row[j], w) ELSE row[j]]
  /\ worker' = [worker EXCEPT ![w].pc = "batch"]
  /\ Unlock(w)
  /\ UNCHANGED <<requeued, runs, crashes>>

-----------------------------------------------------------------------------
(* _execute_job *)

\* The worker's state once it is done with job j.
Without(w, j) ==
  LET rest == [worker[w].batch EXCEPT ![j] = -1]
  IN  IF rest = NoBatch THEN IdleWorker
      ELSE [pc |-> "batch", batch |-> rest, job |-> Nobody]

\* No handler is registered: ValueError, which tick logs; the row stays running.
ExecuteUnknown(w, j) ==
  /\ worker[w].pc = "batch"
  /\ j \in Batch(w) \ Handled
  /\ worker' = [worker EXCEPT ![w] = Without(w, j)]
  /\ UNCHANGED <<row, rowLock, requeued, runs, crashes>>

\* The guarded pending -> running UPDATE, which waits for a claim of the row,
\* and the start of the handler, which runs whatever the UPDATE matched.
ExecuteStart(w, j) ==
  /\ worker[w].pc = "batch"
  /\ j \in Batch(w) \cap Handled
  /\ rowLock[j] = Nobody
  /\ row' = IF row[j].status = "pending"
            THEN [row EXCEPT ![j] = Running(row[j], row[j].locked_by)] ELSE row
  /\ worker' = [worker EXCEPT ![w].pc = "handling", ![w].job = j]
  /\ runs' = [runs EXCEPT ![j] = @ + 1]
  /\ UNCHANGED <<rowLock, requeued, crashes>>

Writable_Unguarded(j) == row[j].status \in {"pending", "running", "completed", "dead"}

\* WHERE id = %s AND status = 'running'
Writable(j) == row[j].status = "running"

\* The end of _execute_job: UPDATE ... WHERE status = 'running' to r.
ExecuteEnd(w, r) ==
  LET j == worker[w].job IN
  /\ worker[w].pc = "handling"
  /\ row' = IF Writable(j) THEN [row EXCEPT ![j] = r] ELSE row
  /\ worker' = [worker EXCEPT ![w] = Without(w, j)]
  /\ UNCHANGED <<rowLock, requeued, runs, crashes>>

\* The handler returned and the result was stored.
ExecuteOk(w) == ExecuteEnd(w, [row[worker[w].job] EXCEPT !.status = "completed"])

LastAttempt_OffByOne(w) == worker[w].batch[worker[w].job] >= MaxAttempts

\* job.attempts + 1 >= job.max_attempts, on the values read by the claim.
LastAttempt(w) == worker[w].batch[worker[w].job] + 1 >= MaxAttempts

\* The handler raised, or storing its result did: dead, or another attempt.
ExecuteFail(w) ==
  LET r == row[worker[w].job] IN
  ExecuteEnd(w, IF LastAttempt(w) THEN [r EXCEPT !.status = "dead"]
                ELSE [r EXCEPT !.status = "pending", !.attempts = @ + 1, !.due = FALSE])

\* The write at the end failed too: tick logs it and the row stays running.
ExecuteLost(w) == ExecuteEnd(w, row[worker[w].job])

\* The worker's process dies and is started again; its claim is rolled back.
Crash(w) ==
  /\ crashes < MaxCrashes
  /\ worker[w] # IdleWorker
  /\ crashes' = crashes + 1
  /\ worker' = [worker EXCEPT ![w] = IdleWorker]
  /\ Unlock(w)
  /\ UNCHANGED <<row, requeued, runs>>

-----------------------------------------------------------------------------
(* Specification *)

Execute(w) == \/ \E j \in Jobs : ExecuteUnknown(w, j) \/ ExecuteStart(w, j)
              \/ ExecuteOk(w) \/ ExecuteFail(w) \/ ExecuteLost(w)

Tick(w) == RequeueStale(w) \/ ClaimSelect(w) \/ ClaimCommit(w) \/ Execute(w)

Clock(j) == BecomeDue(j) \/ BecomeStale(j)

Next == \/ \E j \in Jobs : Enqueue(j) \/ Clock(j)
        \/ \E w \in Workers : Tick(w) \/ Crash(w)
        \/ CronDispatch

Spec == Init /\ [][Next]_vars

\* Time passes, and a worker's loop keeps ticking: run_forever catches what a
\* tick raises, and a handler returns or raises in the end.
FairSpec == Spec /\ (\A j \in Jobs : WF_vars(Clock(j)))
                 /\ (\A w \in Workers : WF_vars(Tick(w)))

-----------------------------------------------------------------------------
(* Properties *)

Holds(w, j) == j \in Batch(w) /\ worker[w].pc # "claiming"

\* Two claimers never take the same row (SKIP LOCKED and one transaction), and
\* two workers hold the same job only after requeue_stale took it from one.
ClaimsAreExclusive ==
  \A j \in Jobs \ requeued : \A v, w \in Workers : Holds(v, j) /\ Holds(w, j) => v = w

\* A job that was never taken from a worker is started at most max_attempts
\* times, although every failure decides on the attempts column as it was when
\* the job was claimed.
RunsWithinMaxAttempts == \A j \in Jobs \ requeued : runs[j] <= MaxAttempts

\* A completed or dead job stays as it is: no late execution, requeue, claim or
\* dispatch revives or relabels it.
SettledJobsFrozen ==
  [][\A j \in Jobs : row[j].status \in {"completed", "dead"} => row'[j] = row[j]]_vars

\* Every job ends as completed or dead, through worker crashes, lost result
\* writes, unknown tasks and rows that the pg_cron dispatcher took.
JobsSettle ==
  \A j \in Jobs : row[j].status = "pending" ~> row[j].status \in {"completed", "dead"}

\* What _execute_job's guard is for: "a stale-requeued duplicate execution must
\* not clobber the state written by the claim that owns the row".  The end of an
\* execution changes a row another worker has claimed meanwhile.
OnlyTheOwnerWrites ==
  [][\A w \in Workers, j \in Jobs :
       /\ worker[w].pc = "handling" /\ worker[w].job = j
       /\ worker'[w].pc # "handling"
       /\ row'[j] # row[j]
       => row[j].locked_by \notin Workers \ {w}]_vars
=============================================================================
