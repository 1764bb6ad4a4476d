---------------------------- MODULE AuditReports ----------------------------
(***************************************************************************)
(* Scheduled audit reports: the pages that edit the schedule, the run on   *)
(* demand in a background thread with its JobTracker entry, and            *)
(* run_due_reports.  update_last_run does not commit: its UPDATE stays on  *)
(* the connection of the request or thread until create_notification,      *)
(* which runs on the same connection, commits both or, when it fails,      *)
(* rolls both back; its error is swallowed.                                *)
(*                                                                         *)
(* A row's version counts the writes of its next_run_time.                 *)
(***************************************************************************)
EXTENDS Integers, FiniteSets

CONSTANTS Runners,      \* background threads and run_due requests
          Reports,
          MaxHour,      \* hours the clock may advance
          Period,       \* hours between runs
          MaxVersion, MaxRuns

ASSUME ReportsAssumption ==
  MaxHour \in Nat /\ Period \in Nat /\ MaxVersion \in Nat \ {0} /\ MaxRuns \in Nat

VARIABLES
  schedule,   \* scheduled_audit_reports: [live, next, ver]
  runner,     \* what each runner does
  job,        \* JobTracker status of each runner's job
  hour,       \* NOW()
  started,    \* runs begun, bounded by MaxRuns
  ran,        \* history: the versions run_due has run
  twice,      \* history: those it has run again
  listed,     \* history: versions that two runners had listed together
  unsaved     \* history: versions whose run was reported and not recorded

reportVars == <<schedule, runner, job, hour, started, ran, twice, listed, unsaved>>

Resting == [pc |-> "rest", due |-> FALSE, queue |-> {}, rep |-> "none", ver |-> 0, at |-> -1]
JobStates == {"none", "pending", "running", "completed", "failed"}

ReportsTypeOK ==
  /\ \A p \in Reports : /\ schedule[p].live \in BOOLEAN
                        /\ schedule[p].next \in 0..(MaxHour + Period)
                        /\ schedule[p].ver \in 1..MaxVersion
  /\ job \in [Runners -> JobStates]
  /\ hour \in 0..MaxHour /\ started \in 0..MaxRuns
  \* the row lock of an update that is not committed
  /\ \A a, b \in Runners : runner[a].at >= 0 /\ runner[b].at >= 0 /\ runner[a].rep = runner[b].rep => a = b

ReportsInit ==
  /\ schedule = [p \in Reports |-> [live |-> TRUE, next |-> 0, ver |-> 1]]
  /\ runner = [a \in Runners |-> Resting] /\ job = [a \in Runners |-> "none"]
  /\ hour = 0 /\ started = 0 /\ ran = {} /\ twice = {} /\ listed = {} /\ unsaved = {}

-----------------------------------------------------------------------------
(* The schedule pages *)

Unlocked_Ignored(p) == p \in Reports

Unlocked(p) == \A a \in Runners : runner[a].rep = p => runner[a].at < 0

EditSchedule(p, next) ==
  /\ schedule[p].live /\ schedule[p].ver < MaxVersion /\ Unlocked(p)
  /\ schedule' = [schedule EXCEPT ![p].next = next, ![p].ver = @ + 1]
  /\ UNCHANGED <<runner, job, hour, started, ran, twice, listed, unsaved>>

DeleteSchedule(p) ==
  /\ schedule[p].live /\ Unlocked(p)
  /\ schedule' = [schedule EXCEPT ![p].live = FALSE]
  /\ UNCHANGED <<runner, job, hour, started, ran, twice, listed, unsaved>>

Hour ==
  /\ hour < MaxHour /\ hour' = hour + 1
  /\ UNCHANGED <<schedule, runner, job, started, ran, twice, listed, unsaved>>

-----------------------------------------------------------------------------
(* Runs *)

\* generate_report_async
RunOnDemand(a, p) ==
  /\ runner[a] = Resting /\ started < MaxRuns /\ started' = started + 1
  /\ runner' = [runner EXCEPT ![a] = [Resting EXCEPT !.pc = "fetch", !.rep = p]]
  /\ job' = [job EXCEPT ![a] = "pending"]
  /\ UNCHANGED <<schedule, hour, ran, twice, listed, unsaved>>

IsDue(p) == schedule[p].live /\ schedule[p].next <= hour

Slot(p) == <<p, schedule[p].ver>>

\* get_due_reports; nothing marks the reports as taken.
run_due_reports(a) ==
  LET due == {Slot(p) : p \in {q \in Reports : IsDue(q)}} IN
  /\ runner[a] = Resting /\ started < MaxRuns /\ started' = started + 1 /\ due # {}
  /\ runner' = [runner EXCEPT ![a] = [Resting EXCEPT !.pc = "next", !.due = TRUE, !.queue = due]]
  /\ listed' = listed \cup {d \in due : \E b \in Runners : d \in runner[b].queue \/ <<runner[b].rep, runner[b].ver>> = d}
  /\ job' = [job EXCEPT ![a] = "none"]
  /\ UNCHANGED <<schedule, hour, ran, twice, unsaved>>

NextDue(a) ==
  /\ runner[a].pc = "next"
  /\ IF runner[a].queue = {} THEN runner' = [runner EXCEPT ![a] = Resting]
     ELSE \E d \in runner[a].queue :
            runner' = [runner EXCEPT ![a].pc = "fetch", ![a].rep = d[1], ![a].ver = d[2],
                                     ![a].queue = @ \ {d}]
  /\ UNCHANGED <<schedule, job, hour, started, ran, twice, listed, unsaved>>

AfterRun(a) == IF runner[a].due THEN [runner[a] EXCEPT !.pc = "next", !.rep = "none", !.ver = 0, !.at = -1] ELSE Resting

\* get_by_id, then the rows and the file: a report deleted meanwhile ends the run.
FetchReport(a) ==
  LET live == schedule[runner[a].rep].live IN
  /\ runner[a].pc = "fetch"
  /\ runner' = [runner EXCEPT ![a] = IF live THEN [@ EXCEPT !.pc = "save"] ELSE AfterRun(a)]
  /\ job' = [job EXCEPT ![a] = CASE runner[a].due -> @ [] live -> "running" [] OTHER -> "failed"]
  /\ UNCHANGED <<schedule, hour, started, ran, twice, listed, unsaved>>

\* The UPDATE waits for the row, and is not committed.
update_last_run(a) ==
  /\ runner[a].pc = "save"
  /\ Unlocked(runner[a].rep)
  /\ runner' = [runner EXCEPT ![a].pc = "notify",
                              ![a].at = IF schedule[runner[a].rep].live THEN hour ELSE -1]
  /\ UNCHANGED <<schedule, job, hour, started, ran, twice, listed, unsaved>>

Saved(a) ==
  LET p == runner[a].rep IN
  IF runner[a].at < 0 THEN schedule
  ELSE [schedule EXCEPT ![p].next = runner[a].at + Period, ![p].ver = @ + 1]

EndRun(a) ==
  /\ runner' = [runner EXCEPT ![a] = AfterRun(a)]
  /\ job' = [job EXCEPT ![a] = IF runner[a].due THEN @ ELSE "completed"]
  /\ LET slot == {<<runner[a].rep, runner[a].ver>> : d \in {TRUE} \cap {runner[a].due}} IN
     ran' = ran \cup slot /\ twice' = twice \cup (slot \cap ran)

Notify_NoCommit(a) ==
  /\ runner[a].pc = "notify"
  /\ EndRun(a)
  /\ UNCHANGED <<schedule, hour, started, listed, unsaved>>

\* create_notification commits the connection, the schedule with it.
Notify(a) ==
  /\ runner[a].pc = "notify" /\ schedule[runner[a].rep].ver < MaxVersion
  /\ schedule' = Saved(a)
  /\ EndRun(a)
  /\ UNCHANGED <<hour, started, listed, unsaved>>

\* It fails: the connection is rolled back, the run succeeds all the same.
NotifyFails(a) ==
  /\ runner[a].pc = "notify"
  /\ unsaved' = unsaved \cup {Slot(runner[a].rep)}
  /\ EndRun(a)
  /\ UNCHANGED <<schedule, hour, started, listed>>

\* An error before the notification, or a worker that dies: the rest of the
\* due list is given up.
RunFails(a) ==
  /\ runner[a].pc \in {"fetch", "save"}
  /\ runner' = [runner EXCEPT ![a] = Resting]
  /\ job' = [job EXCEPT ![a] = IF runner[a].due THEN @ ELSE "failed"]
  /\ UNCHANGED <<schedule, hour, started, ran, twice, listed, unsaved>>

ReportsNext ==
  \/ \E p \in Reports : DeleteSchedule(p) \/ \E n \in 0..MaxHour : EditSchedule(p, n)
  \/ \E a \in Runners : \/ run_due_reports(a) \/ NextDue(a) \/ FetchReport(a) \/ update_last_run(a)
                        \/ Notify(a) \/ NotifyFails(a) \/ RunFails(a)
                        \/ \E p \in Reports : RunOnDemand(a, p)
  \/ Hour

ReportsSpec == ReportsInit /\ [][ReportsNext]_reportVars

-----------------------------------------------------------------------------
(* Properties *)

\* A due time is served once: two runs of run_due for the same next_run_time
\* mean that both had listed it before either ended, or that the first one's
\* notification failed and took the new next_run_time with it.
DueRunsOnce == twice \subseteq listed \cup unsaved

\* A run that ended leaves its report scheduled later than it was due, unless
\* it was not saved or the report is deleted.
RunAdvances ==
  \A x \in ran : schedule[x[1]].ver = x[2] => x \in unsaved \/ ~schedule[x[1]].live

\* run_due_reports serves each due time once and moves the schedule on.
DueTimesServedOnce == DueRunsOnce /\ RunAdvances
=============================================================================
