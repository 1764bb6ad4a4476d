---------------------------- MODULE PeopleProofs ----------------------------
(***************************************************************************)
(* Theorems about the parts that serve the users: the login lockout,       *)
(* scheduled audit reports and notifications, which share no state with    *)
(* one another nor with the accounts, and all of them together.            *)
(***************************************************************************)
EXTENDS MCPeople, AccountsProofs, FiniteSetTheorems, TLAPS

-----------------------------------------------------------------------------
(* The login lockout *)

\* Attempts that are past both gates and may still fail.
Verifying == {p \in Procs : attempt[p] = "verify"}

\* The window of the row is over: the next failure starts another.
WindowOver == limit.count = 0 \/ limit.start < minute - LOCKOUT_MINUTES

\* A window starts in the past, a lease lasts at least as long as its window,
\* and a window has room for all the failures that are under way.
WindowHasRoom ==
  /\ limit.start <= minute
  /\ limit.count > 0 => limit.start + LOCKOUT_MINUTES <= limit.expires
  /\ WindowOver \/ limit.count + Cardinality(Verifying) <= MaxCount

\* A process that is past its own gate has room for its failure.
EntriesHaveRoom ==
  \A p \in Procs : /\ entries[p] \in Seq(Nat)
                   /\ attempt[p] \in {"gate", "verify", "append"} =>
                        Len(entries[p]) < MAX_FAILED_ATTEMPTS

LockoutInv ==
  /\ LockoutTypeOK /\ DOMAIN entries = Procs
  /\ EntriesHaveRoom /\ WindowHasRoom /\ LockoutBound

LEMMA ProcCount == Cardinality(Procs) \in Nat
BY LockoutAssumption, FS_CardinalityType

LEMMA VerifyingCount ==
  /\ IsFiniteSet(Verifying) /\ Cardinality(Verifying) \in Nat
  /\ Cardinality(Verifying) <= Cardinality(Procs)
<1>1. Verifying \in SUBSET Procs
  BY DEF Verifying
<1>2. IsFiniteSet(Verifying) /\ Cardinality(Verifying) <= Cardinality(Procs)
  BY <1>1, LockoutAssumption, FS_Subset
<1>3. QED
  BY <1>2, FS_CardinalityType

\* An attempt that was not verifying and is not: the count stays or, with the
\* one that leaves, falls.
LEMMA VerifyingShrinks ==
  ASSUME Verifying' \subseteq Verifying
  PROVE  Cardinality(Verifying') <= Cardinality(Verifying) /\ Cardinality(Verifying') \in Nat
BY VerifyingCount, FS_Subset, FS_CardinalityType

LEMMA VerifyingLeaves ==
  ASSUME NEW p \in Verifying, Verifying' = Verifying \ {p}
  PROVE  Cardinality(Verifying') = Cardinality(Verifying) - 1
BY VerifyingCount, FS_RemoveElement

LEMMA VerifyingBounded ==
  Cardinality(Verifying') <= Cardinality(Procs) /\ Cardinality(Verifying') \in Nat
<1>1. Verifying' \in SUBSET Procs
  BY DEF Verifying
<1>2. IsFiniteSet(Verifying') /\ Cardinality(Verifying') <= Cardinality(Procs)
  BY <1>1, LockoutAssumption, FS_Subset
<1>3. QED
  BY <1>2, FS_CardinalityType

LEMMA LockoutStart == LockoutInit => LockoutInv
<1>1. SUFFICES ASSUME LockoutInit
               PROVE  LockoutInv
  OBVIOUS
<1> USE LockoutAssumption, ProcCount
<1>2. LockoutTypeOK /\ EntriesHaveRoom /\ DOMAIN entries = Procs
  BY <1>1 DEF LockoutInit, LockoutTypeOK, EntriesHaveRoom, NoLimit
<1>3. limit.count = 0 /\ limit.start = 0 /\ minute = 0 /\ 0 <= MaxCount
  BY <1>1 DEF LockoutInit, NoLimit, MaxCount
<1>4. QED
  BY <1>2, <1>3 DEF LockoutInv, WindowHasRoom, WindowOver, LockoutBound

LEMMA LockoutStep ==
  ASSUME LockoutInv, [LockoutNext]_lockoutVars
  PROVE  LockoutInv'
<1> USE LockoutAssumption
<1> LockoutTypeOK /\ DOMAIN entries = Procs /\ EntriesHaveRoom /\ WindowHasRoom /\ LockoutBound
  BY DEF LockoutInv
<1>1. /\ MaxCount \in Nat /\ Cardinality(Procs) <= MaxCount
      /\ \A k \in Nat : k < MAX_FAILED_ATTEMPTS => k + Cardinality(Procs) <= MaxCount
  BY ProcCount DEF MaxCount
<1>1a. /\ Cardinality(Procs) \in Nat /\ Cardinality(Verifying) \in Nat /\ Cardinality(Verifying') \in Nat
      /\ Cardinality(Verifying) <= Cardinality(Procs) /\ Cardinality(Verifying') <= Cardinality(Procs)
  BY ProcCount, VerifyingCount, VerifyingBounded
<1>2. ASSUME NEW p \in Procs, Gate(p)
      PROVE  LockoutInv'
  <2>1. LockoutTypeOK' /\ EntriesHaveRoom' /\ DOMAIN entries' = Procs
    BY <1>2 DEF Gate, LockoutTypeOK, EntriesHaveRoom
  <2>2. Verifying' = Verifying
    BY <1>2 DEF Gate, Verifying, LockoutTypeOK
  <2>3. WindowHasRoom' /\ LockoutBound'
    BY <1>2, <2>2 DEF Gate, WindowHasRoom, WindowOver, LockoutBound, MaxCount
  <2>4. QED
    BY <2>1, <2>3 DEF LockoutInv
<1>3. ASSUME NEW p \in Procs, _check_rate_limit(p)
      PROVE  LockoutInv'
  <2>1. LockoutTypeOK' /\ EntriesHaveRoom' /\ DOMAIN entries' = Procs
    BY <1>3 DEF _check_rate_limit, LockoutTypeOK, EntriesHaveRoom
  <2>2. UNCHANGED <<limit, minute>>
    BY <1>3 DEF _check_rate_limit
  <2>3. CASE Locked
    <3>1. Verifying' = Verifying
      BY <1>3, <2>3 DEF _check_rate_limit, Verifying, LockoutTypeOK
    <3>2. QED
      BY <2>1, <2>2, <3>1 DEF LockoutInv, WindowHasRoom, WindowOver, LockoutBound, MaxCount
  <2>4. CASE ~Locked
    <3>1. WindowOver \/ limit.count < MAX_FAILED_ATTEMPTS
      BY <2>4 DEF Locked, Counted, WindowOver, WindowHasRoom, LockoutTypeOK
    <3>2. WindowHasRoom'
      <4>1. limit.count \in Nat
        BY DEF LockoutTypeOK
      <4>2. WindowOver \/ limit.count + Cardinality(Procs) <= MaxCount
        BY <1>1, <3>1, <4>1
      <4>3. WindowOver \/ limit.count + Cardinality(Verifying') <= MaxCount
        BY <1>1a, <1>1, <4>1, <4>2
      <4>4. QED
        BY <2>2, <4>3 DEF WindowHasRoom, WindowOver
    <3>3. QED
      BY <2>1, <2>2, <3>2 DEF LockoutInv, LockoutBound, MaxCount
  <2>5. QED
    BY <2>3, <2>4
<1>4. ASSUME NEW p \in Procs, _record_failed_attempt(p)
      PROVE  LockoutInv'
  <2> DEFINE new == [count |-> IF WindowOver THEN 1 ELSE limit.count + 1,
                     start |-> IF WindowOver THEN minute ELSE limit.start,
                     expires |-> minute + LOCKOUT_MINUTES]
  <2>1. /\ attempt[p] = "verify" /\ attempt' = [attempt EXCEPT ![p] = "append"]
        /\ limit' = new /\ UNCHANGED <<entries, minute, logins>>
    BY <1>4 DEF _record_failed_attempt, WindowOver
  <2>2. LockoutTypeOK' /\ EntriesHaveRoom' /\ DOMAIN entries' = Procs
    <3>1. new \in [count : Nat, start : 0..MaxMinute, expires : 0..(MaxMinute + LOCKOUT_MINUTES)]
      BY DEF LockoutTypeOK
    <3>2. QED
      BY <2>1, <3>1 DEF LockoutTypeOK, EntriesHaveRoom
  <2>3. p \in Verifying /\ Verifying' = Verifying \ {p}
    BY <2>1 DEF Verifying, LockoutTypeOK
  <2>4. Cardinality(Verifying') = Cardinality(Verifying) - 1
    BY <2>3, VerifyingLeaves
  <2>5. limit'.count + Cardinality(Verifying') <= MaxCount
    <3>1. CASE WindowOver
      BY <1>1a, <1>1, <2>1, <2>4, <3>1
    <3>2. CASE ~WindowOver
      BY <1>1a, <1>1, <2>1, <2>4, <3>2 DEF WindowHasRoom, LockoutTypeOK
    <3>3. QED
      BY <3>1, <3>2
  <2>6. limit'.count \in Nat /\ limit'.count <= MaxCount
    <3>1. limit'.count \in Nat
      BY <2>2 DEF LockoutTypeOK
    <3>2. QED
      BY <1>1a, <1>1, <2>5, <3>1
  <2>7. limit'.start <= minute' /\ limit'.start + LOCKOUT_MINUTES <= limit'.expires
    BY <2>1 DEF LockoutTypeOK, WindowHasRoom, WindowOver
  <2>8. QED
    BY <2>2, <2>5, <2>6, <2>7 DEF LockoutInv, WindowHasRoom, LockoutBound, MaxCount
<1>5. ASSUME NEW p \in Procs, _clear_rate_limit(p)
      PROVE  LockoutInv'
  <2>1. LockoutTypeOK' /\ EntriesHaveRoom' /\ DOMAIN entries' = Procs
    BY <1>5 DEF _clear_rate_limit, LockoutTypeOK, EntriesHaveRoom, NoLimit
  <2>2. limit'.count = 0 /\ limit'.start <= minute'
    BY <1>5 DEF _clear_rate_limit, NoLimit, LockoutTypeOK
  <2>3. QED
    BY <1>1, <2>1, <2>2 DEF LockoutInv, WindowHasRoom, WindowOver, LockoutBound, MaxCount
<1>6. ASSUME NEW p \in Procs, AppendEntry(p) \/ PopEntries(p) \/ Restart(p)
      PROVE  LockoutInv'
  <2>1. LockoutTypeOK' /\ EntriesHaveRoom' /\ DOMAIN entries' = Procs
    <3>1. /\ UNCHANGED <<limit, minute, logins>> /\ DOMAIN entries' = Procs
          /\ attempt' = [attempt EXCEPT ![p] = "none"]
          /\ \A q \in Procs : q # p => entries'[q] = entries[q]
      BY <1>6 DEF AppendEntry, PopEntries, Restart
    <3>2. Append(entries[p], minute) \in Seq(Nat) /\ Len(Append(entries[p], minute)) = Len(entries[p]) + 1
      BY DEF EntriesHaveRoom, LockoutTypeOK
    <3>3. CASE AppendEntry(p)
      <4>1. entries'[p] = Append(entries[p], minute) /\ Len(entries[p]) < MAX_FAILED_ATTEMPTS
        BY <3>3 DEF AppendEntry, EntriesHaveRoom
      <4>2. Len(entries[p]) \in Nat
        BY DEF EntriesHaveRoom
      <4>3. entries'[p] \in Seq(Nat) /\ Len(entries'[p]) <= MAX_FAILED_ATTEMPTS
        BY <3>2, <4>1, <4>2
      <4>4. QED
        BY <3>1, <4>3 DEF LockoutTypeOK, EntriesHaveRoom
    <3>4. CASE PopEntries(p) \/ Restart(p)
      <4>1. entries'[p] = <<>>
        BY <3>4 DEF PopEntries, Restart
      <4>2. entries'[p] \in Seq(Nat) /\ Len(entries'[p]) <= MAX_FAILED_ATTEMPTS
        BY <4>1
      <4>3. QED
        BY <3>1, <4>2 DEF LockoutTypeOK, EntriesHaveRoom
    <3>5. QED
      BY <1>6, <3>3, <3>4
  <2>2. Verifying' \subseteq Verifying /\ UNCHANGED <<limit, minute>>
    BY <1>6 DEF AppendEntry, PopEntries, Restart, Verifying, LockoutTypeOK
  <2>3. Cardinality(Verifying') <= Cardinality(Verifying)
    BY <2>2, VerifyingShrinks
  <2>4. WindowHasRoom'
    <3>1. limit.count \in Nat
      BY DEF LockoutTypeOK
    <3>2. WindowOver \/ limit.count + Cardinality(Verifying') <= MaxCount
      BY <1>1a, <1>1, <2>3, <3>1 DEF WindowHasRoom
    <3>3. QED
      BY <2>2, <3>2 DEF WindowHasRoom, WindowOver
  <2>5. QED
    BY <2>1, <2>2, <2>4 DEF LockoutInv, LockoutBound, MaxCount
<1>7. CASE sp_retention_purge_rate_limit_state
  <2>1. LockoutTypeOK' /\ EntriesHaveRoom' /\ DOMAIN entries' = Procs
    BY <1>7 DEF sp_retention_purge_rate_limit_state, LockoutTypeOK, EntriesHaveRoom, NoLimit
  <2>2. limit'.count = 0 /\ limit'.start <= minute'
    BY <1>7 DEF sp_retention_purge_rate_limit_state, NoLimit, LockoutTypeOK
  <2>3. QED
    BY <1>1, <2>1, <2>2 DEF LockoutInv, WindowHasRoom, WindowOver, LockoutBound, MaxCount
<1>8. CASE Minute
  <2>1. LockoutTypeOK' /\ EntriesHaveRoom' /\ DOMAIN entries' = Procs
    BY <1>8 DEF Minute, LockoutTypeOK, EntriesHaveRoom
  <2>2. Verifying' = Verifying /\ limit' = limit /\ minute' = minute + 1
    BY <1>8 DEF Minute, Verifying
  <2>3. WindowHasRoom'
    BY <1>1a, <1>1, <2>2 DEF WindowHasRoom, WindowOver, LockoutTypeOK
  <2>4. QED
    BY <2>1, <2>2, <2>3 DEF LockoutInv, LockoutBound, MaxCount
<1>9. CASE UNCHANGED lockoutVars
  BY <1>9 DEF lockoutVars, LockoutInv, LockoutTypeOK, EntriesHaveRoom, WindowHasRoom, WindowOver,
     Verifying, LockoutBound, MaxCount
<1>10. QED
  BY <1>2, <1>3, <1>4, <1>5, <1>6, <1>7, <1>8, <1>9 DEF LockoutNext

\* The inductive invariant of the lockout, its types included.
THEOREM LockoutInvariance == LockoutSpec => []LockoutInv
<1>1. LockoutInv /\ [LockoutNext]_lockoutVars => LockoutInv'
  BY LockoutStep
<1>2. QED
  BY LockoutStart, <1>1, PTL DEF LockoutSpec

\* For any number of processes and any threshold, an account's window takes at
\* most MAX_FAILED_ATTEMPTS failures and one more for each other process.
THEOREM LockoutBounded == LockoutSpec => []LockoutBound
<1>1. LockoutInv => LockoutBound
  BY DEF LockoutInv
<1>2. QED
  BY <1>1, LockoutInvariance, PTL

-----------------------------------------------------------------------------
(* Scheduled audit reports *)

RunSlots == Reports \X (1..MaxVersion)

RunnerStates ==
  [pc : {"rest", "next", "fetch", "save", "notify"}, due : BOOLEAN, queue : SUBSET RunSlots,
   rep : Reports \cup {"none"}, ver : 0..MaxVersion, at : (-1)..MaxHour]

Schedules == [live : BOOLEAN, next : 0..(MaxHour + Period), ver : 1..MaxVersion]

ReportsShape ==
  /\ schedule \in [Reports -> Schedules] /\ runner \in [Runners -> RunnerStates]
  /\ job \in [Runners -> JobStates] /\ hour \in 0..MaxHour /\ started \in 0..MaxRuns
  /\ ran \subseteq RunSlots

\* The slot a due run works on, and those it has listed.
Working(a)  == runner[a].pc \in {"fetch", "save", "notify"}
Current(a)  == <<runner[a].rep, runner[a].ver>>
Holds(a, x) == x \in runner[a].queue \/ (Working(a) /\ runner[a].due /\ x = Current(a))

\* What a runner has read so far; an update that found no row stays without
\* effect, since a deleted report is never restored.
RunnersConsistent ==
  \A a \in Runners :
    /\ Working(a) => runner[a].rep \in Reports
    /\ Working(a) /\ runner[a].due => Current(a) \in RunSlots \ runner[a].queue
    /\ runner[a].pc # "notify" => runner[a].at = -1
    /\ runner[a].pc = "notify" /\ runner[a].at < 0 => ~schedule[runner[a].rep].live

UpdatesExclude ==
  \A a, b \in Runners : runner[a].at >= 0 /\ runner[b].at >= 0 /\ runner[a].rep = runner[b].rep => a = b

\* No runner holds, and none has run, a version that is still to come.
VersionsPast ==
  /\ \A a \in Runners, x \in RunSlots : Holds(a, x) => x[2] <= schedule[x[1]].ver
  /\ \A x \in ran : x[2] <= schedule[x[1]].ver

\* What two runners hold was listed twice; what was run and is still held will
\* be run again for a reason that is known.
HeldTwiceListed ==
  \A a, b \in Runners, x \in RunSlots : a # b /\ Holds(a, x) /\ Holds(b, x) => x \in listed

RerunsKnown ==
  \A a \in Runners, x \in ran : Holds(a, x) => x \in listed \cup unsaved

ReportsInv ==
  /\ ReportsShape /\ RunnersConsistent /\ UpdatesExclude /\ VersionsPast
  /\ HeldTwiceListed /\ RerunsKnown /\ DueRunsOnce /\ RunAdvances

\* What every step does to the schedule: versions grow, what is deleted stays
\* deleted.
Onward ==
  \A p \in Reports : schedule[p].ver <= schedule'[p].ver /\ (schedule'[p].live => schedule[p].live)

\* A step on which no runner takes more than it holds and none ends a run.
LEMMA ReportsMove ==
  ASSUME ReportsInv, ReportsShape', RunnersConsistent', UpdatesExclude', Onward,
         ran' = ran, twice' = twice, listed' = listed, unsaved' = unsaved,
         \A a \in Runners, x \in RunSlots : Holds(a, x)' => Holds(a, x)
  PROVE  ReportsInv'
<1>1. \A p \in Reports : schedule[p].ver \in Nat /\ schedule'[p].ver \in Nat
  BY ReportsAssumption DEF ReportsInv, ReportsShape, Schedules
<1>2. \A x \in RunSlots : x[1] \in Reports /\ x[2] \in Nat
  BY ReportsAssumption DEF RunSlots
<1>3. VersionsPast'
  <2>1. ASSUME NEW a \in Runners, NEW x \in RunSlots, Holds(a, x)'
        PROVE  x[2] <= schedule'[x[1]].ver
    BY <1>1, <1>2, <2>1 DEF ReportsInv, VersionsPast, Onward
  <2>2. ASSUME NEW x \in ran
        PROVE  x[2] <= schedule'[x[1]].ver
    BY <1>1, <1>2 DEF ReportsInv, ReportsShape, VersionsPast, Onward
  <2>3. QED
    BY <2>1, <2>2 DEF VersionsPast
<1>4. HeldTwiceListed' /\ RerunsKnown' /\ DueRunsOnce'
  BY DEF ReportsInv, HeldTwiceListed, RerunsKnown, DueRunsOnce, ReportsShape
<1>5. RunAdvances'
  <2>1. SUFFICES ASSUME NEW x \in ran, schedule'[x[1]].ver = x[2]
                 PROVE  x \in unsaved \/ ~schedule'[x[1]].live
    BY DEF RunAdvances
  <2>2. x[1] \in Reports /\ x[2] \in Nat /\ x[2] <= schedule[x[1]].ver
    BY <1>2 DEF ReportsInv, ReportsShape, VersionsPast
  <2>3. schedule[x[1]].ver = x[2]
    BY <1>1, <2>1, <2>2 DEF Onward
  <2>4. QED
    BY <2>2, <2>3 DEF ReportsInv, RunAdvances, Onward
<1>6. QED
  BY <1>3, <1>4, <1>5 DEF ReportsInv

LEMMA RunnerFields ==
  ASSUME ReportsShape, NEW a \in Runners
  PROVE  /\ runner[a].pc \in {"rest", "next", "fetch", "save", "notify"}
         /\ runner[a].due \in BOOLEAN /\ runner[a].queue \subseteq RunSlots
         /\ runner[a].rep \in Reports \cup {"none"} /\ runner[a].ver \in 0..MaxVersion
         /\ runner[a].at \in (-1)..MaxHour
BY DEF ReportsShape, RunnerStates

LEMMA RestingFields ==
  /\ Resting \in RunnerStates /\ Resting.pc = "rest" /\ Resting.at = -1
  /\ Resting.queue = {} /\ Resting.due = FALSE
BY ReportsAssumption DEF Resting, RunnerStates

\* After a run a due runner keeps what is left of its list; another rests.
LEMMA AfterRunFields ==
  ASSUME ReportsInv, NEW a \in Runners
  PROVE  /\ AfterRun(a) \in RunnerStates /\ AfterRun(a).pc \in {"rest", "next"}
         /\ AfterRun(a).at = -1 /\ AfterRun(a).queue \subseteq runner[a].queue
<1> USE ReportsAssumption
<1>1. CASE runner[a].due
  <2>1. AfterRun(a) = [pc |-> "next", due |-> runner[a].due, queue |-> runner[a].queue,
                       rep |-> "none", ver |-> 0, at |-> -1]
    <3>1. runner[a] \in RunnerStates
      BY DEF ReportsInv, ReportsShape
    <3>2. QED
      BY <1>1, <3>1 DEF AfterRun, RunnerStates
  <2>2. QED
    BY <2>1, RunnerFields DEF RunnerStates, ReportsInv
<1>2. CASE ~runner[a].due
  BY <1>2, RestingFields DEF AfterRun
<1>3. QED
  BY <1>1, <1>2

\* A runner that leaves its run for the next one, or for good.
LEMMA RunLeaves ==
  ASSUME ReportsInv, NEW a \in Runners, NEW next \in RunnerStates, next.pc \in {"rest", "next"},
         next.at = -1, next.queue \subseteq runner[a].queue,
         runner' = [runner EXCEPT ![a] = next], Onward
  PROVE  /\ runner' \in [Runners -> RunnerStates] /\ RunnersConsistent' /\ UpdatesExclude'
         /\ \A b \in Runners, x \in RunSlots : Holds(b, x)' => Holds(b, x)
         /\ \A x \in RunSlots : Holds(a, x)' => x \in runner[a].queue
<1>1. /\ runner' \in [Runners -> RunnerStates] /\ runner'[a] = next
      /\ \A b \in Runners : b # a => runner'[b] = runner[b]
  BY DEF ReportsInv, ReportsShape
<1>2. RunnersConsistent'
  <2>1. SUFFICES ASSUME NEW b \in Runners
                 PROVE  /\ Working(b)' => runner'[b].rep \in Reports
                        /\ Working(b)' /\ runner'[b].due => Current(b)' \in RunSlots \ runner'[b].queue
                        /\ runner'[b].pc # "notify" => runner'[b].at = -1
                        /\ runner'[b].pc = "notify" /\ runner'[b].at < 0 => ~schedule'[runner'[b].rep].live
    BY DEF RunnersConsistent
  <2>2. CASE b = a
    BY <1>1, <2>2 DEF Working
  <2>3. CASE b # a
    BY <1>1, <2>3 DEF Working, Current, ReportsInv, RunnersConsistent, Onward
  <2>4. QED
    BY <2>2, <2>3
<1>3. UpdatesExclude'
  BY <1>1 DEF ReportsInv, UpdatesExclude
<1>4. ASSUME NEW b \in Runners, NEW x \in RunSlots, Holds(b, x)'
      PROVE  Holds(b, x) /\ (b = a => x \in runner[a].queue)
  <2>1. CASE b = a
    BY <1>1, <1>4, <2>1 DEF Holds, Working
  <2>2. CASE b # a
    BY <1>1, <1>4, <2>2 DEF Holds, Working, Current
  <2>3. QED
    BY <2>1, <2>2
<1>5. QED
  BY <1>1, <1>2, <1>3, <1>4

\* A run that ends, with its update committed or rolled back.
LEMMA RunEnds ==
  ASSUME ReportsInv, NEW a \in Runners, runner[a].pc = "notify", EndRun(a),
         schedule' \in [Reports -> Schedules], Onward, UNCHANGED <<hour, started, listed>>,
         unsaved \subseteq unsaved',
         runner[a].due /\ schedule'[runner[a].rep].ver = runner[a].ver =>
           Current(a) \in unsaved' \/ ~schedule'[runner[a].rep].live
  PROVE  ReportsInv'
<1> DEFINE x == Current(a)
<1>1. /\ runner' = [runner EXCEPT ![a] = AfterRun(a)]
      /\ job' = [job EXCEPT ![a] = IF runner[a].due THEN @ ELSE "completed"]
  BY DEF EndRun
<1>2. /\ ran' = ran \cup (IF runner[a].due THEN {x} ELSE {})
      /\ twice' = twice \cup (IF runner[a].due THEN {x} \cap ran ELSE {})
  <2>1. runner[a].due \in BOOLEAN
    BY RunnerFields DEF ReportsInv
  <2>2. CASE runner[a].due = TRUE
    BY <2>2 DEF EndRun, Current
  <2>3. CASE runner[a].due = FALSE
    BY <2>3 DEF EndRun, Current
  <2>4. QED
    BY <2>1, <2>2, <2>3
<1>3. /\ runner' \in [Runners -> RunnerStates] /\ RunnersConsistent' /\ UpdatesExclude'
      /\ \A b \in Runners, y \in RunSlots : Holds(b, y)' => Holds(b, y)
      /\ \A y \in RunSlots : Holds(a, y)' => y \in runner[a].queue
  BY <1>1, AfterRunFields, RunLeaves
<1>4. runner[a].due => x \in RunSlots /\ x \notin runner[a].queue /\ Holds(a, x)
  BY DEF ReportsInv, RunnersConsistent, Working, Holds
<1>5. ReportsShape'
  <2>1. job' \in [Runners -> JobStates]
    BY <1>1 DEF ReportsInv, ReportsShape, JobStates
  <2>2. ran' \subseteq RunSlots
    BY <1>2, <1>4 DEF ReportsInv, ReportsShape
  <2>3. QED
    BY <1>3, <2>1, <2>2 DEF ReportsInv, ReportsShape
<1>6. \A p \in Reports : schedule[p].ver \in Nat /\ schedule'[p].ver \in Nat
  BY ReportsAssumption DEF ReportsInv, ReportsShape, Schedules
<1>7. \A y \in RunSlots : y[1] \in Reports /\ y[2] \in Nat
  BY ReportsAssumption DEF RunSlots
<1>8. \A y \in ran' : y \in RunSlots /\ y[2] <= schedule[y[1]].ver
  BY <1>2, <1>4 DEF ReportsInv, ReportsShape, VersionsPast
<1>9. VersionsPast'
  <2>1. ASSUME NEW b \in Runners, NEW y \in RunSlots, Holds(b, y)'
        PROVE  y[2] <= schedule'[y[1]].ver
    BY <1>3, <1>6, <1>7, <2>1 DEF ReportsInv, VersionsPast, Onward
  <2>2. ASSUME NEW y \in ran'
        PROVE  y[2] <= schedule'[y[1]].ver
    BY <1>6, <1>7, <1>8 DEF Onward
  <2>3. QED
    BY <2>1, <2>2 DEF VersionsPast
<1>10. HeldTwiceListed'
  BY <1>3 DEF ReportsInv, HeldTwiceListed
<1>11. RerunsKnown'
  <2>1. SUFFICES ASSUME NEW b \in Runners, NEW y \in ran', Holds(b, y)'
                 PROVE  y \in listed' \cup unsaved'
    BY DEF RerunsKnown
  <2>2. y \in RunSlots /\ Holds(b, y)
    BY <1>3, <1>8, <2>1
  <2>3. CASE y \in ran
    BY <2>2, <2>3 DEF ReportsInv, RerunsKnown
  <2>4. CASE y \notin ran
    <3>1. runner[a].due /\ y = x
      BY <1>2, <2>4
    <3>2. b # a
      BY <1>3, <1>4, <2>1, <2>2, <3>1
    <3>3. QED
      BY <1>4, <2>2, <3>1, <3>2 DEF ReportsInv, HeldTwiceListed
  <2>5. QED
    BY <2>3, <2>4
<1>12. DueRunsOnce'
  <2>1. runner[a].due /\ x \in ran => x \in listed \cup unsaved
    BY <1>4 DEF ReportsInv, RerunsKnown
  <2>2. QED
    BY <1>2, <2>1 DEF ReportsInv, DueRunsOnce
<1>13. RunAdvances'
  <2>1. SUFFICES ASSUME NEW y \in ran', schedule'[y[1]].ver = y[2]
                 PROVE  y \in unsaved' \/ ~schedule'[y[1]].live
    BY DEF RunAdvances
  <2>2. y[1] \in Reports /\ y[2] \in Nat /\ y[2] <= schedule[y[1]].ver
    BY <1>7, <1>8
  <2>3. schedule[y[1]].ver = y[2]
    BY <1>6, <2>1, <2>2 DEF Onward
  <2>4. CASE y \in ran
    BY <2>2, <2>3, <2>4 DEF ReportsInv, RunAdvances, Onward
  <2>5. CASE y \notin ran
    <3>1. runner[a].due /\ y = x
      BY <1>2, <2>5
    <3>2. y[1] = runner[a].rep /\ y[2] = runner[a].ver
      BY <3>1 DEF Current
    <3>3. QED
      BY <2>1, <3>1, <3>2
  <2>6. QED
    BY <2>4, <2>5
<1>14. QED
  BY <1>3, <1>5, <1>9, <1>10, <1>11, <1>12, <1>13 DEF ReportsInv

\* A write of a row's next_run_time.
LEMMA Rescheduled ==
  ASSUME ReportsShape, NEW p \in Reports, NEW n \in 0..(MaxHour + Period),
         schedule[p].ver < MaxVersion,
         schedule' = [schedule EXCEPT ![p].next = n, ![p].ver = @ + 1]
  PROVE  /\ schedule' \in [Reports -> Schedules] /\ Onward
         /\ schedule'[p].ver = schedule[p].ver + 1
<1>1. schedule[p] \in Schedules
  BY DEF ReportsShape
<1> DEFINE row == [live |-> schedule[p].live, next |-> n, ver |-> schedule[p].ver + 1]
<1>2. row \in Schedules
  BY <1>1, ReportsAssumption DEF Schedules
<1>3. schedule'[p] = row /\ \A q \in Reports : q # p => schedule'[q] = schedule[q]
  BY <1>1 DEF ReportsShape, Schedules
<1>4. DOMAIN schedule' = Reports /\ schedule' = [q \in Reports |-> schedule'[q]]
  BY DEF ReportsShape
<1>5. schedule' \in [Reports -> Schedules]
  BY <1>2, <1>3, <1>4 DEF ReportsShape
<1>6. \A q \in Reports : schedule[q].ver \in Nat
  BY ReportsAssumption DEF ReportsShape, Schedules
<1>7. QED
  BY <1>3, <1>5, <1>6 DEF Onward

\* A step of the schedule pages, while the runners stand still.
LEMMA PageStep ==
  ASSUME ReportsInv, schedule' \in [Reports -> Schedules], Onward,
         UNCHANGED <<runner, job, started, ran, twice, listed, unsaved>>,
         hour' \in 0..MaxHour
  PROVE  ReportsInv'
<1>1. ReportsShape' /\ UpdatesExclude'
  BY DEF ReportsInv, ReportsShape, UpdatesExclude
<1>2. RunnersConsistent'
  BY DEF ReportsInv, RunnersConsistent, Working, Current, Onward
<1>3. \A a \in Runners, x \in RunSlots : Holds(a, x)' => Holds(a, x)
  BY DEF Holds, Working, Current
<1>4. QED
  BY <1>1, <1>2, <1>3, ReportsMove

LEMMA SameSchedule ==
  ASSUME ReportsShape, schedule' = schedule
  PROVE  Onward /\ schedule' \in [Reports -> Schedules]
<1>1. \A q \in Reports : schedule[q].ver \in Nat
  BY ReportsAssumption DEF ReportsShape, Schedules
<1>2. QED
  BY <1>1 DEF Onward, ReportsShape

LEMMA SchedulePages ==
  ASSUME ReportsInv,
         \/ Hour
         \/ \E p \in Reports : DeleteSchedule(p) \/ \E n \in 0..MaxHour : EditSchedule(p, n)
  PROVE  ReportsInv'
<1> USE ReportsAssumption
<1>1. CASE Hour
  <2>1. /\ UNCHANGED <<schedule, runner, job, started, ran, twice, listed, unsaved>>
        /\ hour' \in 0..MaxHour
    BY <1>1 DEF Hour, ReportsInv, ReportsShape
  <2>2. QED
    BY <2>1, SameSchedule, PageStep DEF ReportsInv
<1>2. ASSUME NEW p \in Reports, DeleteSchedule(p)
      PROVE  ReportsInv'
  <2>1. schedule' = [schedule EXCEPT ![p].live = FALSE]
    BY <1>2 DEF DeleteSchedule
  <2>2. schedule' \in [Reports -> Schedules]
    BY <2>1 DEF ReportsInv, ReportsShape, Schedules
  <2>3. Onward
    BY <2>1 DEF Onward, ReportsInv, ReportsShape, Schedules
  <2>4. QED
    BY <1>2, <2>2, <2>3, PageStep DEF DeleteSchedule, ReportsInv, ReportsShape
<1>3. ASSUME NEW p \in Reports, NEW n \in 0..MaxHour, EditSchedule(p, n)
      PROVE  ReportsInv'
  <2>1. /\ schedule' = [schedule EXCEPT ![p].next = n, ![p].ver = @ + 1]
        /\ schedule[p].ver < MaxVersion /\ n \in 0..(MaxHour + Period)
        /\ UNCHANGED <<runner, job, hour, started, ran, twice, listed, unsaved>>
    BY <1>3 DEF EditSchedule
  <2>2. QED
    BY <2>1, Rescheduled, PageStep DEF ReportsInv, ReportsShape
<1>4. QED
  BY <1>1, <1>2, <1>3

\* A state a runner may move to, and one that takes nothing it does not hold.
Fits(next) ==
  /\ next.pc \in {"fetch", "save", "notify"} =>
       /\ next.rep \in Reports
       /\ next.due => <<next.rep, next.ver>> \in RunSlots \ next.queue
  /\ next.pc # "notify" => next.at = -1
  /\ next.pc = "notify" /\ next.at < 0 => ~schedule[next.rep].live
  /\ next.at >= 0 => Unlocked(next.rep)

TakesNothing(a, next) ==
  /\ \A x \in next.queue : Holds(a, x)
  /\ next.pc \in {"fetch", "save", "notify"} /\ next.due => Holds(a, <<next.rep, next.ver>>)

\* One runner moves to another state that is consistent with the schedule.
LEMMA RunnerMoves ==
  ASSUME ReportsInv, NEW a \in Runners, NEW next \in RunnerStates,
         runner' = [runner EXCEPT ![a] = next],
         UNCHANGED <<schedule, hour, ran>>, job' \in [Runners -> JobStates], started' \in 0..MaxRuns,
         Fits(next)
  PROVE  /\ ReportsShape' /\ RunnersConsistent' /\ UpdatesExclude' /\ Onward
         /\ runner'[a] = next /\ \A b \in Runners : b # a => runner'[b] = runner[b]
         /\ \A b \in Runners, x \in RunSlots : b # a => (Holds(b, x)' <=> Holds(b, x))
<1>1. /\ runner' \in [Runners -> RunnerStates] /\ runner'[a] = next
      /\ \A b \in Runners : b # a => runner'[b] = runner[b]
  BY DEF ReportsInv, ReportsShape
<1>2. ReportsShape' /\ Onward
  BY <1>1, SameSchedule DEF ReportsInv, ReportsShape
<1>3. RunnersConsistent'
  <2>1. SUFFICES ASSUME NEW b \in Runners
                 PROVE  /\ Working(b)' => runner'[b].rep \in Reports
                        /\ Working(b)' /\ runner'[b].due => Current(b)' \in RunSlots \ runner'[b].queue
                        /\ runner'[b].pc # "notify" => runner'[b].at = -1
                        /\ runner'[b].pc = "notify" /\ runner'[b].at < 0 => ~schedule'[runner'[b].rep].live
    BY DEF RunnersConsistent
  <2>2. CASE b = a
    BY <1>1, <2>2 DEF Working, Current, Fits
  <2>3. CASE b # a
    BY <1>1, <2>3 DEF Working, Current, ReportsInv, RunnersConsistent
  <2>4. QED
    BY <2>2, <2>3
<1>4. UpdatesExclude'
  <2>1. \A b \in Runners : runner[b].at \in Int /\ runner'[b].at \in Int
    BY <1>1, ReportsAssumption DEF RunnerStates, ReportsInv, ReportsShape
  <2>2. QED
    BY <1>1, <2>1 DEF ReportsInv, UpdatesExclude, Unlocked, Fits
<1>5. \A b \in Runners, x \in RunSlots : b # a => (Holds(b, x)' <=> Holds(b, x))
  BY <1>1 DEF Holds, Working, Current
<1>6. QED
  BY <1>1, <1>2, <1>3, <1>4, <1>5

\* ... and takes nothing it does not hold.
LEMMA RunnerMovesOn ==
  ASSUME ReportsInv, NEW a \in Runners, NEW next \in RunnerStates,
         runner' = [runner EXCEPT ![a] = next],
         UNCHANGED <<schedule, hour, ran, twice, listed, unsaved>>,
         job' \in [Runners -> JobStates], started' \in 0..MaxRuns,
         Fits(next), TakesNothing(a, next)
  PROVE  ReportsInv'
<1>1. /\ ReportsShape' /\ RunnersConsistent' /\ UpdatesExclude' /\ Onward /\ runner'[a] = next
      /\ \A b \in Runners, x \in RunSlots : b # a => (Holds(b, x)' <=> Holds(b, x))
  BY RunnerMoves
<1>2. ASSUME NEW x \in RunSlots, Holds(a, x)'
      PROVE  Holds(a, x)
  BY <1>1, <1>2 DEF Holds, Working, Current, TakesNothing
<1>3. QED
  BY <1>1, <1>2, ReportsMove

LEMMA OnDemandStep ==
  ASSUME ReportsInv, NEW a \in Runners, NEW p \in Reports, RunOnDemand(a, p)
  PROVE  ReportsInv'
<1> USE ReportsAssumption
<1> DEFINE next == [Resting EXCEPT !.pc = "fetch", !.rep = p]
<1>1. /\ next \in RunnerStates /\ next.pc = "fetch" /\ next.rep = p
      /\ next.due = FALSE /\ next.queue = {} /\ next.at = -1
  <2>1. next \in RunnerStates
    BY RestingFields DEF RunnerStates
  <2>2. next.pc = "fetch" /\ next.rep = p
    BY RestingFields DEF RunnerStates
  <2>3. next.due = FALSE /\ next.queue = {} /\ next.at = -1
    BY RestingFields DEF RunnerStates
  <2>4. QED
    BY <2>1, <2>2, <2>3
<1> HIDE DEF next
<1>2. /\ runner' = [runner EXCEPT ![a] = next] /\ job' \in [Runners -> JobStates]
      /\ started' \in 0..MaxRuns /\ UNCHANGED <<schedule, hour, ran, twice, listed, unsaved>>
  BY DEF RunOnDemand, ReportsInv, ReportsShape, JobStates, next
<1>3. next \in RunnerStates /\ Fits(next) /\ TakesNothing(a, next)
  BY <1>1, RestingFields DEF Fits, TakesNothing
<1>4. QED
  BY <1>2, <1>3, RunnerMovesOn

LEMMA NextDueStep ==
  ASSUME ReportsInv, NEW a \in Runners, NextDue(a)
  PROVE  ReportsInv'
<1> USE ReportsAssumption
<1>1. runner[a].pc = "next" /\ runner[a].at = -1 /\ runner[a] \in RunnerStates
  BY DEF NextDue, ReportsInv, RunnersConsistent, ReportsShape
<1>2. /\ UNCHANGED <<schedule, job, hour, started, ran, twice, listed, unsaved>>
      /\ job' \in [Runners -> JobStates] /\ started' \in 0..MaxRuns
  BY DEF NextDue, ReportsInv, ReportsShape
<1>3. CASE runner[a].queue = {}
  <2>1. runner' = [runner EXCEPT ![a] = Resting]
    BY <1>3 DEF NextDue
  <2>2. Fits(Resting) /\ TakesNothing(a, Resting)
    BY RestingFields DEF Fits, TakesNothing
  <2>3. QED
    BY <1>2, <2>1, <2>2, RestingFields, RunnerMovesOn
<1>4. CASE runner[a].queue # {}
  <2>1. PICK d \in runner[a].queue :
          runner' = [runner EXCEPT ![a].pc = "fetch", ![a].rep = d[1], ![a].ver = d[2],
                                   ![a].queue = @ \ {d}]
    BY <1>4 DEF NextDue
  <2> DEFINE next == [pc |-> "fetch", due |-> runner[a].due, queue |-> runner[a].queue \ {d},
                      rep |-> d[1], ver |-> d[2], at |-> runner[a].at]
  <2>2. d \in RunSlots /\ d[1] \in Reports /\ d[2] \in 1..MaxVersion /\ d = <<d[1], d[2]>>
    <3>1. d \in RunSlots
      BY RunnerFields DEF ReportsInv
    <3>2. QED
      BY <3>1 DEF RunSlots
  <2>3. next \in RunnerStates
    BY <1>1, <2>2, RunnerFields DEF RunnerStates, ReportsInv
  <2>4. runner' = [runner EXCEPT ![a] = next]
    BY <1>1, <2>1 DEF ReportsInv, ReportsShape, RunnerStates
  <2>5. \A x \in next.queue : Holds(a, x)
    BY DEF Holds
  <2>6. Holds(a, <<d[1], d[2]>>) /\ <<d[1], d[2]>> \notin next.queue
    BY <2>2 DEF Holds
  <2>7. Fits(next) /\ TakesNothing(a, next)
    BY <1>1, <2>2, <2>5, <2>6 DEF Fits, TakesNothing
  <2> HIDE DEF next
  <2>8. QED
    BY <1>2, <2>3, <2>4, <2>7, RunnerMovesOn
<1>5. QED
  BY <1>3, <1>4

\* What is due is at its current version.
LEMMA DueSlots ==
  ASSUME ReportsShape, NEW p \in Reports
  PROVE  Slot(p) \in RunSlots /\ Slot(p)[1] = p /\ Slot(p)[2] = schedule[p].ver
BY ReportsAssumption DEF ReportsShape, Schedules, Slot, RunSlots

LEMMA RunDueStep ==
  ASSUME ReportsInv, NEW a \in Runners, run_due_reports(a)
  PROVE  ReportsInv'
<1> USE ReportsAssumption
<1> DEFINE due  == {Slot(p) : p \in {q \in Reports : IsDue(q)}}
           next == [Resting EXCEPT !.pc = "next", !.due = TRUE, !.queue = due]
<1>1. \A x \in due : /\ x \in RunSlots /\ x[1] \in Reports /\ x[2] = schedule[x[1]].ver
                     /\ schedule[x[1]].live
  <2>1. SUFFICES ASSUME NEW x \in due
                 PROVE  /\ x \in RunSlots /\ x[1] \in Reports /\ x[2] = schedule[x[1]].ver
                        /\ schedule[x[1]].live
    OBVIOUS
  <2>2. PICK p \in Reports : IsDue(p) /\ x = Slot(p)
    OBVIOUS
  <2>3. QED
    BY <2>2, DueSlots DEF IsDue, ReportsInv
<1>2. /\ runner' = [runner EXCEPT ![a] = next] /\ job' \in [Runners -> JobStates]
      /\ started' \in 0..MaxRuns /\ UNCHANGED <<schedule, hour, ran, twice, unsaved>>
      /\ listed \subseteq listed'
  BY DEF run_due_reports, ReportsInv, ReportsShape, JobStates
<1>3. \A x \in due : (\E b \in Runners : x \in runner[b].queue \/ Current(b) = x) => x \in listed'
  BY DEF run_due_reports, Current
<1> HIDE DEF due
<1>4. /\ next \in RunnerStates /\ next.pc = "next" /\ next.queue = due /\ next.at = -1
  <2>1. next \in RunnerStates
    BY <1>1, RestingFields DEF RunnerStates
  <2>2. next.pc = "next" /\ next.queue = due /\ next.at = -1
    BY RestingFields DEF RunnerStates
  <2>3. QED
    BY <2>1, <2>2
<1> HIDE DEF next
<1>5. Fits(next)
  BY <1>4 DEF Fits
<1>6. /\ ReportsShape' /\ RunnersConsistent' /\ UpdatesExclude' /\ Onward
      /\ runner'[a] = next
      /\ \A b \in Runners, x \in RunSlots : b # a => (Holds(b, x)' <=> Holds(b, x))
  BY <1>2, <1>4, <1>5, RunnerMoves
<1>7. \A x \in RunSlots : Holds(a, x)' => x \in due
  BY <1>4, <1>6 DEF Holds, Working
<1>8. \A x \in RunSlots : x[1] \in Reports /\ x[2] \in Nat
  BY DEF RunSlots
<1>9. VersionsPast'
  <2>1. ASSUME NEW b \in Runners, NEW x \in RunSlots, Holds(b, x)'
        PROVE  x[2] <= schedule'[x[1]].ver
    <3>1. CASE b = a
      BY <1>1, <1>2, <1>7, <1>8, <2>1, <3>1
    <3>2. CASE b # a
      BY <1>2, <1>6, <2>1, <3>2 DEF ReportsInv, VersionsPast
    <3>3. QED
      BY <3>1, <3>2
  <2>2. \A x \in ran' : x[2] <= schedule'[x[1]].ver
    BY <1>2 DEF ReportsInv, VersionsPast
  <2>3. QED
    BY <2>1, <2>2 DEF VersionsPast
<1>10. ASSUME NEW b \in Runners, NEW x \in RunSlots, b # a, Holds(a, x)', Holds(b, x)'
       PROVE  x \in listed'
  BY <1>3, <1>6, <1>7, <1>10 DEF Holds
<1>11. HeldTwiceListed'
  <2>1. SUFFICES ASSUME NEW b \in Runners, NEW c \in Runners, NEW x \in RunSlots,
                        b # c, Holds(b, x)', Holds(c, x)'
                 PROVE  x \in listed'
    BY DEF HeldTwiceListed
  <2>2. CASE b # a /\ c # a
    BY <1>2, <1>6, <2>1, <2>2 DEF ReportsInv, HeldTwiceListed
  <2>3. CASE b = a \/ c = a
    BY <1>10, <2>1, <2>3
  <2>4. QED
    BY <2>2, <2>3
<1>12. RerunsKnown'
  <2>1. SUFFICES ASSUME NEW b \in Runners, NEW x \in ran, Holds(b, x)'
                 PROVE  x \in listed' \cup unsaved'
    BY <1>2 DEF RerunsKnown
  <2>2. x \in RunSlots
    BY DEF ReportsInv, ReportsShape
  <2>3. CASE b = a
    BY <1>1, <1>2, <1>7, <2>1, <2>2, <2>3 DEF ReportsInv, RunAdvances
  <2>4. CASE b # a
    BY <1>2, <1>6, <2>1, <2>2, <2>4 DEF ReportsInv, RerunsKnown
  <2>5. QED
    BY <2>3, <2>4
<1>13. DueRunsOnce' /\ RunAdvances'
  BY <1>2 DEF ReportsInv, DueRunsOnce, RunAdvances
<1>14. QED
  BY <1>6, <1>9, <1>11, <1>12, <1>13 DEF ReportsInv

LEMMA FetchStep ==
  ASSUME ReportsInv, NEW a \in Runners, FetchReport(a)
  PROVE  ReportsInv'
<1> USE ReportsAssumption
<1>1. /\ runner[a].pc = "fetch" /\ runner[a].at = -1 /\ runner[a] \in RunnerStates
      /\ Working(a) /\ runner[a].rep \in Reports
  BY DEF FetchReport, ReportsInv, RunnersConsistent, ReportsShape, Working
<1>2. /\ UNCHANGED <<schedule, hour, started, ran, twice, listed, unsaved>>
      /\ started' \in 0..MaxRuns
  BY DEF FetchReport, ReportsInv, ReportsShape
<1>3. job' \in [Runners -> JobStates]
  <2>1. \A j \in JobStates : (CASE runner[a].due -> j [] schedule[runner[a].rep].live -> "running"
                                [] OTHER -> "failed") \in JobStates
    BY DEF JobStates
  <2>2. QED
    BY <2>1 DEF FetchReport, ReportsInv, ReportsShape
<1>4. CASE schedule[runner[a].rep].live
  <2> DEFINE next == [runner[a] EXCEPT !.pc = "save"]
  <2>1. runner' = [runner EXCEPT ![a] = next]
    BY <1>4 DEF FetchReport, ReportsInv, ReportsShape
  <2>2. next \in RunnerStates /\ next.pc = "save" /\ next.at = -1 /\ next.due = runner[a].due
        /\ next.queue = runner[a].queue /\ next.rep = runner[a].rep /\ next.ver = runner[a].ver
    BY <1>1 DEF RunnerStates
  <2> HIDE DEF next
  <2>3. Fits(next)
    BY <1>1, <2>2 DEF Fits, ReportsInv, RunnersConsistent, Current
  <2>4. TakesNothing(a, next)
    BY <1>1, <2>2 DEF TakesNothing, Holds, Current
  <2>5. QED
    BY <1>2, <1>3, <2>1, <2>2, <2>3, <2>4, RunnerMovesOn
<1>5. CASE ~schedule[runner[a].rep].live
  <2>1. runner' = [runner EXCEPT ![a] = AfterRun(a)]
    BY <1>5 DEF FetchReport
  <2>2. Fits(AfterRun(a)) /\ TakesNothing(a, AfterRun(a))
    BY AfterRunFields DEF Fits, TakesNothing, Holds
  <2>3. QED
    BY <1>2, <1>3, <2>1, <2>2, AfterRunFields, RunnerMovesOn
<1>6. QED
  BY <1>4, <1>5

LEMMA RunFailsStep ==
  ASSUME ReportsInv, NEW a \in Runners, RunFails(a)
  PROVE  ReportsInv'
<1>1. /\ runner' = [runner EXCEPT ![a] = Resting] /\ job' \in [Runners -> JobStates]
      /\ UNCHANGED <<schedule, hour, started, ran, twice, listed, unsaved>>
      /\ started' \in 0..MaxRuns
  BY DEF RunFails, ReportsInv, ReportsShape, JobStates
<1>2. Fits(Resting) /\ TakesNothing(a, Resting)
  BY RestingFields DEF Fits, TakesNothing
<1>3. QED
  BY <1>1, <1>2, RestingFields, RunnerMovesOn

LEMMA UpdateStep ==
  ASSUME ReportsInv, NEW a \in Runners, update_last_run(a)
  PROVE  ReportsInv'
<1> USE ReportsAssumption
<1>1. /\ runner[a].pc = "save" /\ runner[a] \in RunnerStates /\ Working(a)
      /\ runner[a].rep \in Reports /\ Unlocked(runner[a].rep)
  BY DEF update_last_run, ReportsInv, RunnersConsistent, ReportsShape, Working
<1>2. /\ UNCHANGED <<schedule, job, hour, started, ran, twice, listed, unsaved>>
      /\ started' \in 0..MaxRuns /\ job' \in [Runners -> JobStates] /\ hour \in 0..MaxHour
  BY DEF update_last_run, ReportsInv, ReportsShape
<1> DEFINE at   == IF schedule[runner[a].rep].live THEN hour ELSE -1
           next == [runner[a] EXCEPT !.pc = "notify", !.at = at]
<1>3. at \in (-1)..MaxHour /\ (at < 0 => ~schedule[runner[a].rep].live)
  BY <1>2
<1>4. runner' = [runner EXCEPT ![a] = next]
  BY DEF update_last_run, ReportsInv, ReportsShape
<1> HIDE DEF at
<1>5. /\ next \in RunnerStates /\ next.pc = "notify" /\ next.at = at
      /\ next.due = runner[a].due /\ next.queue = runner[a].queue
      /\ next.rep = runner[a].rep /\ next.ver = runner[a].ver
  <2>1. next \in RunnerStates
    BY <1>1, <1>3 DEF RunnerStates
  <2>2. next.pc = "notify" /\ next.at = at
    BY <1>1 DEF RunnerStates
  <2>3. next.due = runner[a].due /\ next.queue = runner[a].queue
        /\ next.rep = runner[a].rep /\ next.ver = runner[a].ver
    BY <1>1 DEF RunnerStates
  <2>4. QED
    BY <2>1, <2>2, <2>3
<1> HIDE DEF next
<1>6. Fits(next)
  BY <1>1, <1>3, <1>5 DEF Fits, ReportsInv, RunnersConsistent, Current
<1>7. TakesNothing(a, next)
  BY <1>1, <1>5 DEF TakesNothing, Holds, Current
<1>8. QED
  BY <1>2, <1>4, <1>5, <1>6, <1>7, RunnerMovesOn

LEMMA NotifyStep ==
  ASSUME ReportsInv, NEW a \in Runners, Notify(a) \/ NotifyFails(a)
  PROVE  ReportsInv'
<1> USE ReportsAssumption
<1>1. /\ runner[a].pc = "notify" /\ EndRun(a) /\ UNCHANGED <<hour, started, listed>>
      /\ unsaved \subseteq unsaved'
  BY DEF Notify, NotifyFails
<1>2. /\ Working(a) /\ runner[a].rep \in Reports /\ runner[a].at \in (-1)..MaxHour
      /\ (runner[a].at < 0 => ~schedule[runner[a].rep].live)
  BY <1>1, RunnerFields DEF ReportsInv, RunnersConsistent, Working
<1>3. runner[a].due => Current(a) \in RunSlots /\ Holds(a, Current(a))
  BY <1>2 DEF ReportsInv, RunnersConsistent, Holds
<1>4. runner[a].due => runner[a].ver \in Nat /\ runner[a].ver <= schedule[runner[a].rep].ver
  BY <1>3 DEF ReportsInv, VersionsPast, Current, RunSlots
<1>5. schedule[runner[a].rep].ver \in Nat
  BY <1>2 DEF ReportsInv, ReportsShape, Schedules
<1>6. CASE NotifyFails(a)
  <2>1. schedule' = schedule /\ Slot(runner[a].rep) \in unsaved'
    BY <1>6 DEF NotifyFails
  <2>2. schedule[runner[a].rep].ver = runner[a].ver => Current(a) = Slot(runner[a].rep)
    BY DEF Current, Slot
  <2>3. QED
    BY <1>1, <2>1, <2>2, SameSchedule, RunEnds DEF ReportsInv
<1>7. CASE Notify(a) /\ runner[a].at < 0
  <2>1. schedule' = schedule
    BY <1>7 DEF Notify, Saved
  <2>2. QED
    BY <1>1, <1>2, <1>7, <2>1, SameSchedule, RunEnds DEF ReportsInv
<1>8. CASE Notify(a) /\ ~(runner[a].at < 0)
  <2> DEFINE p == runner[a].rep
             n == runner[a].at + Period
  <2>1. /\ schedule' = [schedule EXCEPT ![p].next = n, ![p].ver = @ + 1]
        /\ schedule[p].ver < MaxVersion
    BY <1>8 DEF Notify, Saved
  <2>2. p \in Reports /\ n \in 0..(MaxHour + Period)
    BY <1>2, <1>8
  <2> HIDE DEF n
  <2>3. schedule' \in [Reports -> Schedules] /\ Onward /\ schedule'[p].ver = schedule[p].ver + 1
    BY <2>1, <2>2, Rescheduled DEF ReportsInv
  <2>4. ~(runner[a].due /\ schedule'[runner[a].rep].ver = runner[a].ver)
    BY <1>4, <1>5, <2>3
  <2>5. QED
    BY <1>1, <2>3, <2>4, RunEnds
<1>9. QED
  BY <1>6, <1>7, <1>8

LEMMA ReportsStep ==
  ASSUME ReportsInv, [ReportsNext]_reportVars
  PROVE  ReportsInv'
<1>1. CASE UNCHANGED reportVars
  <2>1. /\ UNCHANGED <<schedule, runner, job, started, ran, twice, listed, unsaved, hour>>
        /\ hour' \in 0..MaxHour
    BY <1>1 DEF reportVars, ReportsInv, ReportsShape
  <2>2. QED
    BY <2>1, SameSchedule, PageStep DEF ReportsInv
<1>2. CASE ReportsNext
  BY <1>2, SchedulePages, RunDueStep, NextDueStep, FetchStep, UpdateStep, NotifyStep, RunFailsStep,
     OnDemandStep DEF ReportsNext
<1>3. QED
  BY <1>1, <1>2

LEMMA ReportsStart == ReportsInit => ReportsInv
<1>1. SUFFICES ASSUME ReportsInit
               PROVE  ReportsInv
  OBVIOUS
<1> USE ReportsAssumption
<1>2. /\ \A a \in Runners : runner[a] = Resting
      /\ ran = {} /\ twice = {} /\ listed = {} /\ unsaved = {}
  BY <1>1 DEF ReportsInit
<1>3. ReportsShape
  <2>1. runner \in [Runners -> RunnerStates]
    BY <1>1, RestingFields DEF ReportsInit
  <2>2. schedule \in [Reports -> Schedules]
    BY <1>1 DEF ReportsInit, Schedules
  <2>3. QED
    BY <1>1, <2>1, <2>2 DEF ReportsInit, ReportsShape, JobStates
<1>4. RunnersConsistent /\ UpdatesExclude
  BY <1>2, RestingFields DEF RunnersConsistent, UpdatesExclude, Working
<1>5. \A a \in Runners, x \in RunSlots : ~Holds(a, x)
  BY <1>2, RestingFields DEF Holds, Working
<1>6. QED
  BY <1>2, <1>3, <1>4, <1>5 DEF ReportsInv, VersionsPast, HeldTwiceListed, RerunsKnown,
     DueRunsOnce, RunAdvances

\* The inductive invariant of the scheduled reports.
THEOREM ReportsInvariance == ReportsSpec => []ReportsInv
<1>1. ReportsInv /\ [ReportsNext]_reportVars => ReportsInv'
  BY ReportsStep
<1>2. QED
  BY ReportsStart, <1>1, PTL DEF ReportsSpec

\* However many runners and reports there are, run_due_reports serves a due
\* time twice only when two runners had listed it together or the first run
\* was not recorded, and a run that was recorded moves its report on.
THEOREM DueTimesOnce == ReportsSpec => []DueTimesServedOnce
<1>1. ReportsInv => DueTimesServedOnce
  BY DEF ReportsInv, DueTimesServedOnce
<1>2. QED
  BY <1>1, ReportsInvariance, PTL

\* Every field of the schedule keeps its type and two updates of one report
\* are never uncommitted together.
THEOREM ReportsTypeCorrect == ReportsSpec => []ReportsTypeOK
<1>1. ReportsInv => ReportsTypeOK
  BY DEF ReportsInv, ReportsShape, UpdatesExclude, ReportsTypeOK, Schedules
<1>2. QED
  BY <1>1, ReportsInvariance, PTL

-----------------------------------------------------------------------------
(* Notifications *)

Notice   == [user : Staff, about : Subjects, st : {"unread", "read", "gone"}]
CheckPcs == {"asleep", "wait", "recheck", "stale", "reorder", "out", "set"}
WorkPcs  == {"stale", "reorder", "out", "set"}
Checker  == [pc : CheckPcs, todo : SUBSET Subjects, users : SUBSET Staff]

NoticesShape ==
  /\ level \in [Goods -> Levels] /\ staff \subseteq Staff
  /\ notices \in [NoticeIds -> Notice \cup {NoNotice}]
  /\ checker \in [Checkers -> Checker] /\ checkLock \in Checkers \cup {NoChecker}
  /\ checked \in BOOLEAN /\ reopened \in 0..MaxReopened

RowsInOrder == \E n \in Nat : Rows = 1..n

Busy(x) == x.pc \notin {"asleep", "wait"}

\* What this check has still to send, if it gets there.
Owed(x, s) ==
  \/ x.pc \in {"recheck", "stale"}
  \/ x.pc = "reorder" /\ (s[1] = "out" \/ x.todo = {} \/ s \in x.todo)
  \/ x.pc = "out" /\ s[1] = "out" /\ (x.todo = {} \/ s \in x.todo)

TodoSound(x) == x.pc \in {"reorder", "out"} => \A s \in x.todo : s[1] = x.pc

BusyHoldLock == \A c \in Checkers : Busy(checker[c]) => checkLock = c

PhasesSound ==
  \A c \in Checkers : TodoSound(checker[c]) /\ (checker[c].pc \in WorkPcs => ~checked)

Told(u, s) == {i \in NoticeIds : notices[i].user = u /\ notices[i].about = s}

\* The opening of the throttle is used up for this subject.
Spent(s) == checked \/ \E c \in Checkers : Busy(checker[c]) /\ ~Owed(checker[c], s)

Allowed(s) == IF Spent(s) THEN 1 + reopened ELSE reopened

NoticesInv ==
  /\ NoticesShape /\ RowsInOrder /\ BusyHoldLock /\ PhasesSound
  /\ \A u \in Staff, s \in Subjects : Cardinality(Told(u, s)) <= Allowed(s)

LEMMA ToldFinite ==
  ASSUME NEW u, NEW s
  PROVE  IsFiniteSet(Told(u, s)) /\ Cardinality(Told(u, s)) \in Nat
<1>1. IsFiniteSet(NoticeIds)
  BY NoticesAssumption, FS_Interval DEF NoticeIds
<1>2. Told(u, s) \in SUBSET NoticeIds
  BY DEF Told
<1>3. IsFiniteSet(Told(u, s))
  BY <1>1, <1>2, FS_Subset
<1>4. QED
  BY <1>3, FS_CardinalityType

LEMMA NoticesFrame ==
  ASSUME NoticesInv, NoticesShape', RowsInOrder', BusyHoldLock', PhasesSound',
         \A u \in Staff, s \in Subjects : Told(u, s)' = Told(u, s),
         \/ reopened' = reopened + 1
         \/ reopened' = reopened /\ \A s \in Subjects : Spent(s) => Spent(s)'
  PROVE  NoticesInv'
<1>1. reopened \in Nat
  BY NoticesAssumption DEF NoticesInv, NoticesShape
<1>2. \A s \in Subjects : Allowed(s) \in Nat /\ Allowed(s)' \in Nat /\ Allowed(s) <= Allowed(s)'
  BY <1>1 DEF Allowed
<1>3. ASSUME NEW u \in Staff, NEW s \in Subjects
      PROVE  Cardinality(Told(u, s)') <= Allowed(s)'
  <2>1. Cardinality(Told(u, s)) <= Allowed(s) /\ Told(u, s)' = Told(u, s)
    BY DEF NoticesInv
  <2>2. Cardinality(Told(u, s)) \in Nat
    BY ToldFinite
  <2>3. QED
    BY <1>2, <2>1, <2>2
<1>4. QED
  BY <1>3 DEF NoticesInv

\* One thread goes on, and does not open the throttle again.
Moves(c, y) ==
  /\ checker' = [checker EXCEPT ![c] = y] /\ checked' = checked
  /\ checkLock' \in Checkers \cup {NoChecker}
  /\ checkLock' = checkLock \/ checkLock \in {c, NoChecker}
  /\ Busy(y) => checkLock' = c
  /\ TodoSound(y) /\ (y.pc \in WorkPcs => ~checked)
  /\ \A s \in Subjects :
       checked \/ (Busy(checker[c]) /\ ~Owed(checker[c], s) => Busy(y) /\ ~Owed(y, s))

LEMMA CheckerMoves ==
  ASSUME NoticesInv, NEW c \in Checkers, NEW y \in Checker, Moves(c, y)
  PROVE  /\ checker' \in [Checkers -> Checker] /\ BusyHoldLock' /\ PhasesSound'
         /\ \A s \in Subjects : Spent(s) => Spent(s)'
<1>1. /\ checker' \in [Checkers -> Checker] /\ checker'[c] = y
      /\ \A d \in Checkers : d # c => checker'[d] = checker[d]
  BY DEF NoticesInv, NoticesShape, Moves
<1>2. BusyHoldLock'
  <2>1. ASSUME NEW d \in Checkers, Busy(checker'[d])
        PROVE  checkLock' = d
    <3>1. CASE d = c
      BY <1>1, <2>1, <3>1 DEF Moves
    <3>2. CASE d # c
      BY <1>1, <2>1, <3>2, NoticesAssumption DEF Moves, NoticesInv, BusyHoldLock
    <3>3. QED
      BY <3>1, <3>2
  <2>2. QED
    BY <2>1 DEF BusyHoldLock, Busy
<1>3. PhasesSound'
  <2>1. ASSUME NEW d \in Checkers
        PROVE  TodoSound(checker'[d]) /\ (checker'[d].pc \in WorkPcs => ~checked')
    BY <1>1 DEF Moves, NoticesInv, PhasesSound
  <2>2. QED
    BY <2>1 DEF PhasesSound, TodoSound
<1>4. ASSUME NEW s \in Subjects, Spent(s)
      PROVE  Spent(s)'
  <2>1. CASE checked
    BY <2>1 DEF Moves, Spent
  <2>2. CASE ~checked
    <3>1. PICK d \in Checkers : Busy(checker[d]) /\ ~Owed(checker[d], s)
      BY <1>4, <2>2 DEF Spent
    <3>2. Busy(checker'[d]) /\ ~Owed(checker'[d], s)
      BY <1>1, <2>2, <3>1 DEF Moves
    <3>3. QED
      BY <3>2 DEF Spent, Busy, Owed
  <2>3. QED
    BY <2>1, <2>2
<1>5. QED
  BY <1>1, <1>2, <1>3, <1>4

\* It sends nothing.
LEMMA SilentMove ==
  ASSUME NoticesInv, NEW c \in Checkers, NEW y \in Checker, Moves(c, y),
         UNCHANGED <<level, staff, notices, reopened>>
  PROVE  NoticesInv'
<1>1. /\ checker' \in [Checkers -> Checker] /\ BusyHoldLock' /\ PhasesSound'
      /\ \A s \in Subjects : Spent(s) => Spent(s)'
  BY CheckerMoves
<1>2. NoticesShape'
  BY <1>1 DEF NoticesInv, NoticesShape, Moves
<1>3. RowsInOrder' /\ \A u \in Staff, s \in Subjects : Told(u, s)' = Told(u, s)
  BY DEF NoticesInv, RowsInOrder, Rows, Told
<1>4. QED
  BY <1>1, <1>2, <1>3, NoticesFrame

LEMMA GotoIs ==
  ASSUME NoticesShape, NEW c \in Checkers, NEW pc \in CheckPcs, CheckGoto(c, pc)
  PROVE  \E y \in Checker : y.pc = pc /\ y.todo = {} /\ checker' = [checker EXCEPT ![c] = y]
<1> DEFINE y == [checker[c] EXCEPT !.pc = pc, !.todo = {}, !.users = {}]
<1>1. checker[c] \in Checker
  BY DEF NoticesShape
<1>2. y \in Checker
  BY <1>1 DEF Checker
<1>3. y.pc = pc /\ y.todo = {}
  BY <1>1 DEF Checker
<1>4. checker' = [checker EXCEPT ![c] = y]
  BY DEF CheckGoto, NoticesShape
<1> HIDE DEF y
<1>5. QED
  BY <1>2, <1>3, <1>4

LEMMA TodoIs ==
  ASSUME NoticesShape, NEW c \in Checkers, NEW T, T \subseteq Subjects,
         checker' = [checker EXCEPT ![c].todo = T]
  PROVE  \E y \in Checker : /\ y.pc = checker[c].pc /\ y.todo = T
                            /\ checker' = [checker EXCEPT ![c] = y]
<1> DEFINE y == [checker[c] EXCEPT !.todo = T]
<1>1. checker[c] \in Checker
  BY DEF NoticesShape
<1>2. y \in Checker
  BY <1>1 DEF Checker
<1>3. y.pc = checker[c].pc /\ y.todo = T
  BY <1>1 DEF Checker
<1>4. checker' = [checker EXCEPT ![c] = y]
  BY DEF NoticesShape
<1> HIDE DEF y
<1>5. QED
  BY <1>2, <1>3, <1>4

LEMMA StartChecksStep ==
  ASSUME NoticesInv, NEW c \in Checkers, StartChecks(c)
  PROVE  NoticesInv'
<1>1. NoticesShape /\ "wait" \in CheckPcs /\ CheckGoto(c, "wait") /\ checker[c].pc = "asleep"
  BY DEF NoticesInv, StartChecks, CheckAt, CheckPcs
<1>2. PICK y \in Checker : y.pc = "wait" /\ y.todo = {} /\ checker' = [checker EXCEPT ![c] = y]
  BY <1>1, GotoIs
<1>3. UNCHANGED <<level, staff, notices, checkLock, checked, reopened>>
  BY DEF StartChecks
<1>4. Moves(c, y)
  BY <1>1, <1>2, <1>3 DEF Moves, NoticesShape, Busy, TodoSound, WorkPcs
<1>5. QED
  BY <1>3, <1>4, SilentMove

LEMMA LockChecksStep ==
  ASSUME NoticesInv, NEW c \in Checkers, LockChecks(c)
  PROVE  NoticesInv'
<1>1. /\ NoticesShape /\ "recheck" \in CheckPcs /\ CheckGoto(c, "recheck") /\ checker[c].pc = "wait"
      /\ checkLock = NoChecker /\ checkLock' = c
  BY DEF NoticesInv, LockChecks, CheckAt, CheckPcs
<1>2. PICK y \in Checker : y.pc = "recheck" /\ y.todo = {} /\ checker' = [checker EXCEPT ![c] = y]
  BY <1>1, GotoIs
<1>3. UNCHANGED <<level, staff, notices, checked, reopened>>
  BY DEF LockChecks
<1>4. Moves(c, y)
  BY <1>1, <1>2, <1>3 DEF Moves, NoticesShape, Busy, TodoSound, WorkPcs
<1>5. QED
  BY <1>3, <1>4, SilentMove

LEMMA RecheckEntryStep ==
  ASSUME NoticesInv, NEW c \in Checkers, RecheckEntry(c)
  PROVE  NoticesInv'
<1>1. /\ NoticesShape /\ checker[c].pc = "recheck" /\ checkLock = c
      /\ UNCHANGED <<level, staff, notices, checked, reopened>>
  BY DEF NoticesInv, RecheckEntry, CheckAt, BusyHoldLock, Busy
<1>2. CASE checked
  <2>1. Asleep \in Checker /\ Asleep.pc = "asleep"
    BY DEF Asleep, Checker, CheckPcs
  <2>2. checker' = [checker EXCEPT ![c] = Asleep] /\ checkLock' = NoChecker
    BY <1>2 DEF RecheckEntry, Sleep
  <2>3. Moves(c, Asleep)
    BY <1>1, <1>2, <2>1, <2>2 DEF Moves, Busy, TodoSound, WorkPcs
  <2>4. QED
    BY <1>1, <2>1, <2>3, SilentMove
<1>3. CASE ~checked
  <2>1. CheckGoto(c, "stale") /\ checkLock' = checkLock /\ "stale" \in CheckPcs
    BY <1>3 DEF RecheckEntry, CheckPcs
  <2>2. PICK y \in Checker : y.pc = "stale" /\ y.todo = {} /\ checker' = [checker EXCEPT ![c] = y]
    BY <1>1, <2>1, GotoIs
  <2>3. Moves(c, y)
    BY <1>1, <1>3, <2>1, <2>2 DEF Moves, Busy, TodoSound, WorkPcs, Owed
  <2>4. QED
    BY <1>1, <2>3, SilentMove
<1>4. QED
  BY <1>2, <1>3

\* The two checks: from kind to the next.
Phase(kind, next) == (kind = "reorder" /\ next = "out") \/ (kind = "out" /\ next = "set")

LEMMA PhaseFacts ==
  ASSUME NoticesInv, NEW c \in Checkers, NEW kind, NEW next, Phase(kind, next), checker[c].pc = kind
  PROVE  /\ NoticesShape /\ checkLock = c /\ ~checked /\ next \in CheckPcs /\ kind \in CheckPcs
         /\ checker[c] \in Checker /\ \A s \in checker[c].todo : s[1] = kind
BY DEF NoticesInv, NoticesShape, Phase, BusyHoldLock, Busy, PhasesSound, TodoSound, WorkPcs, CheckPcs

\* A thread that goes on within its check, or to the next.
Follows(x, y, kind, next) ==
  \/ y.pc = next /\ y.todo = {}
  \/ /\ y.pc = kind /\ y.todo # {} /\ \A s \in y.todo : s[1] = kind
     /\ x.todo = {} \/ y.todo \subseteq x.todo

LEMMA GoesOnChecking ==
  ASSUME NoticesInv, NEW c \in Checkers, NEW kind, NEW next, Phase(kind, next), checker[c].pc = kind,
         NEW y \in Checker, checker' = [checker EXCEPT ![c] = y], UNCHANGED <<checkLock, checked>>,
         Follows(checker[c], y, kind, next)
  PROVE  Moves(c, y)
<1>1. /\ checkLock = c /\ ~checked /\ Busy(checker[c]) /\ Busy(y)
  BY PhaseFacts DEF Busy, Phase, Follows
<1>2. TodoSound(y)
  BY DEF TodoSound, Phase, Follows
<1>3. ASSUME NEW s \in Subjects, Owed(y, s)
      PROVE  Owed(checker[c], s)
  <2>1. CASE y.pc = next /\ y.todo = {}
    BY <1>3, <2>1 DEF Owed, Phase
  <2>2. CASE y.pc = kind /\ y.todo # {} /\ (checker[c].todo = {} \/ y.todo \subseteq checker[c].todo)
    BY <1>3, <2>2 DEF Owed, Phase
  <2>3. QED
    BY <2>1, <2>2 DEF Follows
<1>4. QED
  BY <1>1, <1>2, <1>3 DEF Moves

LEMMA ConcernedIs ==
  ASSUME NEW kind \in {"reorder", "out"}
  PROVE  Concerned(kind) \subseteq Subjects /\ \A s \in Concerned(kind) : s[1] = kind
BY DEF Concerned, Subjects

LEMMA ReadStep ==
  ASSUME NoticesInv, NEW c \in Checkers, NEW kind, NEW next, Phase(kind, next),
         ReadGoods(c, kind, next) \/ ReadStaff(c, kind, next)
  PROVE  NoticesInv'
<1>1. checker[c].pc = kind /\ UNCHANGED <<level, staff, notices, checkLock, checked, reopened>>
  BY DEF ReadGoods, ReadStaff, CheckAt
<1>2. /\ NoticesShape /\ next \in CheckPcs /\ kind \in {"reorder", "out"} /\ checker[c] \in Checker
      /\ \A s \in checker[c].todo : s[1] = kind
  BY <1>1, PhaseFacts DEF Phase
<1>3. CASE CheckGoto(c, next)
  <2>1. PICK y \in Checker : y.pc = next /\ y.todo = {} /\ checker' = [checker EXCEPT ![c] = y]
    BY <1>2, <1>3, GotoIs
  <2>2. Moves(c, y)
    BY <1>1, <2>1, GoesOnChecking DEF Follows
  <2>3. QED
    BY <1>1, <2>2, SilentMove
<1>4. CASE /\ checker[c].todo = {} /\ Concerned(kind) # {}
           /\ checker' = [checker EXCEPT ![c].todo = Concerned(kind)]
  <2>1. Concerned(kind) \subseteq Subjects /\ \A s \in Concerned(kind) : s[1] = kind
    BY <1>2, ConcernedIs
  <2>2. PICK y \in Checker : /\ y.pc = checker[c].pc /\ y.todo = Concerned(kind)
                             /\ checker' = [checker EXCEPT ![c] = y]
    BY <1>2, <1>4, <2>1, TodoIs
  <2>3. Follows(checker[c], y, kind, next)
    BY <1>1, <1>4, <2>1, <2>2 DEF Follows
  <2>4. Moves(c, y)
    BY <1>1, <2>2, <2>3, GoesOnChecking
  <2>5. QED
    BY <1>1, <2>4, SilentMove
<1>5. CASE checker[c].todo # {} /\ checker' = [checker EXCEPT ![c].users = staff]
  <2> DEFINE x == [checker[c] EXCEPT !.users = staff]
  <2>1. checker' = [checker EXCEPT ![c] = x]
    BY <1>2, <1>5 DEF NoticesShape
  <2>2. x \in Checker
    BY <1>2 DEF Checker, NoticesShape
  <2>3. x.pc = checker[c].pc /\ x.todo = checker[c].todo
    BY <1>2 DEF Checker
  <2> HIDE DEF x
  <2>4. PICK y \in Checker : y = x
    BY <2>2
  <2>5. Follows(checker[c], y, kind, next)
    BY <1>1, <1>2, <1>5, <2>3, <2>4 DEF Follows
  <2>6. Moves(c, y)
    BY <1>1, <2>1, <2>4, <2>5, GoesOnChecking
  <2>7. QED
    BY <1>1, <2>6, SilentMove
<1>6. QED
  BY <1>3, <1>4, <1>5 DEF ReadGoods, ReadStaff

\* Rows are marked: their users and subjects stay.
LEMMA MarkedRows ==
  ASSUME NoticesShape, RowsInOrder, NEW ids, NEW st \in {"unread", "read", "gone"}, ids \subseteq Rows,
         notices' = [i \in NoticeIds |-> IF i \in ids THEN [notices[i] EXCEPT !.st = st] ELSE notices[i]]
  PROVE  /\ notices' \in [NoticeIds -> Notice \cup {NoNotice}] /\ RowsInOrder'
         /\ \A u \in Staff, s \in Subjects : Told(u, s)' = Told(u, s)
<1>1. \A i \in NoticeIds : i \notin ids => notices'[i] = notices[i]
  OBVIOUS
<1>2. \A i \in NoticeIds : i \in ids => notices[i] \in Notice /\ notices'[i] = [notices[i] EXCEPT !.st = st]
  BY DEF NoticesShape, Rows
<1>3. ASSUME NEW x \in Notice
      PROVE  [x EXCEPT !.st = st] \in Notice
  BY DEF Notice
<1>4. ASSUME NEW x \in Notice
      PROVE  [x EXCEPT !.st = st].user = x.user /\ [x EXCEPT !.st = st].about = x.about
  BY DEF Notice
<1>5. \A i \in NoticeIds : i \in ids => notices'[i] \in Notice
  BY <1>2, <1>3
<1>6. \A i \in NoticeIds : notices'[i].user = notices[i].user /\ notices'[i].about = notices[i].about
  BY <1>1, <1>2, <1>4
<1>7. notices' \in [NoticeIds -> Notice \cup {NoNotice}]
  <2>1. \A i \in NoticeIds : notices'[i] \in Notice \cup {NoNotice}
    BY <1>1, <1>5 DEF NoticesShape
  <2>2. QED
    BY <2>1
<1>8. NoNotice \notin Notice
  BY DEF NoNotice, Notice
<1>9. Rows' = Rows
  BY <1>1, <1>2, <1>5, <1>8 DEF Rows
<1>10. QED
  BY <1>6, <1>7, <1>9 DEF RowsInOrder, Told

LEMMA RowCount ==
  ASSUME NEW n \in Nat, Rows = 1..n
  PROVE  Cardinality(Rows) = n
BY FS_Interval

LEMMA ClearStaleStep ==
  ASSUME NoticesInv, NEW c \in Checkers, clear_stale_notifications(c)
  PROVE  NoticesInv'
<1>1. /\ NoticesShape /\ RowsInOrder /\ checker[c].pc = "stale" /\ checkLock = c /\ ~checked
      /\ UNCHANGED <<level, staff, checkLock, checked, reopened>> /\ CheckGoto(c, "reorder")
      /\ "reorder" \in CheckPcs
  BY DEF NoticesInv, clear_stale_notifications, CheckAt, BusyHoldLock, Busy, PhasesSound, WorkPcs, CheckPcs
<1>2. PICK y \in Checker : y.pc = "reorder" /\ y.todo = {} /\ checker' = [checker EXCEPT ![c] = y]
  BY <1>1, GotoIs
<1>3. Moves(c, y)
  BY <1>1, <1>2 DEF Moves, Busy, TodoSound, WorkPcs, Owed
<1>4. /\ checker' \in [Checkers -> Checker] /\ BusyHoldLock' /\ PhasesSound'
      /\ \A s \in Subjects : Spent(s) => Spent(s)'
  BY <1>3, CheckerMoves
<1>5. PICK k \in 0..Cardinality(Rows) :
        notices' = [i \in NoticeIds |-> IF i <= k THEN [notices[i] EXCEPT !.st = "gone"] ELSE notices[i]]
  BY DEF clear_stale_notifications
<1>6. PICK n \in Nat : Rows = 1..n
  BY <1>1 DEF RowsInOrder
<1>7. k \in 0..n
  BY <1>5, <1>6, RowCount
<1> DEFINE ids == {i \in NoticeIds : i <= k}
<1>8. ids \subseteq Rows
  BY <1>6, <1>7 DEF NoticeIds
<1>9. notices' = [i \in NoticeIds |-> IF i \in ids THEN [notices[i] EXCEPT !.st = "gone"] ELSE notices[i]]
  BY <1>5
<1> HIDE DEF ids
<1>10. /\ notices' \in [NoticeIds -> Notice \cup {NoNotice}] /\ RowsInOrder'
       /\ \A u \in Staff, s \in Subjects : Told(u, s)' = Told(u, s)
  BY <1>1, <1>8, <1>9, MarkedRows
<1>11. NoticesShape'
  BY <1>1, <1>4, <1>10 DEF NoticesShape
<1>12. QED
  BY <1>1, <1>4, <1>10, <1>11, NoticesFrame

LEMMA MarkFrame ==
  ASSUME NoticesInv, NEW u \in Staff, NEW ids, ids \subseteq Mine(u, {"unread", "read"}),
         NEW st \in {"read", "gone"}, Mark(ids, st)
  PROVE  NoticesInv'
<1>1. ids \subseteq Rows
  BY DEF Mine, Rows, NoNotice
<1>2. /\ notices' = [i \in NoticeIds |-> IF i \in ids THEN [notices[i] EXCEPT !.st = st] ELSE notices[i]]
      /\ UNCHANGED <<level, staff, checker, checkLock, checked, reopened>>
  BY DEF Mark
<1>3. NoticesShape /\ RowsInOrder /\ st \in {"unread", "read", "gone"}
  BY DEF NoticesInv
<1>4. /\ notices' \in [NoticeIds -> Notice \cup {NoNotice}] /\ RowsInOrder'
      /\ \A v \in Staff, s \in Subjects : Told(v, s)' = Told(v, s)
  BY <1>1, <1>2, <1>3, MarkedRows
<1>5. NoticesShape'
  BY <1>2, <1>3, <1>4 DEF NoticesShape
<1>6. BusyHoldLock' /\ PhasesSound' /\ \A s \in Subjects : Spent(s) => Spent(s)'
  BY <1>2 DEF NoticesInv, BusyHoldLock, Busy, PhasesSound, TodoSound, Spent, Owed
<1>7. QED
  BY <1>2, <1>4, <1>5, <1>6, NoticesFrame

LEMMA MarkStep ==
  ASSUME NoticesInv, NEW u \in Staff, mark_read(u) \/ mark_all_read(u) \/ delete_notification(u)
  PROVE  NoticesInv'
<1>1. Mine(u, {"unread"}) \subseteq Mine(u, {"unread", "read"})
  BY DEF Mine
<1>2. \A i \in Mine(u, {"unread", "read"}) : {i} \subseteq Mine(u, {"unread", "read"})
  OBVIOUS
<1>3. CASE mark_read(u)
  BY <1>1, <1>2, <1>3, MarkFrame DEF mark_read
<1>4. CASE mark_all_read(u)
  BY <1>1, <1>4, MarkFrame DEF mark_all_read
<1>5. CASE delete_notification(u)
  BY <1>2, <1>5, MarkFrame DEF delete_notification
<1>6. QED
  BY <1>3, <1>4, <1>5

\* _bulk_create gives each of the users one row about the subject.
LEMMA BulkRows ==
  ASSUME NoticesShape, RowsInOrder, NEW users, users \subseteq Staff, NEW t \in Subjects,
         _bulk_create(users, t)
  PROVE  /\ notices' \in [NoticeIds -> Notice \cup {NoNotice}] /\ RowsInOrder'
         /\ \A u \in Staff, s \in Subjects : s # t => Told(u, s)' = Told(u, s)
         /\ \A u \in Staff : \E x : Told(u, t)' \subseteq Told(u, t) \cup {x}
<1> USE NoticesAssumption
<1>1. PICK n \in Nat : Rows = 1..n
  BY DEF RowsInOrder
<1>2. PICK k \in Nat : k = Cardinality(users) /\ IsFiniteSet(users)
  BY FS_Subset, FS_CardinalityType
<1>3. PICK f \in [1..k -> users] :
        /\ \A u \in users : \E i \in DOMAIN f : f[i] = u
        /\ n + k <= MaxNotices
        /\ notices' = [i \in NoticeIds |->
             IF i - n \in DOMAIN f THEN [user |-> f[i - n], about |-> t, st |-> "unread"] ELSE notices[i]]
  BY <1>1, <1>2, RowCount DEF _bulk_create
<1>4. \A i, j \in 1..k : f[i] = f[j] => i = j
  <2>1. f \in Surjection(1..k, users)
    BY <1>3 DEF Surjection
  <2>2. IsFiniteSet(1..k) /\ Cardinality(1..k) = Cardinality(users)
    BY <1>2, FS_Interval
  <2>3. f \in Injection(1..k, users)
    BY <2>1, <2>2, FS_Surjection
  <2>4. QED
    BY <2>3 DEF Injection, IsInjective
<1>5. NoNotice \notin Notice
  BY DEF NoNotice, Notice
<1> DEFINE row(i) == [user |-> f[i - n], about |-> t, st |-> "unread"]
<1>6. \A i \in NoticeIds : i \in Nat /\ (i - n \in 1..k <=> i \in (n + 1)..(n + k))
  BY DEF NoticeIds
<1>7. \A i \in NoticeIds : notices'[i] = IF i \in (n + 1)..(n + k) THEN row(i) ELSE notices[i]
  BY <1>3, <1>6
<1>8. \A i \in NoticeIds : i \in (n + 1)..(n + k) =>
        row(i) \in Notice /\ row(i).user = f[i - n] /\ row(i).about = t
  BY <1>3, <1>6 DEF Notice
<1>9. \A i \in NoticeIds : i \in (n + 1)..(n + k) =>
        notices'[i] \in Notice /\ notices'[i].user = f[i - n] /\ notices'[i].about = t
  BY <1>7, <1>8
<1>10. \A i \in NoticeIds : i \notin (n + 1)..(n + k) => notices'[i] = notices[i]
  BY <1>7
<1> HIDE DEF row
<1>11. \A i \in NoticeIds : i \notin 1..n => notices[i] = NoNotice
  BY <1>1 DEF Rows
<1>12. notices' \in [NoticeIds -> Notice \cup {NoNotice}]
  <2>1. \A i \in NoticeIds : notices'[i] \in Notice \cup {NoNotice}
    BY <1>9, <1>10 DEF NoticesShape
  <2>2. QED
    BY <1>3, <2>1
<1>13. RowsInOrder'
  <2>1. \A i \in NoticeIds : notices'[i] # NoNotice <=> i \in 1..(n + k)
    <3>1. ASSUME NEW i \in NoticeIds
          PROVE  notices'[i] # NoNotice <=> i \in 1..(n + k)
      <4>1. CASE i \in (n + 1)..(n + k)
        BY <1>5, <1>6, <1>9, <4>1
      <4>2. CASE i \notin (n + 1)..(n + k)
        <5>1. i \in 1..(n + k) <=> i \in 1..n
          BY <1>6, <4>2
        <5>2. notices[i] # NoNotice <=> i \in 1..n
          BY <1>1 DEF Rows
        <5>3. QED
          BY <1>10, <4>2, <5>1, <5>2
      <4>3. QED
        BY <4>1, <4>2
    <3>2. QED
      BY <3>1
  <2>2. 1..(n + k) \subseteq NoticeIds /\ n + k \in Nat
    BY <1>3 DEF NoticeIds
  <2>3. Rows' = 1..(n + k)
    BY <2>1, <2>2 DEF Rows
  <2>4. QED
    BY <2>2, <2>3 DEF RowsInOrder
<1>14. \A s \in Subjects : NoNotice.about # s
  BY DEF NoNotice, Subjects
<1>15. ASSUME NEW u \in Staff, NEW s \in Subjects
       PROVE  /\ \A i \in NoticeIds : i \in Told(u, s) => i \notin (n + 1)..(n + k)
              /\ \A i \in NoticeIds : i \notin (n + 1)..(n + k) => (i \in Told(u, s)' <=> i \in Told(u, s))
  <2>1. \A i \in NoticeIds : i \in Told(u, s) => i \in 1..n
    BY <1>11, <1>14 DEF Told
  <2>2. QED
    BY <1>6, <1>10, <2>1 DEF Told
<1>16. ASSUME NEW u \in Staff, NEW s \in Subjects, s # t
       PROVE  Told(u, s)' = Told(u, s)
  <2>1. \A i \in NoticeIds : i \in (n + 1)..(n + k) => i \notin Told(u, s)'
    BY <1>9, <1>16 DEF Told
  <2>2. Told(u, s) \subseteq NoticeIds /\ Told(u, s)' \subseteq NoticeIds
    BY DEF Told
  <2>3. QED
    BY <1>15, <2>1, <2>2
<1>17. ASSUME NEW u \in Staff
       PROVE  \E x : Told(u, t)' \subseteq Told(u, t) \cup {x}
  <2>1. \A i, j \in NoticeIds :
          (i \in (n + 1)..(n + k) /\ j \in (n + 1)..(n + k) /\ i \in Told(u, t)' /\ j \in Told(u, t)')
            => i = j
    <3>1. ASSUME NEW i \in NoticeIds, NEW j \in NoticeIds, i \in (n + 1)..(n + k),
                 j \in (n + 1)..(n + k), i \in Told(u, t)', j \in Told(u, t)'
          PROVE  i = j
      <4>1. f[i - n] = u /\ f[j - n] = u
        BY <1>9, <3>1 DEF Told
      <4>2. i - n \in 1..k /\ j - n \in 1..k
        BY <1>6, <3>1
      <4>3. i - n = j - n
        BY <1>4, <4>1, <4>2
      <4>4. QED
        BY <1>6, <4>3
    <3>2. QED
      BY <3>1
  <2>2. Told(u, t)' \subseteq NoticeIds
    BY DEF Told
  <2>3. CASE \E i \in NoticeIds : i \in (n + 1)..(n + k) /\ i \in Told(u, t)'
    <3>1. PICK x \in NoticeIds : x \in (n + 1)..(n + k) /\ x \in Told(u, t)'
      BY <2>3
    <3>2. Told(u, t)' \subseteq Told(u, t) \cup {x}
      <4>1. ASSUME NEW i \in Told(u, t)'
            PROVE  i \in Told(u, t) \cup {x}
        <5>1. i \in NoticeIds
          BY <2>2
        <5>2. CASE i \in (n + 1)..(n + k)
          BY <2>1, <3>1, <5>1, <5>2
        <5>3. CASE i \notin (n + 1)..(n + k)
          BY <1>15, <5>1, <5>3
        <5>4. QED
          BY <5>2, <5>3
      <4>2. QED
        BY <4>1
    <3>3. QED
      BY <3>2
  <2>4. CASE ~\E i \in NoticeIds : i \in (n + 1)..(n + k) /\ i \in Told(u, t)'
    BY <1>15, <2>2, <2>4
  <2>5. QED
    BY <2>3, <2>4
<1>18. QED
  BY <1>12, <1>13, <1>16, <1>17

LEMMA SendNoticesStep ==
  ASSUME NoticesInv, NEW c \in Checkers, NEW kind, NEW next, Phase(kind, next), SendNotices(c, kind, next)
  PROVE  NoticesInv'
<1>1. PICK t \in checker[c].todo :
        /\ checker[c].pc = kind /\ _bulk_create(checker[c].users, t)
        /\ IF checker[c].todo = {t} THEN CheckGoto(c, next)
           ELSE checker' = [checker EXCEPT ![c].todo = @ \ {t}]
        /\ UNCHANGED <<level, staff, checkLock, checked, reopened>>
  BY DEF SendNotices, CheckAt
<1>2. /\ NoticesShape /\ RowsInOrder /\ checkLock = c /\ ~checked /\ next \in CheckPcs
      /\ checker[c] \in Checker /\ \A s \in checker[c].todo : s[1] = kind
  BY <1>1, PhaseFacts DEF NoticesInv
<1>3. checker[c].users \subseteq Staff /\ checker[c].todo \subseteq Subjects /\ t \in Subjects
  BY <1>2 DEF Checker
<1>4. PICK y \in Checker : /\ checker' = [checker EXCEPT ![c] = y]
                           /\ Follows(checker[c], y, kind, next) /\ ~Owed(y, t)
  <2>1. CASE checker[c].todo = {t}
    <3>1. PICK y \in Checker : y.pc = next /\ y.todo = {} /\ checker' = [checker EXCEPT ![c] = y]
      BY <1>1, <1>2, <2>1, GotoIs
    <3>2. Follows(checker[c], y, kind, next) /\ ~Owed(y, t)
      BY <1>2, <3>1 DEF Follows, Owed, Phase
    <3>3. QED
      BY <3>1, <3>2
  <2>2. CASE checker[c].todo # {t}
    <3>1. checker' = [checker EXCEPT ![c].todo = checker[c].todo \ {t}]
      BY <1>1, <2>2
    <3>2. checker[c].todo \ {t} \subseteq Subjects
      BY <1>3
    <3>3. PICK y \in Checker : /\ y.pc = checker[c].pc /\ y.todo = checker[c].todo \ {t}
                               /\ checker' = [checker EXCEPT ![c] = y]
      BY <1>2, <3>1, <3>2, TodoIs
    <3>4. y.todo # {} /\ t \notin y.todo /\ y.todo \subseteq checker[c].todo
      BY <2>2, <3>3
    <3>5. Follows(checker[c], y, kind, next) /\ ~Owed(y, t)
      BY <1>1, <1>2, <3>3, <3>4 DEF Follows, Owed, Phase
    <3>6. QED
      BY <3>3, <3>5
  <2>3. QED
    BY <2>1, <2>2
<1>5. Moves(c, y)
  BY <1>1, <1>4, GoesOnChecking
<1>6. /\ checker' \in [Checkers -> Checker] /\ BusyHoldLock' /\ PhasesSound'
      /\ \A s \in Subjects : Spent(s) => Spent(s)'
  BY <1>5, CheckerMoves
<1>7. /\ notices' \in [NoticeIds -> Notice \cup {NoNotice}] /\ RowsInOrder'
      /\ \A u \in Staff, s \in Subjects : s # t => Told(u, s)' = Told(u, s)
      /\ \A u \in Staff : \E x : Told(u, t)' \subseteq Told(u, t) \cup {x}
  BY <1>1, <1>2, <1>3, BulkRows
<1>8. NoticesShape'
  BY <1>1, <1>2, <1>6, <1>7 DEF NoticesShape
<1>9. reopened \in Nat /\ reopened' = reopened
  BY <1>1, <1>2, NoticesAssumption DEF NoticesShape
<1>10. ~Spent(t)
  <2>1. Owed(checker[c], t)
    BY <1>1, <1>2 DEF Owed, Phase
  <2>2. \A d \in Checkers : Busy(checker[d]) => d = c
    BY <1>2 DEF NoticesInv, BusyHoldLock
  <2>3. QED
    BY <1>2, <2>1, <2>2 DEF Spent
<1>11. Spent(t)'
  <2>1. checker'[c] = y /\ Busy(y)
    BY <1>1, <1>2, <1>4 DEF NoticesShape, Follows, Phase, Busy
  <2>2. Busy(checker'[c]) /\ ~Owed(checker'[c], t)
    BY <1>4, <2>1
  <2>3. QED
    BY <2>2 DEF Spent, Busy, Owed
<1>12. ASSUME NEW u \in Staff, NEW s \in Subjects
       PROVE  Cardinality(Told(u, s)') <= Allowed(s)'
  <2>1. Cardinality(Told(u, s)) <= Allowed(s) /\ Cardinality(Told(u, s)) \in Nat
    BY ToldFinite DEF NoticesInv
  <2>2. CASE s # t
    <3>1. Told(u, s)' = Told(u, s)
      BY <1>7, <2>2
    <3>2. Allowed(s) \in Nat /\ Allowed(s)' \in Nat /\ Allowed(s) <= Allowed(s)'
      BY <1>6, <1>9 DEF Allowed
    <3>3. QED
      BY <2>1, <3>1, <3>2
  <2>3. CASE s = t
    <3>1. PICK x : Told(u, t)' \subseteq Told(u, t) \cup {x}
      BY <1>7
    <3>2. /\ IsFiniteSet(Told(u, t)) /\ IsFiniteSet(Told(u, t) \cup {x})
          /\ Cardinality(Told(u, t) \cup {x}) <= Cardinality(Told(u, t)) + 1
          /\ Cardinality(Told(u, t) \cup {x}) \in Nat
      <4>1. IsFiniteSet(Told(u, t)) /\ Cardinality(Told(u, t)) \in Nat
        BY ToldFinite
      <4>2. /\ IsFiniteSet(Told(u, t) \cup {x})
            /\ Cardinality(Told(u, t) \cup {x}) =
                 IF x \in Told(u, t) THEN Cardinality(Told(u, t)) ELSE Cardinality(Told(u, t)) + 1
        BY <4>1, FS_AddElement
      <4>3. QED
        BY <4>1, <4>2
    <3>3. IsFiniteSet(Told(u, t)') /\ Cardinality(Told(u, t)') <= Cardinality(Told(u, t) \cup {x})
      BY <3>1, <3>2, FS_Subset
    <3>4. Cardinality(Told(u, t)') \in Nat
      BY <3>3, FS_CardinalityType
    <3>5. Allowed(t) = reopened /\ Allowed(t)' = 1 + reopened
      BY <1>9, <1>10, <1>11 DEF Allowed
    <3>6. QED
      BY <1>9, <2>1, <2>3, <3>2, <3>3, <3>4, <3>5
  <2>4. QED
    BY <2>2, <2>3
<1>13. QED
  BY <1>6, <1>7, <1>8, <1>12 DEF NoticesInv

\* A check ends, well or not, and with it the turn of its thread.
LEMMA CheckEndsStep ==
  ASSUME NoticesInv, NEW c \in Checkers, StoreChecked(c) \/ ChecksFail(c)
  PROVE  NoticesInv'
<1>1. /\ NoticesShape /\ checkLock = c /\ checker' = [checker EXCEPT ![c] = Asleep]
      /\ checkLock' = NoChecker /\ UNCHANGED <<level, staff, notices>>
  BY DEF NoticesInv, StoreChecked, ChecksFail, CheckAt, Sleep, BusyHoldLock, Busy
<1>2. Asleep \in Checker /\ Asleep.pc = "asleep"
  BY DEF Asleep, Checker, CheckPcs
<1>3. /\ checker' \in [Checkers -> Checker] /\ checker'[c] = Asleep
      /\ \A d \in Checkers : d # c => checker'[d] = checker[d]
  BY <1>1, <1>2 DEF NoticesShape
<1>4. \A d \in Checkers : ~Busy(checker'[d]) /\ TodoSound(checker'[d]) /\ checker'[d].pc \notin WorkPcs
  <2>1. ASSUME NEW d \in Checkers
        PROVE  ~Busy(checker'[d])
    BY <1>1, <1>2, <1>3 DEF NoticesInv, BusyHoldLock, Busy
  <2>2. QED
    BY <2>1 DEF Busy, TodoSound, WorkPcs
<1>5. BusyHoldLock' /\ PhasesSound'
  BY <1>4 DEF BusyHoldLock, PhasesSound, Busy, TodoSound
<1>6. /\ checked' \in BOOLEAN /\ reopened' \in 0..MaxReopened
      /\ reopened' = reopened + 1 \/ (reopened' = reopened /\ checked')
  <2>1. reopened \in 0..MaxReopened /\ checked \in BOOLEAN
    BY <1>1 DEF NoticesShape
  <2>2. CASE StoreChecked(c)
    BY <2>1, <2>2 DEF StoreChecked
  <2>3. CASE ChecksFail(c)
    BY <2>1, <2>3, NoticesAssumption DEF ChecksFail
  <2>4. QED
    BY <2>2, <2>3
<1>7. NoticesShape'
  BY <1>1, <1>3, <1>6 DEF NoticesShape
<1>8. RowsInOrder' /\ \A u \in Staff, s \in Subjects : Told(u, s)' = Told(u, s)
  BY <1>1 DEF NoticesInv, RowsInOrder, Rows, Told
<1>9. checked' => \A s \in Subjects : Spent(s)'
  BY DEF Spent
<1>10. QED
  BY <1>5, <1>6, <1>7, <1>8, <1>9, NoticesFrame

\* The rest of the world, and time.
LEMMA WorldStep ==
  ASSUME NoticesInv, UNCHANGED <<notices, checker, checkLock>>,
         level' \in [Goods -> Levels], staff' \subseteq Staff, reopened' \in 0..MaxReopened,
         UNCHANGED <<checked, reopened>> \/ (checked' = FALSE /\ reopened' = reopened + 1)
  PROVE  NoticesInv'
<1>1. NoticesShape'
  BY DEF NoticesInv, NoticesShape
<1>2. RowsInOrder' /\ \A u \in Staff, s \in Subjects : Told(u, s)' = Told(u, s)
  BY DEF NoticesInv, RowsInOrder, Rows, Told
<1>3. BusyHoldLock'
  BY DEF NoticesInv, BusyHoldLock, Busy
<1>4. PhasesSound'
  BY DEF NoticesInv, PhasesSound, TodoSound
<1>5. checked' = checked => \A s \in Subjects : Spent(s) => Spent(s)'
  BY DEF Spent, Busy, Owed
<1>6. QED
  BY <1>1, <1>2, <1>3, <1>4, <1>5, NoticesFrame

LEMMA NoticesStart == NoticesInit => NoticesInv
<1> SUFFICES ASSUME NoticesInit
             PROVE  NoticesInv
  OBVIOUS
<1> USE NoticesAssumption DEF NoticesInit
<1>1. Asleep \in Checker /\ Asleep.pc = "asleep"
  BY DEF Asleep, Checker, CheckPcs
<1>2. NoticesShape
  <2>1. notices \in [NoticeIds -> Notice \cup {NoNotice}] /\ checker \in [Checkers -> Checker]
    BY <1>1
  <2>2. level \in [Goods -> Levels] /\ reopened \in 0..MaxReopened
    BY DEF Levels
  <2>3. QED
    BY <2>1, <2>2 DEF NoticesShape
<1>3. RowsInOrder
  <2>1. Rows = 1..0 /\ 0 \in Nat
    BY DEF Rows
  <2>2. QED
    BY <2>1 DEF RowsInOrder
<1>4. \A c \in Checkers : checker[c].pc = "asleep"
  BY <1>1
<1>5. BusyHoldLock /\ PhasesSound
  BY <1>4 DEF BusyHoldLock, PhasesSound, Busy, TodoSound, WorkPcs
<1>6. ASSUME NEW u \in Staff, NEW s \in Subjects
      PROVE  Cardinality(Told(u, s)) <= Allowed(s)
  <2>1. NoNotice.about # s
    BY DEF NoNotice, Subjects
  <2>2. Told(u, s) = {}
    BY <2>1 DEF Told
  <2>3. Cardinality(Told(u, s)) = 0
    BY <2>2, FS_EmptySet
  <2>4. QED
    BY <2>3 DEF Allowed
<1>7. QED
  BY <1>2, <1>3, <1>5, <1>6 DEF NoticesInv

\* Rows are given in order, one thread checks at a time, and what it has still
\* to send is covered by an opening of the throttle.
THEOREM NoticesInvariance == NoticesSpec => []NoticesInv
<1>1. NoticesInv /\ [NoticesNext]_noticeVars => NoticesInv'
  <2> SUFFICES ASSUME NoticesInv, [NoticesNext]_noticeVars
               PROVE  NoticesInv'
    OBVIOUS
  <2>1. CASE UNCHANGED noticeVars
    BY <2>1, WorldStep DEF noticeVars, NoticesInv, NoticesShape
  <2>2. ASSUME NEW c \in Checkers, NEW kind, NEW next, Phase(kind, next), Check(c, kind, next)
        PROVE  NoticesInv'
    BY <2>2, ReadStep, SendNoticesStep DEF Check
  <2>3. Phase("reorder", "out") /\ Phase("out", "set")
    BY DEF Phase
  <2>4. ASSUME NEW c \in Checkers, Check(c, "reorder", "out") \/ Check(c, "out", "set")
        PROVE  NoticesInv'
    BY <2>2, <2>3, <2>4
  <2>5. ASSUME NEW p \in Goods, NEW l \in Levels, StockChanges(p, l)
        PROVE  NoticesInv'
    BY <2>5, WorldStep DEF StockChanges, NoticesInv, NoticesShape
  <2>6. ASSUME NEW u \in Staff, StaffChanges(u)
        PROVE  NoticesInv'
    BY <2>6, WorldStep DEF StaffChanges, NoticesInv, NoticesShape
  <2>7. CASE Reopen
    <3>1. /\ UNCHANGED <<level, staff, notices, checker, checkLock>> /\ checked' = FALSE
          /\ reopened' = reopened + 1 /\ reopened < MaxReopened
      BY <2>7 DEF Reopen
    <3>2. level \in [Goods -> Levels] /\ staff \subseteq Staff /\ reopened \in 0..MaxReopened
      BY DEF NoticesInv, NoticesShape
    <3>3. reopened' \in 0..MaxReopened
      BY <3>1, <3>2, NoticesAssumption
    <3>4. QED
      BY <3>1, <3>2, <3>3, WorldStep
  <2>8. QED
    BY <2>1, <2>4, <2>5, <2>6, <2>7, StartChecksStep, LockChecksStep, RecheckEntryStep, ClearStaleStep,
       CheckEndsStep, MarkStep DEF NoticesNext
<1>2. QED
  BY <1>1, NoticesStart, PTL DEF NoticesSpec

\* Nobody is told of a product more often than the throttle was opened,
\* although dashboards opened together all try to run the checks and the key
\* that throttles them is dropped by every write.
THEOREM ThrottledNotices == NoticesSpec => []NoticesThrottled
<1>1. NoticesInv => NoticesThrottled
  <2> SUFFICES ASSUME NoticesInv, NEW u \in Staff, NEW s \in Subjects
               PROVE  Cardinality(Told(u, s)) <= 1 + reopened
    BY DEF NoticesThrottled, Told
  <2>1. Cardinality(Told(u, s)) <= Allowed(s) /\ Cardinality(Told(u, s)) \in Nat /\ reopened \in Nat
    BY ToldFinite, NoticesAssumption DEF NoticesInv, NoticesShape
  <2>2. QED
    BY <2>1 DEF Allowed
<1>2. QED
  BY <1>1, NoticesInvariance, PTL

\* Only a thread that checks holds the lock.
HoldersBusy == \A c \in Checkers : checkLock = c => Busy(checker[c])

\* One thread moves; who keeps or takes the lock goes on checking.
LEMMA HolderMoves ==
  ASSUME NoticesShape, HoldersBusy, NEW c \in Checkers, NEW y,
         checker' = [checker EXCEPT ![c] = y],
         \/ checkLock' = NoChecker
         \/ checkLock' = c /\ Busy(y)
         \/ checkLock' = checkLock /\ (Busy(checker[c]) => Busy(y))
  PROVE  HoldersBusy'
<1>1. checker'[c] = y /\ \A d \in Checkers : d # c => checker'[d] = checker[d]
  BY DEF NoticesShape
<1>2. ASSUME NEW d \in Checkers, checkLock' = d
      PROVE  Busy(checker'[d])
  <2>1. CASE d = c
    BY <1>1, <1>2, <2>1, NoticesAssumption DEF HoldersBusy
  <2>2. CASE d # c
    BY <1>1, <1>2, <2>2, NoticesAssumption DEF HoldersBusy
  <2>3. QED
    BY <2>1, <2>2
<1>3. QED
  BY <1>2 DEF HoldersBusy, Busy

LEMMA CheckerStep ==
  ASSUME NoticesShape, NEW c \in Checkers, NEW pc \in CheckPcs
  PROVE  /\ CheckGoto(c, pc) => \E y : y.pc = pc /\ checker' = [checker EXCEPT ![c] = y]
         /\ \A s : checker' = [checker EXCEPT ![c].todo = s] =>
              \E y : y.pc = checker[c].pc /\ checker' = [checker EXCEPT ![c] = y]
         /\ \A s : checker' = [checker EXCEPT ![c].users = s] =>
              \E y : y.pc = checker[c].pc /\ checker' = [checker EXCEPT ![c] = y]
<1>1. checker[c] \in Checker
  BY DEF NoticesShape
<1>2. [checker[c] EXCEPT !.pc = pc, !.todo = {}, !.users = {}].pc = pc
  BY <1>1 DEF Checker
<1>3. ASSUME CheckGoto(c, pc)
      PROVE  \E y : y.pc = pc /\ checker' = [checker EXCEPT ![c] = y]
  BY <1>2, <1>3 DEF CheckGoto
<1>4. ASSUME NEW s
      PROVE  [checker[c] EXCEPT !.todo = s].pc = checker[c].pc /\ [checker[c] EXCEPT !.users = s].pc = checker[c].pc
  BY <1>1 DEF Checker
<1>5. QED
  BY <1>3, <1>4

LEMMA HoldersStep ==
  ASSUME NoticesInv, HoldersBusy, [NoticesNext]_noticeVars
  PROVE  HoldersBusy'
<1>0. NoticesShape
  BY DEF NoticesInv
<1>1. ASSUME UNCHANGED <<checker, checkLock>>
      PROVE  HoldersBusy'
  BY <1>1 DEF HoldersBusy, Busy
<1>2. ASSUME NEW c \in Checkers, NEW pc \in {"recheck", "stale", "reorder", "out", "set"}, CheckGoto(c, pc),
             checkLock' = checkLock \/ checkLock' = c
      PROVE  HoldersBusy'
  <2>1. pc \in CheckPcs /\ pc \notin {"asleep", "wait"}
    BY DEF CheckPcs
  <2>2. PICK y : y.pc = pc /\ checker' = [checker EXCEPT ![c] = y]
    BY <1>0, <1>2, <2>1, CheckerStep
  <2>3. Busy(y)
    BY <2>1, <2>2 DEF Busy
  <2>4. QED
    BY <1>0, <1>2, <2>2, <2>3, HolderMoves
<1>3. ASSUME NEW c \in Checkers, StartChecks(c)
      PROVE  HoldersBusy'
  <2>1. checker[c].pc = "asleep" /\ CheckGoto(c, "wait") /\ checkLock' = checkLock
    BY <1>3 DEF StartChecks, CheckAt
  <2>2. PICK y : checker' = [checker EXCEPT ![c] = y]
    <3>1. "wait" \in CheckPcs
      BY DEF CheckPcs
    <3>2. QED
      BY <1>0, <2>1, <3>1, GotoIs
  <2>3. ~Busy(checker[c])
    BY <2>1 DEF Busy
  <2>4. QED
    BY <1>0, <2>1, <2>2, <2>3, HolderMoves
<1>4. ASSUME NEW c \in Checkers, Sleep(c)
      PROVE  HoldersBusy'
  BY <1>0, <1>4, HolderMoves DEF Sleep
<1>5. ASSUME NEW c \in Checkers, NEW kind, NEW next, Phase(kind, next), Check(c, kind, next)
      PROVE  HoldersBusy'
  <2>1. /\ kind \in {"reorder", "out"} /\ next \in {"out", "set"}
        /\ checker[c].pc = kind /\ checkLock' = checkLock
    BY <1>5 DEF Phase, Check, ReadGoods, ReadStaff, SendNotices, CheckAt
  <2>2. \/ CheckGoto(c, next)
        \/ \E s : checker' = [checker EXCEPT ![c].todo = s]
        \/ \E s : checker' = [checker EXCEPT ![c].users = s]
    BY <1>5 DEF Check, ReadGoods, ReadStaff, SendNotices
  <2>3. CASE CheckGoto(c, next)
    BY <1>2, <2>1, <2>3
  <2>4. CASE ~CheckGoto(c, next)
    <3>1. "out" \in CheckPcs
      BY DEF CheckPcs
    <3>2. PICK y : y.pc = checker[c].pc /\ checker' = [checker EXCEPT ![c] = y]
      BY <1>0, <2>2, <2>4, <3>1, CheckerStep
    <3>3. Busy(y)
      BY <2>1, <3>2 DEF Busy
    <3>4. QED
      BY <1>0, <2>1, <3>2, <3>3, HolderMoves
  <2>5. QED
    BY <2>3, <2>4
<1>6. Phase("reorder", "out") /\ Phase("out", "set")
  BY DEF Phase
<1>7. ASSUME NEW c \in Checkers, LockChecks(c) \/ RecheckEntry(c) \/ clear_stale_notifications(c)
      PROVE  HoldersBusy'
  <2>1. \/ CheckGoto(c, "recheck") /\ checkLock' = c
        \/ Sleep(c)
        \/ CheckGoto(c, "stale") /\ checkLock' = checkLock
        \/ CheckGoto(c, "reorder") /\ checkLock' = checkLock
    BY <1>7 DEF LockChecks, RecheckEntry, clear_stale_notifications
  <2>2. QED
    BY <1>2, <1>4, <2>1
<1>8. ASSUME NEW c \in Checkers, StoreChecked(c) \/ ChecksFail(c)
      PROVE  HoldersBusy'
  BY <1>4, <1>8 DEF StoreChecked, ChecksFail
<1>9. ASSUME \/ \E p \in Goods, l \in Levels : StockChanges(p, l)
             \/ \E u \in Staff : StaffChanges(u) \/ mark_read(u) \/ mark_all_read(u) \/ delete_notification(u)
             \/ Reopen \/ UNCHANGED noticeVars
      PROVE  UNCHANGED <<checker, checkLock>>
  BY <1>9 DEF StockChanges, StaffChanges, mark_read, mark_all_read, delete_notification, Mark, Reopen,
     noticeVars
<1>10. QED
  BY <1>1, <1>3, <1>5, <1>6, <1>7, <1>8, <1>9 DEF NoticesNext

\* Products, notifications and threads have their types, and the thread that
\* checks is the one that holds the lock.
THEOREM NoticesTypeCorrect == NoticesSpec => []NoticesTypeOK
<1>1. NoticesInit => HoldersBusy
  BY NoticesAssumption DEF NoticesInit, HoldersBusy
<1>2. NoticesInv /\ HoldersBusy /\ [NoticesNext]_noticeVars => HoldersBusy'
  BY HoldersStep
<1>3. NoticesInv /\ HoldersBusy => NoticesTypeOK
  BY DEF NoticesInv, NoticesShape, Checker, CheckPcs, Notice, NoticesTypeOK, BusyHoldLock, HoldersBusy, Busy
<1>4. QED
  BY <1>1, <1>2, <1>3, NoticesInvariance, PTL DEF NoticesSpec

-----------------------------------------------------------------------------
(* The parts together *)

\* A behaviour of the parts together is one of each: the theorems about the
\* lockout, the accounts, the audit reports and the notifications hold of it.
THEOREM PeopleCompose == Spec => LockoutSpec /\ AccountsSpec /\ ReportsSpec /\ NoticesSpec
<1> DEFINE allVars == <<focus, lockoutVars, accountVars, reportVars, noticeVars>>
<1>1. Init => LockoutInit /\ AccountsInit /\ ReportsInit /\ NoticesInit
  BY DEF Init
<1>2. [Next]_allVars => /\ [LockoutNext]_lockoutVars /\ [AccountsNext]_accountVars
                        /\ [ReportsNext]_reportVars /\ [NoticesNext]_noticeVars
  BY DEF Next
<1>3. QED
  BY <1>1, <1>2, PTL DEF Spec, LockoutSpec, AccountsSpec, ReportsSpec, NoticesSpec

\* In the parts together every variable has its type.
THEOREM PeopleTyped == Spec => []TypeOK
<1>1. LockoutInv => LockoutTypeOK
  BY DEF LockoutInv
<1>2. LockoutTypeOK /\ AccountsTypeOK /\ ReportsTypeOK /\ NoticesTypeOK => TypeOK
  BY DEF TypeOK
<1>3. QED
  BY <1>1, <1>2, PeopleCompose, LockoutInvariance, AccountsTyped, ReportsTypeCorrect, NoticesTypeCorrect, PTL
=============================================================================
