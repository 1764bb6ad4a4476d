--------------------------- MODULE WarehouseBuild ---------------------------
(***************************************************************************)
(* The warehouse layer that ends an ETL run: etl_full_build merges         *)
(* products, suppliers, warehouses and users into versioned dimensions and *)
(* loads the event facts, in one transaction whose statements each see     *)
(* what others have committed by then.  A full ETL run has emptied         *)
(* fact_audit_daily before, in a transaction of its own.                   *)
(*                                                                         *)
(* A row's attributes are one number.  Every audit row stands for a login  *)
(* event too; its created_at is its position, given when its transaction   *)
(* starts.                                                                 *)
(***************************************************************************)
EXTENDS Integers, Sequences, FiniteSets, FiniteSetsExt

CONSTANTS Builders,    \* ETL runs that reach the warehouse layer
          NoBuilder,   \* holder of the free ETL lock
          Kind,        \* entity -> "product", "supplier", "warehouse" or "user"
          MaxAttr, MaxAudit, MaxAuditDay, MaxBuilds

Entities  == DOMAIN Kind
WUsers    == {e \in Entities : Kind[e] = "user"}
Kinds     == {"product", "supplier", "warehouse", "user"}

ASSUME WarehouseAssumption ==
  /\ \A e \in Entities : Kind[e] \in Kinds
  /\ WUsers # {} /\ NoBuilder \notin Builders
  /\ MaxAttr \in Nat \ {0} /\ MaxAuditDay \in Nat \ {0} /\ MaxAudit \in Nat /\ MaxBuilds \in Nat

AuditIds  == 1..MaxAudit
AuditDays == 1..MaxAuditDay

VARIABLES
  source,      \* attributes of each operational row, 0 before it exists
  scd,         \* dimension rows of each entity, oldest first: [val, cur]
  audit,       \* audit_log: id -> [st, user, day]
  auditDay,    \* CURRENT_DATE
  auditFacts,  \* fact_audit_daily: day -> audit rows counted
  auditMark,   \* 'last_audit_daily_at', 0 if absent
  loginFacts,  \* fact_login_events
  loginMark,   \* 'last_login_event_at'
  wlock,       \* the ETL's advisory lock
  build,       \* what each builder does
  builds,      \* builds started, bounded by MaxBuilds
  late         \* history: rows that committed during a build, behind the
               \* login watermark or after the audit day was closed

ops    == <<source, audit, auditDay, late>>
facts_ == <<auditFacts, auditMark, loginFacts, loginMark>>
warehouseVars == <<ops, facts_, scd, wlock, build, builds>>

NoAudit == [st |-> "none", user |-> CHOOSE u \in WUsers : TRUE, day |-> 1]
NoBuild == [pc |-> "idle"]
BuildPcs == {"lock", "truncate", "closeproduct", "insertproduct", "closesupplier",
             "insertsupplier", "closewarehouse", "insertwarehouse", "closeuser", "insertuser",
             "login", "loginmark", "audit", "commit"}

WarehouseTypeOK ==
  /\ source \in [Entities -> 0..MaxAttr]
  /\ \A e \in Entities : \A i \in DOMAIN scd[e] : scd[e][i] \in [val : 1..MaxAttr, cur : BOOLEAN]
  /\ audit \in [AuditIds -> [st : {"none", "open", "done"}, user : WUsers, day : AuditDays]]
  /\ auditDay \in AuditDays
  /\ auditFacts \in [AuditDays -> SUBSET AuditIds] /\ auditMark \in 0..MaxAuditDay
  /\ loginFacts \subseteq AuditIds /\ loginMark \in 0..MaxAudit
  /\ wlock \in Builders \cup {NoBuilder}
  /\ \A r \in Builders : build[r].pc \in BuildPcs \cup {"idle"}
  /\ builds \in 0..MaxBuilds /\ late \subseteq AuditIds

WarehouseInit ==
  /\ source = [e \in Entities |-> IF Kind[e] = "user" THEN 0 ELSE 1]
  /\ scd = [e \in Entities |-> <<>>]
  /\ audit = [i \in AuditIds |-> NoAudit] /\ auditDay = 1
  /\ auditFacts = [d \in AuditDays |-> {}] /\ auditMark = 0
  /\ loginFacts = {} /\ loginMark = 0
  /\ wlock = NoBuilder /\ build = [r \in Builders |-> NoBuild]
  /\ builds = 0 /\ late = {}

-----------------------------------------------------------------------------
(* The operational tables *)

Building == \E r \in Builders : build[r].pc \notin {"idle", "lock"}

\* A warehouse is its name: it has nothing that could change.
ChangeRow(e) ==
  /\ source[e] < MaxAttr /\ Kind[e] # "warehouse"
  /\ source' = [source EXCEPT ![e] = @ + 1]
  /\ UNCHANGED <<audit, auditDay, late, facts_, scd, wlock, build, builds>>

AuditInsert(u) ==
  LET i == Cardinality({j \in AuditIds : audit[j].st # "none"}) + 1 IN
  /\ i \in AuditIds /\ source[u] > 0
  /\ audit' = [audit EXCEPT ![i] = [st |-> "open", user |-> u, day |-> auditDay]]
  /\ UNCHANGED <<source, auditDay, late, facts_, scd, wlock, build, builds>>

AuditCommit(i) ==
  /\ audit[i].st = "open"
  /\ audit' = [audit EXCEPT ![i].st = "done"]
  /\ late' = IF Building \/ i <= loginMark \/ audit[i].day < auditMark THEN late \cup {i} ELSE late
  /\ UNCHANGED <<source, auditDay, facts_, scd, wlock, build, builds>>

Midnight ==
  /\ auditDay < MaxAuditDay /\ auditDay' = auditDay + 1
  /\ UNCHANGED <<source, audit, late, facts_, scd, wlock, build, builds>>

-----------------------------------------------------------------------------
(* A build: its dimension rows are its own until it commits *)

BuildStart(r, full) ==
  /\ build[r] = NoBuild /\ builds < MaxBuilds
  /\ builds' = builds + 1
  /\ build' = [build EXCEPT ![r] = [pc |-> "lock", full |-> full, shut |-> [e \in Entities |-> {}],
                 new |-> [e \in Entities |-> <<>>], logins |-> {}, newMark |-> 0,
                 days |-> auditFacts, began |-> 1]]
  /\ UNCHANGED <<ops, facts_, scd, wlock>>

BuildLockFree == wlock = NoBuilder

\* The build's transaction begins after the lock, or after the TRUNCATE's.
BuildLock(r) ==
  /\ build[r].pc = "lock"
  /\ IF BuildLockFree
     THEN /\ wlock' = r
          /\ build' = [build EXCEPT ![r].pc = IF build[r].full THEN "truncate" ELSE "closeproduct",
                                    ![r].began = auditDay]
     ELSE build' = [build EXCEPT ![r] = NoBuild] /\ UNCHANGED wlock
  /\ UNCHANGED <<ops, facts_, scd, builds>>

Truncate_KeepsMark(r) ==
  /\ build[r].pc = "truncate"
  /\ auditFacts' = [d \in AuditDays |-> {}]
  /\ build' = [build EXCEPT ![r].pc = "closeproduct", ![r].began = auditDay]
  /\ UNCHANGED <<ops, auditMark, loginFacts, loginMark, scd, wlock, builds>>

\* The full rebuild's TRUNCATE dim_date CASCADE, and the watermark it drops
\* in the same transaction.
Truncate(r) ==
  /\ build[r].pc = "truncate"
  /\ auditFacts' = [d \in AuditDays |-> {}]
  /\ auditMark' = 0
  /\ build' = [build EXCEPT ![r].pc = "closeproduct", ![r].began = auditDay]
  /\ UNCHANGED <<ops, loginFacts, loginMark, scd, wlock, builds>>

\* The dimension as the builder's transaction sees it.
View(r, e) == [i \in DOMAIN scd[e] |-> [scd[e][i] EXCEPT !.cur = @ /\ i \notin build[r].shut[e]]]
              \o build[r].new[e]
HasCurrent(r, e) == \E i \in DOMAIN View(r, e) : View(r, e)[i].cur

\* The current rows that differ from the operational ones; those of warehouses
\* are compared with nothing.
Outdated(e) ==
  {i \in DOMAIN scd[e] : scd[e][i].cur /\ (Kind[e] = "warehouse" \/ scd[e][i].val # source[e])}

\* UPDATE ... SET is_current = FALSE.
Close(r, pc, kind, next) ==
  /\ build[r].pc = pc
  /\ build' = [build EXCEPT ![r].pc = next,
       ![r].shut = [e \in Entities |->
         IF Kind[e] = kind /\ source[e] > 0 THEN Outdated(e) ELSE build[r].shut[e]]]
  /\ UNCHANGED <<ops, facts_, scd, wlock, builds>>

Insert_Blindly(r, pc, kind, next) ==
  /\ build[r].pc = pc
  /\ build' = [build EXCEPT ![r].pc = next,
       ![r].new = [e \in Entities |->
         IF Kind[e] = kind /\ source[e] > 0
         THEN <<[val |-> source[e], cur |-> TRUE]>> ELSE build[r].new[e]]]
  /\ UNCHANGED <<ops, facts_, scd, wlock, builds>>

\* INSERT of the rows that have no current version.
Insert(r, pc, kind, next) ==
  /\ build[r].pc = pc
  /\ build' = [build EXCEPT ![r].pc = next,
       ![r].new = [e \in Entities |->
         IF Kind[e] = kind /\ source[e] > 0 /\ ~HasCurrent(r, e)
         THEN <<[val |-> source[e], cur |-> TRUE]>> ELSE build[r].new[e]]]
  /\ UNCHANGED <<ops, facts_, scd, wlock, builds>>

MergeProducts(r) ==
  \/ Close(r, "closeproduct", "product", "insertproduct")
  \/ Insert(r, "insertproduct", "product", "closesupplier")

MergeSuppliers(r) ==
  \/ Close(r, "closesupplier", "supplier", "insertsupplier")
  \/ Insert(r, "insertsupplier", "supplier", "closewarehouse")

\* Every current warehouse is closed, changed or not.
MergeWarehouses(r) ==
  \/ Close(r, "closewarehouse", "warehouse", "insertwarehouse")
  \/ Insert(r, "insertwarehouse", "warehouse", "closeuser")

MergeUsers(r) ==
  \/ Close(r, "closeuser", "user", "insertuser")
  \/ Insert(r, "insertuser", "user", "login")

Loadable(r) == {i \in AuditIds : audit[i].st = "done" /\ HasCurrent(r, audit[i].user)}
Fresh(r)    == {i \in Loadable(r) : i > loginMark}

\* The events behind the watermark, logins and signups alike.
LoadLogins(r) ==
  /\ build[r].pc = "login"
  /\ build' = [build EXCEPT ![r].pc = "loginmark", ![r].logins = Fresh(r)]
  /\ UNCHANGED <<ops, facts_, scd, wlock, builds>>

\* The new watermark, from a later look at the same rows.
LoginMark(r) ==
  /\ build[r].pc = "loginmark"
  /\ build' = [build EXCEPT ![r].pc = "audit", ![r].newMark = Max(Fresh(r) \cup {loginMark})]
  /\ UNCHANGED <<ops, facts_, scd, wlock, builds>>

\* The days from the watermark on, counted again.
LoadAuditDaily(r) ==
  /\ build[r].pc = "audit"
  /\ build' = [build EXCEPT ![r].pc = "commit",
       ![r].days = [d \in AuditDays |->
         IF d >= auditMark THEN {i \in Loadable(r) : audit[i].day = d} ELSE auditFacts[d]]]
  /\ UNCHANGED <<ops, facts_, scd, wlock, builds>>

\* CURRENT_DATE is the day the transaction began.
BuildCommit(r) ==
  /\ build[r].pc = "commit"
  /\ scd' = [e \in Entities |-> View(r, e)]
  /\ loginFacts' = loginFacts \cup build[r].logins
  /\ loginMark' = build[r].newMark
  /\ auditFacts' = build[r].days /\ auditMark' = build[r].began
  /\ wlock' = IF wlock = r THEN NoBuilder ELSE wlock
  /\ build' = [build EXCEPT ![r] = NoBuild]
  /\ UNCHANGED <<ops, builds>>

\* An error rolls the build back, a crash ends its session; neither fails the run.
BuildFail(r) ==
  /\ build[r] # NoBuild
  /\ wlock' = IF wlock = r THEN NoBuilder ELSE wlock
  /\ build' = [build EXCEPT ![r] = NoBuild]
  /\ UNCHANGED <<ops, facts_, scd, builds>>

BuildStep(r) ==
  \/ BuildLock(r) \/ Truncate(r)
  \/ MergeProducts(r) \/ MergeSuppliers(r) \/ MergeWarehouses(r) \/ MergeUsers(r)
  \/ LoadLogins(r) \/ LoginMark(r) \/ LoadAuditDaily(r) \/ BuildCommit(r) \/ BuildFail(r)

WarehouseNext ==
  \/ \E e \in Entities : ChangeRow(e)
  \/ \E u \in WUsers : AuditInsert(u)
  \/ \E i \in AuditIds : AuditCommit(i)
  \/ Midnight
  \/ \E r \in Builders : BuildStep(r) \/ \E full \in BOOLEAN : BuildStart(r, full)

WarehouseSpec == WarehouseInit /\ [][WarehouseNext]_warehouseVars

-----------------------------------------------------------------------------
(* Properties *)

\* Of the versions of an entity the last one, and no other, is current, after
\* any number of builds that overlapped, failed or saw a row change between
\* closing and inserting.
LastVersionIsCurrent ==
  \A e \in Entities : \A i \in DOMAIN scd[e] : scd[e][i].cur <=> i = Len(scd[e])

\* The login watermark never passes an event that was not loaded, for events
\* that committed before the build that moved it.
LoginEventsLoaded ==
  \A i \in AuditIds \ late : audit[i].st = "done" /\ i <= loginMark => i \in loginFacts

\* A day the audit loader will not look at again is complete, also after a
\* full rebuild that emptied the facts and then failed.
ClosedDaysComplete ==
  \A i \in AuditIds \ late :
    audit[i].st = "done" /\ audit[i].day < auditMark => i \in auditFacts[audit[i].day]

\* Neither watermark of etl_full_build passes an event that is not loaded.
WatermarksCovered == LoginEventsLoaded /\ ClosedDaysComplete
=============================================================================
