----------------------------- MODULE AuditChain -----------------------------
(***************************************************************************)
(* The hash chain of audit_log.  Every insert runs a trigger that takes a  *)
(* transaction-level advisory lock, reads the row_hash of the row with the *)
(* largest id and stores it as prev_hash.  The id is a SERIAL default: it  *)
(* is drawn before the trigger runs, so before the lock is held.           *)
(*                                                                         *)
(* Rows differ in content and the digest is taken to be injective, so a    *)
(* row_hash is the id of its row, and NULL is 0.                           *)
(***************************************************************************)
EXTENDS Integers, FiniteSets, FiniteSetsExt

CONSTANTS Writers,      \* transactions that write audit rows
          NoWriter,     \* holder of the free chain lock
          MaxRow,       \* ids the sequence may give
          Legacy,       \* rows older than the chain
          MaxAge,       \* days the clock may advance
          RetentionDays

ASSUME ChainAssumption ==
  /\ NoWriter \notin Writers
  /\ MaxRow \in Nat /\ Legacy \in 0..MaxRow /\ MaxAge \in Nat /\ RetentionDays \in Nat

RowIds == 1..MaxRow

VARIABLES
  rows,        \* audit_log: the rows of open and of committed transactions, id -> row
  nextRow,     \* the id sequence
  chainLock,   \* holder of the advisory lock
  writer,      \* [pc, began, id]
  today,       \* NOW() in days
  crossed,     \* history: ids that were chained after a larger id
  purged       \* history: ids the retention job deleted

chainVars == <<rows, nextRow, chainLock, writer, today, crossed, purged>>

NoRow == [st |-> "none", prev |-> 0, at |-> 0, by |-> NoWriter]
Off   == [pc |-> "off", began |-> 0, id |-> 0]

Stored(st) == {i \in RowIds : rows[i].st \in st}
Chained  == Stored({"done"})

ChainTypeOK ==
  /\ rows \in [RowIds -> [st : {"none", "open", "done"}, prev : 0..MaxRow, at : 0..MaxAge,
                          by : Writers \cup {NoWriter}]]
  /\ nextRow \in 1..(MaxRow + 1)
  /\ chainLock \in Writers \cup {NoWriter}
  /\ writer \in [Writers -> [pc : {"off", "begun", "insert"}, began : 0..MaxAge, id : 0..MaxRow]]
  /\ today \in 0..MaxAge
  /\ crossed \subseteq RowIds /\ purged \subseteq RowIds
  /\ \A w \in Writers : (\E i \in RowIds : rows[i].st = "open" /\ rows[i].by = w) => chainLock = w

\* The migration chains the rows it finds in the order of their ids.
Backfilled == [i \in RowIds |->
  IF i <= Legacy THEN [st |-> "done", prev |-> i - 1, at |-> 0, by |-> NoWriter] ELSE NoRow]

ChainInit ==
  /\ rows = Backfilled /\ nextRow = Legacy + 1
  /\ chainLock = NoWriter /\ writer = [w \in Writers |-> Off]
  /\ today = 0 /\ crossed = {} /\ purged = {}

-----------------------------------------------------------------------------
\* created_at is NOW(), the start of the transaction.
BeginWrite(w) ==
  /\ writer[w] = Off
  /\ writer' = [writer EXCEPT ![w] = [pc |-> "begun", began |-> today, id |-> 0]]
  /\ UNCHANGED <<rows, nextRow, chainLock, today, crossed, purged>>

\* INSERT evaluates the id's default; a transaction may insert several rows.
DrawId(w) ==
  /\ writer[w].pc = "begun" /\ nextRow <= MaxRow
  /\ writer' = [writer EXCEPT ![w].pc = "insert", ![w].id = nextRow]
  /\ nextRow' = nextRow + 1
  /\ UNCHANGED <<rows, chainLock, today, crossed, purged>>

ChainLockFree_Ignored(w) == w \in Writers

\* The lock is re-entrant within its transaction.
ChainLockFree(w) == chainLock \in {w, NoWriter}

\* ORDER BY id DESC LIMIT 1, over committed rows and the writer's own.
Predecessor(w) ==
  Max({0} \cup Chained \cup {i \in Stored({"open"}) : rows[i].by = w})

trg_fn_audit_hash_chain(w) ==
  LET i == writer[w].id IN
  /\ writer[w].pc = "insert" /\ ChainLockFree(w)
  /\ chainLock' = w
  /\ rows' = [rows EXCEPT ![i] =
       [st |-> "open", prev |-> Predecessor(w), at |-> writer[w].began, by |-> w]]
  /\ crossed' = crossed \cup (IF Predecessor(w) > i THEN {i} ELSE {})
  /\ writer' = [writer EXCEPT ![w].pc = "begun", ![w].id = 0]
  /\ UNCHANGED <<nextRow, today, purged>>

\* The rows of the transaction become visible, or are gone.
EndWrite(w, commits) ==
  /\ writer[w].pc # "off"
  /\ rows' = [i \in RowIds |->
       IF rows[i].st # "open" \/ rows[i].by # w THEN rows[i]
       ELSE IF commits THEN [rows[i] EXCEPT !.st = "done", !.by = NoWriter] ELSE NoRow]
  /\ chainLock' = IF chainLock = w THEN NoWriter ELSE chainLock
  /\ writer' = [writer EXCEPT ![w] = Off]
  /\ UNCHANGED <<nextRow, today, crossed, purged>>

CommitWrite(w) == writer[w].pc = "begun" /\ EndWrite(w, TRUE)

\* An error or a lost connection; the ids it drew leave gaps.
AbortWrite(w) == EndWrite(w, FALSE)

DayPasses ==
  /\ today < MaxAge /\ today' = today + 1
  /\ UNCHANGED <<rows, nextRow, chainLock, writer, crossed, purged>>

Expired == {i \in Chained : rows[i].at < today - RetentionDays}

\* The nightly retention job deletes by age, without the chain lock.
sp_retention_purge_audit_log ==
  /\ Expired # {}
  /\ rows' = [i \in RowIds |-> IF i \in Expired THEN NoRow ELSE rows[i]]
  /\ purged' = purged \cup Expired
  /\ UNCHANGED <<nextRow, chainLock, writer, today, crossed>>

ChainNext ==
  \/ \E w \in Writers : \/ BeginWrite(w) \/ DrawId(w) \/ trg_fn_audit_hash_chain(w)
                        \/ CommitWrite(w) \/ AbortWrite(w)
  \/ DayPasses \/ sp_retention_purge_audit_log

ChainSpec == ChainInit /\ [][ChainNext]_chainVars

-----------------------------------------------------------------------------
(* Properties *)

Before(i) == {j \in Chained : j < i}

\* The rows sp_audit_verify_integrity counts as broken links: the scan goes by
\* id and expects nothing of the first row.
sp_audit_verify_integrity == {i \in Chained : Before(i) # {} /\ rows[i].prev # Max(Before(i))}

\* A link the verification reports is explained by the order of ids: the row
\* or the one before it was chained after a larger id, or the retention job,
\* which goes by age, took the row between them.  Rollbacks, gaps, several
\* rows of one transaction and the purge of the oldest rows break no link.
BreaksAreExplained ==
  \A i \in sp_audit_verify_integrity :
    LET j == Max(Before(i)) IN
    i \in crossed \/ j \in crossed \/ (rows[i].prev \in purged /\ rows[i].prev > j)

\* "Concurrent inserts can never fork the chain": no two rows have the same
\* predecessor.
ChainNeverForks ==
  \A i, j \in Chained : rows[i].prev = rows[j].prev => i = j
=============================================================================
