------------------------------- MODULE Backup -------------------------------
(***************************************************************************)
(* Backups of services/backup_service.py: pg_dump, encrypt, record;        *)
(* restore behind an advisory lock that is taken, dropped and taken again; *)
(* verification, deletion and retention.  Requests, daemon threads and     *)
(* queue workers share one directory, in which the name of a decrypted     *)
(* file depends on the backup alone.                                       *)
(*                                                                         *)
(* The bytes of a dump are its number.  A file is named by the second of   *)
(* its backup: names that differ in punctuation only share the rest.  The  *)
(* operational tables go where system_backups goes and are left out.       *)
(***************************************************************************)
EXTENDS Integers, Sequences, FiniteSets

CONSTANTS Actors,     \* requests, threads and workers
          NoActor,    \* holder of the free advisory lock
          BackupNames, MaxBackups, MaxSecond, MaxRestores

ASSUME BackupAssumption ==
  /\ NoActor \notin Actors /\ MaxBackups \in Nat /\ MaxSecond \in Nat \ {0} /\ MaxRestores \in Nat

Seconds == 1..MaxSecond
Dumps   == 1..MaxBackups

VARIABLES
  backups,   \* system_backups: the rows by id
  rstatus,   \* etl_warehouse_state['restore_job_status']
  dumped,    \* what the dump with this number holds, NoDump before it is made
  plain,     \* <second>.backup: number of the dump, 0 if there is no file
  enc,       \* <second>.backup.enc
  dec,       \* <second>.backup.dec
  rlock,     \* advisory lock 774002
  actor,     \* what each actor does
  second,    \* the clock of the file names
  restores,  \* restores requested, bounded by MaxRestores
  collided,  \* history: two backups of one second shared a file name
  restored,  \* history: a restore has replaced the tables
  rdied      \* history: a process died during a restore

files      == <<plain, enc, dec>>
tables     == <<backups, rstatus>>
backupVars == <<tables, files, dumped, rlock, actor, second, restores, collided, restored, rdied>>

NoDump == [sec |-> 0, backups |-> <<>>, rstatus |-> "none"]
NoEnc  == [dump |-> 0, key |-> <<0, "none">>]
Resting == [pc |-> "idle"]

Keys == {<<0, "none">>} \cup (Seconds \X BackupNames)
Row  == [sec : Seconds, key : Keys, sum : Dumps, live : BOOLEAN]
Pcs  == {"dump", "encrypt", "unlink", "record", "sum", "prelock", "preclose", "lock",
         "mark", "look", "open", "pg", "ok", "bad", "file"}

BackupTypeOK ==
  /\ \A i \in DOMAIN backups : backups[i] \in Row
  /\ rstatus \in {"none", "running", "failed", "success"}
  /\ plain \in [Seconds -> 0..MaxBackups]
  /\ enc \in [Seconds -> [dump : 0..MaxBackups, key : Keys]]
  /\ dec \in [Seconds -> 0..MaxBackups]
  /\ rlock \in Actors \cup {NoActor}
  /\ \A a \in Actors : actor[a] = Resting \/ actor[a].pc \in Pcs
  /\ second \in Seconds /\ restores \in 0..MaxRestores
  /\ collided \in BOOLEAN /\ restored \in BOOLEAN /\ rdied \in BOOLEAN

BackupInit ==
  /\ backups = <<>> /\ rstatus = "none"
  /\ dumped = [d \in Dumps |-> NoDump]
  /\ plain = [s \in Seconds |-> 0] /\ enc = [s \in Seconds |-> NoEnc]
  /\ dec = [s \in Seconds |-> 0]
  /\ rlock = NoActor /\ actor = [a \in Actors |-> Resting]
  /\ second = 1 /\ restores = 0
  /\ collided = FALSE /\ restored = FALSE /\ rdied = FALSE

Step(a, pc) == actor' = [actor EXCEPT ![a].pc = pc]
Rest(a)     == actor' = [actor EXCEPT ![a] = Resting]
history     == <<collided, restored, rdied>>

Tick ==
  /\ second < MaxSecond /\ second' = second + 1
  /\ UNCHANGED <<tables, files, dumped, rlock, actor, restores, history>>

-----------------------------------------------------------------------------
(* create_backup *)

Taken == {d \in Dumps : dumped[d] # NoDump}

CreateBackup(a, name) ==
  /\ actor[a] = Resting
  /\ actor' = [actor EXCEPT ![a] = [pc |-> "dump", sec |-> second, key |-> <<second, name>>]]
  /\ UNCHANGED <<tables, files, dumped, rlock, second, restores, history>>

\* pg_dump writes the tables it sees.
Dump(a) ==
  LET d == Cardinality(Taken) + 1
      s == actor[a].sec IN
  /\ actor[a].pc = "dump" /\ d \in Dumps
  /\ dumped' = [dumped EXCEPT ![d] = [sec |-> s, backups |-> backups, rstatus |-> rstatus]]
  /\ plain' = [plain EXCEPT ![s] = d]
  /\ collided' = (collided \/ \E e \in Taken : dumped[e].sec = s)
  /\ Step(a, "encrypt")
  /\ UNCHANGED <<tables, enc, dec, rlock, second, restores, restored, rdied>>

\* pg_dump fails: an alert, no record; what it wrote so far is left.
DumpFails(a) ==
  /\ actor[a].pc = "dump"
  /\ Rest(a)
  /\ UNCHANGED <<tables, files, dumped, rlock, second, restores, history>>

\* Encrypts what is under the name; the plain file may be gone by now.
Encrypt(a) ==
  LET s == actor[a].sec IN
  /\ actor[a].pc = "encrypt"
  /\ IF plain[s] = 0
     THEN Rest(a) /\ UNCHANGED enc
     ELSE /\ enc' = [enc EXCEPT ![s] = [dump |-> plain[s], key |-> actor[a].key]]
          /\ actor' = [actor EXCEPT ![a] = [pc |-> "unlink", sec |-> s, key |-> actor[a].key,
                                           sum |-> plain[s]]]
  /\ UNCHANGED <<tables, plain, dec, dumped, rlock, second, restores, history>>

Unlink(a) ==
  /\ actor[a].pc = "unlink"
  /\ plain' = [plain EXCEPT ![actor[a].sec] = 0]
  /\ Step(a, "record")
  /\ UNCHANGED <<tables, enc, dec, dumped, rlock, second, restores, history>>

Record(a) ==
  /\ actor[a].pc = "record"
  /\ backups' = Append(backups, [sec |-> actor[a].sec, key |-> actor[a].key,
                                 sum |-> actor[a].sum, live |-> TRUE])
  /\ Rest(a)
  /\ UNCHANGED <<rstatus, files, dumped, rlock, second, restores, history>>

-----------------------------------------------------------------------------
(* Decrypting, which restore_backup, _restore_sync and verify_latest_backup share *)

DecName_Shared(s) == 1

\* The name of the decrypted file of the backup of second s.
DecName(s) == s

\* get_by_id finds the row, the file is there and its key decrypts it.
Decryptable(row) == row.live /\ enc[row.sec].dump # 0 /\ enc[row.sec].key = row.key

\* Opening the file to write truncates what a pg_restore may be reading.
Truncated(s) ==
  [b \in Actors |-> IF actor[b].pc = "pg" /\ DecName(actor[b].row.sec) = s /\ actor[b].linked
                    THEN [actor[b] EXCEPT !.whole = FALSE] ELSE actor[b]]

\* A reader keeps the file it has open.
Unlinked(s) ==
  [b \in Actors |-> IF actor[b].pc = "pg" /\ DecName(actor[b].row.sec) = s
                    THEN [actor[b] EXCEPT !.linked = FALSE] ELSE actor[b]]

\* restore_backup before its lock, and verify_latest_backup.
CheckBackup(a, i, op) ==
  LET row == backups[i]
      f   == DecName(row.sec) IN
  /\ actor[a] = Resting
  /\ Decryptable(row)
  /\ op = "verify" => \A j \in DOMAIN backups : backups[j].live => j <= i
  /\ op = "restore" => restores < MaxRestores
  /\ restores' = IF op = "restore" THEN restores + 1 ELSE restores
  /\ dec' = [dec EXCEPT ![f] = enc[row.sec].dump]
  /\ actor' = [Truncated(f) EXCEPT ![a] = [pc |-> "sum", op |-> op, id |-> i, row |-> row]]
  /\ UNCHANGED <<tables, plain, enc, dumped, rlock, second, history>>

\* The checksum, and the finally clause that removes the decrypted file.
CheckSum(a) ==
  LET row == actor[a].row
      f   == DecName(row.sec) IN
  /\ actor[a].pc = "sum"
  /\ dec' = [dec EXCEPT ![f] = 0]
  /\ actor' = [Unlinked(f) EXCEPT ![a] =
       IF actor[a].op = "restore" /\ dec[f] = row.sum
       THEN [actor[a] EXCEPT !.pc = "prelock"] ELSE Resting]
  /\ UNCHANGED <<tables, plain, enc, dumped, rlock, second, restores, history>>

-----------------------------------------------------------------------------
(* restore_backup and _restore_sync *)

RestoreLockFree_Ignored == rlock \in Actors \cup {NoActor}

RestoreLockFree == rlock = NoActor

\* pg_try_advisory_lock on a connection of its own, closed again at once.
PreLock(a) ==
  /\ actor[a].pc = "prelock"
  /\ IF RestoreLockFree THEN rlock' = a /\ Step(a, "preclose") ELSE Rest(a) /\ UNCHANGED rlock
  /\ UNCHANGED <<tables, files, dumped, second, restores, history>>

PreClose(a) ==
  /\ actor[a].pc = "preclose"
  /\ rlock' = IF rlock = a THEN NoActor ELSE rlock
  /\ Step(a, "lock")
  /\ UNCHANGED <<tables, files, dumped, second, restores, history>>

\* The thread, or the queue's handler, takes the lock for itself or reports
\* failure over whatever the restore that has it reported.
RestoreLock(a) ==
  /\ actor[a].pc = "lock"
  /\ IF RestoreLockFree THEN rlock' = a /\ Step(a, "mark") /\ UNCHANGED rstatus
     ELSE Rest(a) /\ rstatus' = "failed" /\ UNCHANGED rlock
  /\ UNCHANGED <<backups, files, dumped, second, restores, history>>

RestoreMark(a) ==
  /\ actor[a].pc = "mark"
  /\ rstatus' = "running"
  /\ Step(a, "look")
  /\ UNCHANGED <<backups, files, dumped, rlock, second, restores, history>>

\* The record is read again; it may have gone since the request.
RestoreLook(a) ==
  LET i   == actor[a].id
      row == backups[i]
      f   == DecName(row.sec) IN
  /\ actor[a].pc = "look"
  /\ IF i \in DOMAIN backups /\ Decryptable(row)
     THEN /\ dec' = [dec EXCEPT ![f] = enc[row.sec].dump]
          /\ actor' = [actor EXCEPT ![a] = [@ EXCEPT !.pc = "open", !.row = row]]
     ELSE Step(a, "bad") /\ UNCHANGED dec
  /\ UNCHANGED <<tables, plain, enc, dumped, rlock, second, restores, history>>

\* pg_restore opens the file, or gives up before it touches the database.
RestoreOpen(a) ==
  LET f == dec[DecName(actor[a].row.sec)] IN
  /\ actor[a].pc = "open"
  /\ IF f # 0
     THEN actor' = [actor EXCEPT ![a] = [pc |-> "pg", id |-> actor[a].id, row |-> actor[a].row,
                      loaded |-> f, whole |-> TRUE, linked |-> TRUE]]
     ELSE Step(a, "bad")
  /\ UNCHANGED <<tables, files, dumped, rlock, second, restores, history>>

\* It succeeds if nobody cut the file short, or fails or times out.
PgRestore(a) ==
  LET d == dumped[actor[a].loaded] IN
  /\ actor[a].pc = "pg"
  /\ \/ /\ actor[a].whole
        /\ backups' = d.backups /\ rstatus' = d.rstatus
        /\ restored' = TRUE
        /\ Step(a, "ok")
     \/ /\ Step(a, "bad")
        /\ UNCHANGED <<tables, restored>>
  /\ UNCHANGED <<files, dumped, rlock, second, restores, collided, rdied>>

\* The outcome is stored, the decrypted file removed, the lock released.
RestoreEnd(a) ==
  /\ actor[a].pc \in {"ok", "bad"}
  /\ rstatus' = IF actor[a].pc = "ok" THEN "success" ELSE "failed"
  /\ dec' = [dec EXCEPT ![DecName(actor[a].row.sec)] = 0]
  /\ rlock' = IF rlock = a THEN NoActor ELSE rlock
  /\ Rest(a)
  /\ UNCHANGED <<backups, plain, enc, dumped, second, restores, history>>

\* The process dies; its session gives the lock up.  A queued restore is
\* requeued and runs again from its lock.
RestoreDie(a) ==
  /\ actor[a].pc \in {"lock", "mark", "look", "open", "pg", "ok", "bad"}
  /\ rlock' = IF rlock = a THEN NoActor ELSE rlock
  /\ \/ Rest(a)
     \/ actor[a].pc # "lock" /\ restores < MaxRestores
        /\ actor' = [actor EXCEPT ![a] = [pc |-> "lock", id |-> actor[a].id, row |-> actor[a].row]]
  /\ restores' = IF actor'[a] = Resting THEN restores ELSE restores + 1
  /\ rdied' = TRUE
  /\ UNCHANGED <<tables, files, dumped, second, collided, restored>>

-----------------------------------------------------------------------------
(* The delete route, and cleanup_old_backups *)

DeleteBackup_FileFirst(a, i) ==
  /\ actor[a] = Resting /\ backups[i].live
  /\ enc' = [enc EXCEPT ![backups[i].sec] = NoEnc]
  /\ actor' = [actor EXCEPT ![a] = [pc |-> "file", sec |-> backups[i].sec]]
  /\ UNCHANGED <<tables, plain, dec, dumped, rlock, second, restores, history>>

\* The record is hidden first.
DeleteBackup(a, i) ==
  /\ actor[a] = Resting /\ backups[i].live
  /\ backups' = [backups EXCEPT ![i].live = FALSE]
  /\ actor' = [actor EXCEPT ![a] = [pc |-> "file", sec |-> backups[i].sec]]
  /\ UNCHANGED <<rstatus, files, dumped, rlock, second, restores, history>>

\* Then the file is removed, or stays when that fails.
DeleteFile(a) ==
  /\ actor[a].pc = "file"
  /\ \/ enc' = [enc EXCEPT ![actor[a].sec] = NoEnc]
     \/ UNCHANGED enc
  /\ Rest(a)
  /\ UNCHANGED <<tables, plain, dec, dumped, rlock, second, restores, history>>

\* Retention hides the record of an old backup and keeps its file.
CleanupOldBackup(i) ==
  /\ backups[i].live /\ backups[i].sec < second
  /\ backups' = [backups EXCEPT ![i].live = FALSE]
  /\ UNCHANGED <<rstatus, files, dumped, rlock, actor, second, restores, history>>

BackupStep(a) ==
  \/ Dump(a) \/ DumpFails(a) \/ Encrypt(a) \/ Unlink(a) \/ Record(a)
  \/ CheckSum(a) \/ PreLock(a) \/ PreClose(a)
  \/ RestoreLock(a) \/ RestoreMark(a) \/ RestoreLook(a) \/ RestoreOpen(a)
  \/ PgRestore(a) \/ RestoreEnd(a) \/ RestoreDie(a) \/ DeleteFile(a)

BackupNext ==
  \/ Tick
  \/ \E i \in DOMAIN backups : CleanupOldBackup(i)
  \/ \E a \in Actors :
       \/ \E name \in BackupNames : CreateBackup(a, name)
       \/ \E i \in DOMAIN backups : \/ DeleteBackup(a, i)
                                    \/ \E op \in {"restore", "verify"} : CheckBackup(a, i, op)
       \/ BackupStep(a)

BackupSpec == BackupInit /\ [][BackupNext]_backupVars

-----------------------------------------------------------------------------
(* Properties *)

\* Two restores never run pg_restore at the same time, although the lock is
\* free between the request's check and the thread that does the work.
OneRestoreRuns ==
  \A a, b \in Actors : actor[a].pc = "pg" /\ actor[b].pc = "pg" => a = b

\* A restore that succeeds has loaded the dump whose checksum its record
\* names, whoever decrypts or deletes backups meanwhile, unless two backups
\* of one second shared a file.
RestoreLoadsItsBackup ==
  \A a \in Actors : actor[a].pc = "ok" => actor[a].loaded = actor[a].row.sum \/ collided

\* A backup that is listed can be decrypted with its key to the dump its
\* checksum was taken from, unless names collided or a restore has brought
\* an older list back.
ListedBackupsRestorable ==
  \A i \in DOMAIN backups :
    backups[i].live =>
      \/ enc[backups[i].sec] = [dump |-> backups[i].sum, key |-> backups[i].key]
      \/ collided \/ restored

\* "running" is not left behind, unless a process died.
RestoreStatusEnds ==
  rstatus = "running" =>
    rdied \/ \E a \in Actors : actor[a].pc \in {"look", "open", "pg", "ok", "bad"}

\* Restores take turns, and each says in restore_job_status how it ended,
\* although the tables it loads hold the status of the time of the dump.
RestoresTakeTurns == OneRestoreRuns /\ RestoreStatusEnds
=============================================================================
