---------------------------- MODULE MCBackground ----------------------------
(***************************************************************************)
(* Values for TLC of the parts that work behind the requests: ETL,         *)
(* warehouse build, backups, connection pool, audit chain, system alerts.  *)
(* They share no state, so a behaviour is one of one of them; focus says   *)
(* which.                                                                  *)
(***************************************************************************)
EXTENDS EtlRun, WarehouseBuild, Backup, ConnPool, AuditChain, SystemAlerts

CONSTANTS a1, a2, u1, u2, u3

\* One entity of each kind that is merged in a way of its own.
WarehouseKinds == [p |-> "product", w |-> "warehouse", u |-> "user"]

\* Every component's variables have their types.
TypeOK == EtlTypeOK /\ WarehouseTypeOK /\ BackupTypeOK /\ PoolTypeOK /\ ChainTypeOK
          /\ SystemAlertsTypeOK

VARIABLE focus

Init ==
  /\ focus \in {"etl", "warehouse", "backup", "pool", "chain", "alerts"}
  /\ EtlInit /\ WarehouseInit /\ BackupInit /\ PoolInit /\ ChainInit /\ SystemAlertsInit

Next ==
  /\ UNCHANGED focus
  /\ \/ /\ focus = "etl" /\ EtlNext
        /\ UNCHANGED <<warehouseVars, backupVars, poolVars, chainVars, alertVars>>
     \/ /\ focus = "warehouse" /\ WarehouseNext
        /\ UNCHANGED <<etlVars, backupVars, poolVars, chainVars, alertVars>>
     \/ /\ focus = "backup" /\ BackupNext
        /\ UNCHANGED <<etlVars, warehouseVars, poolVars, chainVars, alertVars>>
     \/ /\ focus = "pool" /\ PoolNext
        /\ UNCHANGED <<etlVars, warehouseVars, backupVars, chainVars, alertVars>>
     \/ /\ focus = "chain" /\ ChainNext
        /\ UNCHANGED <<etlVars, warehouseVars, backupVars, poolVars, alertVars>>
     \/ /\ focus = "alerts" /\ SystemAlertsNext
        /\ UNCHANGED <<etlVars, warehouseVars, backupVars, poolVars, chainVars>>

Spec == Init /\ [][Next]_<<focus, etlVars, warehouseVars, backupVars, poolVars, chainVars, alertVars>>
=============================================================================
