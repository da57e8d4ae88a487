------------------------ MODULE MigrationOrchestrator ------------------------
(***************************************************************************)
(* The in-memory registry of migrations                                    *)
(* (backend/services/migration_orchestrator.py).  `active_migrations` maps *)
(* a migration id to its MigrationStatus; every method holds one           *)
(* asyncio.Lock over code that never awaits, so a method is one atomic     *)
(* update of the registry.  The methods are operators that return the new  *)
(* registry: their callers run several of them between two suspension      *)
(* points of the event loop, in one step.                                  *)
(***************************************************************************)
EXTENDS Naturals

CONSTANTS MigrationIds,   \* the uuid4 ids handed out by create_migration_id
          NoRecord        \* what active_migrations.get returns for an unknown id

VARIABLE active           \* the dict active_migrations

Finished == {"completed", "failed"}
Terminal == Finished \cup {"cancelled"}
Running  == {"discovered", "validating", "stopping", "migrating",
             "preparing", "networks", "recreating", "connecting"}

\* The fields of a MigrationStatus that the control flow reads or writes.
Record == [status : Running \cup Terminal, progress : 0..100]

ASSUME NoRecordAssumption == NoRecord \notin Record

EmptyRegistry == [m \in MigrationIds |-> NoRecord]

Registered(reg, m) == reg[m] # NoRecord

Register(reg, m, status, progress) ==
  [reg EXCEPT ![m] = [status |-> status, progress |-> progress]]

\* Mutant: the membership test of update_status is forgotten.
UpdateStatus_Recreates(reg, m, status, progress) ==
  [reg EXCEPT ![m] = [status |-> status, progress |-> progress]]

\* No look at the status that is overwritten: a cancelled migration is revived.
UpdateStatus(reg, m, status, progress) ==
  IF Registered(reg, m)
  THEN [reg EXCEPT ![m] = [status |-> status, progress |-> progress]]
  ELSE reg

\* Mutant: a failure starts the progress bar again.
UpdateError_ResetsProgress(reg, m) ==
  IF Registered(reg, m)
  THEN [reg EXCEPT ![m] = [status |-> "failed", progress |-> 0]]
  ELSE reg

\* The progress stays where the last update_status left it.
UpdateError(reg, m) ==
  IF Registered(reg, m)
  THEN [reg EXCEPT ![m] = [status |-> "failed", progress |-> reg[m].progress]]
  ELSE reg

\* Mutant: the list of terminal states is not consulted.
CanCancel_AnyStatus(reg, m) == Registered(reg, m)

CanCancel(reg, m) == Registered(reg, m) /\ reg[m].status \notin Terminal

\* Relabels the record; the background task is not told.
MarkCancelled(reg, m) ==
  [reg EXCEPT ![m] = [status |-> "cancelled", progress |-> reg[m].progress]]

\* Mutant: cleanup leaves a tombstone instead of deleting.
Remove_Tombstone(reg, m) ==
  [reg EXCEPT ![m] = [status |-> "removed", progress |-> reg[m].progress]]

\* Deletes the record whatever its status, a running migration's too.
Remove(reg, m) == [reg EXCEPT ![m] = NoRecord]

RegistryTypeOK == active \in [MigrationIds -> Record \cup {NoRecord}]
==============================================================================
