---------------------------- MODULE DatasetService ----------------------------
(***************************************************************************)
(* Calls on ZFS datasets: DatasetService (backend/zfs_operations/services/ *)
(* dataset_service.py) behind backend/api/routers/dataset_router.py.  Each *)
(* endpoint is an action that begins a call, each zfs command an action    *)
(* with the code up to the next command.                                   *)
(***************************************************************************)
EXTENDS ZfsCalls, FiniteSets

CONSTANTS Names,        \* dataset names
          Under,        \* Under[n]: the names below n
          FirstId,      \* FirstId[n]: the dataset n names at first, 0 for none
          MaxIds,       \* bound on the datasets ever created
          MaxWrites,    \* bound on the writes to a property of a dataset
          Absent

VARIABLES ds,           \* ds[n]: the dataset n names: its number, the version of
                        \* its properties and whether it is mounted
          ids,          \* datasets created so far
          view          \* view[c]: the datasets the two reads of c were about and
                        \* the version of the properties it returns

datasetVars == <<ds, ids, view>>

DatasetOps == {"create", "list", "get", "destroy", "set", "usage", "mount", "unmount",
               "monitor"}

\* The datasets there are at first are numbered from 1.
ASSUME DatasetAssumption ==
  LET first == {n \in Names : FirstId[n] # 0}
  IN  /\ \A r \in Requests : r.op \in DatasetOps \ {"list"} => r.name \in Names
      /\ Under \in [Names -> SUBSET Names]
      /\ Cardinality(first) \in 0..MaxIds
      /\ FirstId \in [Names -> 0..Cardinality(first)]
      /\ \A m, n \in first : FirstId[m] = FirstId[n] => m = n
      /\ MaxIds \in Nat /\ MaxWrites \in Nat

DatasetCommands == {"exists", "create", "info", "properties_of", "destroy", "set",
                    "mount", "unmount", "usage", "objset", "pool_iostat", "wait", "list"}

Dataset == [id : 1..MaxIds, version : 0..MaxWrites, mounted : BOOLEAN]

DatasetTypeOK ==
  /\ ds \in [Names -> Dataset \cup {Absent}]
  /\ ids \in 0..MaxIds
  /\ view \in [Calls -> [first : 0..MaxIds, second : 0..MaxIds, version : 0..MaxWrites]]

InitDataset ==
  /\ ds = [n \in Names |-> IF FirstId[n] = 0 THEN Absent
                           ELSE [id |-> FirstId[n], version |-> 0, mounted |-> TRUE]]
  /\ ids = Cardinality({n \in Names : FirstId[n] # 0})
  /\ view = [c \in Calls |-> [first |-> 0, second |-> 0, version |-> 0]]

Name(c) == req[c].name

Present(n) == imported /\ ds[n] # Absent

-----------------------------------------------------------------------------
(* Endpoints of the dataset router. *)

DatasetRequest(c, r, op, command) ==
  /\ r.op = op
  /\ Begin(c, r, command)
  /\ UNCHANGED <<poolVars, datasetVars>>

CreateRequest(c, r)   == DatasetRequest(c, r, "create", "exists")
ListAllRequest(c, r)  == DatasetRequest(c, r, "list", "list")
GetRequest(c, r)      == DatasetRequest(c, r, "get", "info")
DeleteRequest(c, r)   == DatasetRequest(c, r, "destroy", "exists")
SetRequest(c, r)      == DatasetRequest(c, r, "set", "set")
UsageRequest(c, r)    == DatasetRequest(c, r, "usage", "usage")
MountRequest(c, r)    == DatasetRequest(c, r, "mount", "mount")
UnmountRequest(c, r)  == DatasetRequest(c, r, "unmount", "unmount")
MonitorRequest(c, r)  == DatasetRequest(c, r, "monitor", "usage")

DatasetEndpoint(c, r) ==
  \/ CreateRequest(c, r) \/ ListAllRequest(c, r) \/ GetRequest(c, r)
  \/ DeleteRequest(c, r) \/ SetRequest(c, r) \/ UsageRequest(c, r)
  \/ MountRequest(c, r) \/ UnmountRequest(c, r) \/ MonitorRequest(c, r)

-----------------------------------------------------------------------------
(* Reading. *)

Sees(c, field) ==
  /\ Present(Name(c))
  /\ view' = [view EXCEPT ![c][field] = ds[Name(c)].id]

ReadFails(c) == Answer(c, "failed") /\ UNCHANGED view

\* _dataset_exists: a list that fails, for whatever reason, reads as "it does not
\* exist".
DatasetExists(c) ==
  /\ pc[c] = "exists"
  /\ \E exists \in BOOLEAN :
       /\ exists => Present(Name(c))
       /\ IF exists = (Op(c) = "destroy") THEN Goto(c, Op(c)) ELSE Answer(c, "failed")
  /\ NoEffect /\ UNCHANGED datasetVars

\* The first command of get_dataset and the parsing of its answer.
DatasetInfo(c) ==
  /\ pc[c] = "info"
  /\ \/ Sees(c, "first") /\ Goto(c, "properties_of")
     \/ ReadFails(c)
  /\ NoEffect /\ UNCHANGED <<ds, ids>>

\* Mutant: properties that cannot be read are left empty.
DatasetProperties_Optional(c) ==
  /\ pc[c] = "properties_of"
  /\ \/ /\ Present(Name(c))
        /\ view' = [view EXCEPT ![c].second = ds[Name(c)].id,
                                ![c].version = ds[Name(c)].version]
     \/ view' = [view EXCEPT ![c].second = view[c].first]
  /\ Answer(c, "ok")
  /\ NoEffect /\ UNCHANGED <<ds, ids>>

\* _get_dataset_properties, the end of get_dataset and of create_dataset.
DatasetProperties(c) ==
  /\ pc[c] = "properties_of"
  /\ \/ /\ Present(Name(c))
        /\ view' = [view EXCEPT ![c].second = ds[Name(c)].id,
                                ![c].version = ds[Name(c)].version]
        /\ Answer(c, "ok")
     \/ ReadFails(c)
  /\ NoEffect /\ UNCHANGED <<ds, ids>>

\* What list_datasets shows leaves out every line it cannot parse.
ListDatasets(c) ==
  /\ pc[c] = "list"
  /\ \/ imported /\ Answer(c, "ok")
     \/ Answer(c, "failed")
  /\ NoEffect /\ UNCHANGED datasetVars

\* get_usage, on its own and twice in monitor_dataset_performance.
DatasetUsage(c) ==
  /\ pc[c] = "usage"
  /\ \/ Sees(c, "first") /\ Op(c) = "usage" /\ Answer(c, "ok")
     \/ /\ Op(c) = "monitor"
        /\ Sees(c, IF view[c].first = 0 THEN "first" ELSE "second")
        /\ Goto(c, "objset")
     \/ ReadFails(c)
  /\ NoEffect /\ UNCHANGED <<ds, ids>>

\* _get_dataset_iostats: `find` is not an allowed command, so it always falls
\* back to the statistics of the pool.
DatasetIostats(c) ==
  /\ pc[c] = "objset"
  /\ \/ Present(Name(c)) /\ Goto(c, "pool_iostat")
     \/ Answer(c, "failed")
  /\ NoEffect /\ UNCHANGED datasetVars

\* Mutant: the failure of zpool iostat is passed on as it is.
PoolIostats_Unset(c) ==
  /\ pc[c] = "pool_iostat"
  /\ \/ IF view[c].second = 0 THEN Goto(c, "wait") ELSE Answer(c, "ok")
     \/ Answer(c, "unknown")
  /\ NoEffect /\ UNCHANGED datasetVars

\* _get_pool_iostats_for_dataset: zeros when the command fails.
PoolIostats(c) ==
  /\ pc[c] = "pool_iostat"
  /\ IF view[c].second = 0 THEN Goto(c, "wait") ELSE Answer(c, "ok")
  /\ NoEffect /\ UNCHANGED datasetVars

MonitorWaits(c) ==
  /\ pc[c] = "wait"
  /\ Goto(c, "usage")
  /\ NoEffect /\ UNCHANGED datasetVars

-----------------------------------------------------------------------------
(* Changing datasets. *)

\* What c's command does when it does its work, and what c does then.
Works(c, outcome, work, next) ==
  /\ IF outcome = "failed" THEN NoEffect /\ UNCHANGED <<ds, ids>> ELSE work
  /\ IF outcome = "ok" THEN next ELSE Answer(c, "failed")
  /\ UNCHANGED <<poolVars, view>>

CreateDataset(c) ==
  /\ pc[c] = "create"
  /\ \E outcome \in Outcomes :
       Works(c, outcome,
         /\ imported /\ ds[Name(c)] = Absent /\ ids < MaxIds
         /\ \A n \in Names : Name(c) \in Under[n] => ds[n] # Absent
         /\ ids' = ids + 1
         /\ ds' = [ds EXCEPT ![Name(c)] = [id |-> ids + 1, version |-> 0, mounted |-> TRUE]]
         /\ Did(c, {<<"created", ids + 1, 0>>}),
         Goto(c, "info"))

\* Mutant: zfs destroy -r, whether or not it was asked for.
DestroyDataset_Recursive(c) ==
  /\ pc[c] = "destroy"
  /\ \E outcome \in Outcomes :
       LET gone == {Name(c)} \cup {n \in Under[Name(c)] : ds[n] # Absent}
       IN  Works(c, outcome,
             /\ Present(Name(c))
             /\ ds' = [n \in Names |-> IF n \in gone THEN Absent ELSE ds[n]]
             /\ Did(c, {<<"destroyed", ds[n].id, 0>> : n \in gone})
             /\ UNCHANGED ids,
             Answer(c, "ok"))

\* What zfs destroy -r removes is removed from below: nothing goes before what is
\* under it.  A command that fails half way leaves the rest.
DestroyDataset(c) ==
  /\ pc[c] = "destroy"
  /\ \E outcome \in Outcomes, gone \in SUBSET Names :
       LET below   == {n \in Under[Name(c)] : ds[n] # Absent}
           victims == {Name(c)} \cup below
       IN  /\ gone \subseteq victims
           /\ \A n \in gone : Under[n] \cap victims \subseteq gone
           /\ outcome = "ok" => gone = victims
           /\ outcome = "failed" => gone = {}
           /\ Works(c, outcome,
                /\ Present(Name(c))
                /\ req[c].recursive \/ below = {}
                /\ ds' = [n \in Names |-> IF n \in gone THEN Absent ELSE ds[n]]
                /\ Did(c, {<<"destroyed", ds[n].id, 0>> : n \in gone})
                /\ UNCHANGED ids,
                Answer(c, "ok"))

SetProperty(c) ==
  /\ pc[c] = "set"
  /\ \E outcome \in Outcomes :
       Works(c, outcome,
         /\ Present(Name(c)) /\ ds[Name(c)].version < MaxWrites
         /\ ds' = [ds EXCEPT ![Name(c)].version = @ + 1]
         /\ Did(c, {<<"set", ds[Name(c)].id, ds[Name(c)].version + 1>>})
         /\ UNCHANGED ids,
         Answer(c, "ok"))

\* zfs mount refuses a dataset that is mounted, zfs unmount one that is not.
Mounting(c, outcome, on, what) ==
  Works(c, outcome,
    /\ Present(Name(c)) /\ ds[Name(c)].mounted # on
    /\ ds' = [ds EXCEPT ![Name(c)].mounted = on]
    /\ Did(c, {<<what, ds[Name(c)].id, 0>>})
    /\ UNCHANGED ids,
    Answer(c, "ok"))

MountDataset(c) ==
  /\ pc[c] = "mount"
  /\ \E outcome \in Outcomes : Mounting(c, outcome, TRUE, "mounted")

UnmountDataset(c) ==
  /\ pc[c] = "unmount"
  /\ \E outcome \in Outcomes : Mounting(c, outcome, FALSE, "unmounted")

DatasetStep(c) ==
  \/ DatasetExists(c) \/ DatasetInfo(c) \/ DatasetProperties(c) \/ ListDatasets(c)
  \/ DatasetUsage(c) \/ DatasetIostats(c) \/ PoolIostats(c) \/ MonitorWaits(c)
  \/ CreateDataset(c) \/ DestroyDataset(c) \/ SetProperty(c)
  \/ MountDataset(c) \/ UnmountDataset(c)
===============================================================================
