-------------------------- MODULE ContainerMigration --------------------------
(***************************************************************************)
(* Concurrent container migrations: ContainerMigrationService              *)
(* (backend/services/container_migration_service.py) with the registry,    *)
(* the Docker daemons and rsync (backend/transfer_ops.py).                 *)
(*                                                                         *)
(* start_container_migration registers a record and creates one asyncio    *)
(* task per migration, _execute_container_migration.  The service runs in  *)
(* one event loop, so a task gives way only where it awaits a subprocess:  *)
(* before its first step, for the storage validation, and twice for every  *)
(* volume (mkdir on the target, then rsync).  pc[m] names the place where  *)
(* the task of m is suspended, an action is all the code from one place to *)
(* the next.  Docker calls and registry methods never suspend.             *)
(*                                                                         *)
(* Between two steps of a task the API may cancel or clean up the record,  *)
(* other migrations run, containers of both hosts write to what they have  *)
(* mounted, and source containers may be started again.                    *)
(***************************************************************************)
EXTENDS MigrationOrchestrator, DockerHosts

CONSTANTS Requests,       \* the requests clients may send
          Paths,          \* directories under target_base_path
          TargetPath,     \* volume -> base path / last component of its source
          InPlace,        \* volumes whose source path is also their target path
          MaxWrites,      \* bound: writes per volume that are told apart
          NoRequest, NoVolume

VARIABLES pc,             \* where the task of each migration is
          req,            \* the request each migration was started with
          todo,           \* its volumes that are not transferred yet
          cur,            \* the volume in transfer
          clean,          \* its rsync has had its source and target to itself
          held,           \* history: containers down since the stop step of m
          srcVer,         \* volume -> number of writes to it on the source
          tgtData         \* path -> the <<volume, version>> fragments in it

vars == <<active, hostVars, pc, req, todo, cur, clean, held, srcVer, tgtData>>

Suspended == {"scheduled", "storage", "mkdir", "rsync"}
Ended     == {"succeeded", "failed"}
PCs       == Suspended \cup Ended \cup {"idle", "rejected"}

Request == [kind : {"project", "containers"},
            containers : SUBSET Containers \ {{}},
            networks : SUBSET Networks]

Versions == 0..MaxWrites

\* Some of the files, files of several versions, or files that were written on
\* the target.
Torn == MaxWrites + 1

Fragments == Volumes \X (Versions \cup {Torn})

ASSUME MigrationAssumption ==
  /\ Requests \subseteq Request
  /\ TargetPath \in [Volumes -> Paths]
  /\ InPlace \subseteq Volumes
  /\ MaxWrites \in Nat
  /\ NoRequest \notin Request
  /\ NoVolume \notin Volumes
  /\ Nobody \notin MigrationIds

TypeOK ==
  /\ RegistryTypeOK
  /\ HostsTypeOK(MigrationIds)
  /\ pc \in [MigrationIds -> PCs]
  /\ req \in [MigrationIds -> Requests \cup {NoRequest}]
  /\ todo \in [MigrationIds -> SUBSET Volumes]
  /\ cur \in [MigrationIds -> Volumes \cup {NoVolume}]
  /\ clean \in [MigrationIds -> BOOLEAN]
  /\ held \in [MigrationIds -> SUBSET Containers]
  /\ srcVer \in [Volumes -> Versions]
  /\ tgtData \in [Paths -> SUBSET Fragments]

Init ==
  /\ active = EmptyRegistry
  /\ srcUp \in SUBSET Containers
  /\ tgtBy = [c \in Containers |-> Nobody]
  /\ tgtNets = {}
  /\ attached = [c \in Containers |-> {}]
  /\ pc = [m \in MigrationIds |-> "idle"]
  /\ req = [m \in MigrationIds |-> NoRequest]
  /\ todo = [m \in MigrationIds |-> {}]
  /\ cur = [m \in MigrationIds |-> NoVolume]
  /\ clean = [m \in MigrationIds |-> FALSE]
  /\ held = [m \in MigrationIds |-> {}]
  /\ srcVer = [v \in Volumes |-> 0]
  /\ tgtData = [p \in Paths |-> {}]

-----------------------------------------------------------------------------
(* The API: start, cancel, clean up. *)

\* Discovery, registration and create_task: nothing in between suspends.
Start(m, r) ==
  /\ pc[m] = "idle"
  /\ pc' = [pc EXCEPT ![m] = "scheduled"]
  /\ req' = [req EXCEPT ![m] = r]
  /\ todo' = [todo EXCEPT ![m] = VolumesOf(r.containers)]
  /\ active' = Register(active, m, "discovered", 5)
  /\ UNCHANGED <<hostVars, cur, clean, held, srcVer, tgtData>>

\* No container found, or discovery failed: update_error comes before any
\* registration and the id is lost.
StartRejected(m) ==
  /\ pc[m] = "idle"
  /\ pc' = [pc EXCEPT ![m] = "rejected"]
  /\ active' = UpdateError(active, m)
  /\ UNCHANGED <<hostVars, req, todo, cur, clean, held, srcVer, tgtData>>

Cancel(m) ==
  /\ CanCancel(active, m)
  /\ active' = MarkCancelled(active, m)
  /\ UNCHANGED <<hostVars, pc, req, todo, cur, clean, held, srcVer, tgtData>>

Cleanup(m) ==
  /\ Registered(active, m)
  /\ active' = Remove(active, m)
  /\ UNCHANGED <<hostVars, pc, req, todo, cur, clean, held, srcVer, tgtData>>

-----------------------------------------------------------------------------
(* The task of a migration.  reg is the registry after the updates the step *)
(* has made so far.                                                         *)

\* Mutant: the except clause only logs.
Fail_Silent(m, reg) ==
  /\ active' = reg
  /\ pc' = [pc EXCEPT ![m] = "failed"]
  /\ cur' = [cur EXCEPT ![m] = NoVolume]

\* An exception anywhere in the task: the except clause reports it; nothing
\* that was stopped, copied or created is undone.
Fail(m, reg) ==
  /\ active' = UpdateError(reg, m)
  /\ pc' = [pc EXCEPT ![m] = "failed"]
  /\ cur' = [cur EXCEPT ![m] = NoVolume]

\* transfer_via_rsync starts with the mkdir of the parent directory.
BeginTransfer(m, v) ==
  /\ pc' = [pc EXCEPT ![m] = "mkdir"]
  /\ cur' = [cur EXCEPT ![m] = v]

\* Pull images, create networks, recreate and connect containers, report.
Cutover(m, reg) ==
  LET cs      == req[m].containers
      created == UpdateStatus(reg, m, "recreating", 80)
  IN  /\ \E failed \in SUBSET req[m].networks : CreateNetworks(req[m].networks, failed)
      /\ \/ /\ \E made \in SUBSET cs : RunContainers(m, cs, made)
            /\ Fail(m, created)
            /\ UNCHANGED attached
         \/ /\ Conflicts(cs) = {}
            /\ RunContainers(m, cs, cs)
            /\ \E refused \in SUBSET Refusable(cs, tgtNets') :
                 ConnectContainers(cs, tgtNets', refused)
            /\ active' = UpdateStatus(created, m, "completed", 100)
            /\ pc' = [pc EXCEPT ![m] = "succeeded"]
            /\ cur' = [cur EXCEPT ![m] = NoVolume]

\* The volume loop: the next volume, an invalid path, or the steps after it.
NextVolume(m, reg, left) ==
  /\ todo' = [todo EXCEPT ![m] = left]
  /\ \/ /\ \E v \in left : BeginTransfer(m, v)
        /\ active' = reg
        /\ UNCHANGED <<tgtBy, tgtNets, attached>>
     \/ /\ left # {}
        /\ Fail(m, reg)
        /\ UNCHANGED <<tgtBy, tgtNets, attached>>
     \/ /\ left = {}
        /\ Cutover(m, reg)

\* First run of the task: Docker on the target answers or it does not.
TaskBegin(m) ==
  /\ pc[m] = "scheduled"
  /\ LET validating == UpdateStatus(active, m, "validating", 10)
     IN  \/ /\ active' = validating
            /\ pc' = [pc EXCEPT ![m] = "storage"]
            /\ UNCHANGED cur
         \/ Fail(m, validating)
  /\ UNCHANGED <<hostVars, req, todo, clean, held, srcVer, tgtData>>

\* Storage validation found no room, or could not tell.
StorageRefused(m) ==
  /\ pc[m] = "storage"
  /\ Fail(m, active)
  /\ UNCHANGED <<hostVars, req, todo, clean, held, srcVer, tgtData>>

\* The Docker daemon of the source could not be reached.
StopFails(m) ==
  /\ pc[m] = "storage"
  /\ req[m].kind = "containers"
  /\ Fail(m, UpdateStatus(active, m, "stopping", 20))
  /\ UNCHANGED <<hostVars, req, todo, clean, held, srcVer, tgtData>>

\* Stop the containers, unless they came from a compose file, and start the
\* transfer.
StopAndTransfer(m) ==
  LET cs == req[m].containers
  IN  /\ pc[m] = "storage"
      /\ \/ /\ req[m].kind = "project"
            /\ UNCHANGED <<srcUp, held>>
         \/ /\ req[m].kind = "containers"
            /\ \E missed \in SUBSET (cs \cap srcUp) :
                 /\ StopContainers(cs, missed)
                 /\ held' = [held EXCEPT ![m] = cs \ missed]
      /\ NextVolume(m, UpdateStatus(active, m, "migrating", 30), todo[m])
      /\ UNCHANGED <<req, clean, srcVer, tgtData>>

\* The other tasks whose rsync is writing the same target directory.
Sharing(m) ==
  {n \in MigrationIds \ {m} : pc[n] = "rsync" /\ TargetPath[cur[n]] = TargetPath[cur[m]]}

\* The mkdir is over, whatever its result; rsync --delete begins to write.
RsyncBegin(m) ==
  LET v == cur[m]
  IN  /\ pc[m] = "mkdir"
      /\ pc' = [pc EXCEPT ![m] = "rsync"]
      /\ clean' = [n \in MigrationIds |->
                     IF n = m THEN Sharing(m) = {} ELSE clean[n] /\ n \notin Sharing(m)]
      /\ tgtData' = [tgtData EXCEPT ![TargetPath[v]] = @ \cup {<<v, Torn>>}]
      /\ UNCHANGED <<active, hostVars, req, todo, cur, held, srcVer>>

\* rsync exits with 0.  --delete leaves an exact copy of what it read; if files
\* changed under it, or another rsync wrote them, the copy may be torn.
RsyncDone(m) ==
  LET v == cur[m]
      p == TargetPath[v]
  IN  /\ pc[m] = "rsync"
      /\ \E found \in SUBSET (tgtData[p] \cup {<<v, srcVer[v]>>}) :
           /\ clean[m] => found = {<<v, srcVer[v]>>}
           /\ \E fragment \in found : fragment[1] = v
           /\ tgtData' = [tgtData EXCEPT ![p] = found]
      /\ NextVolume(m, active, todo[m] \ {v})
      /\ UNCHANGED <<srcUp, req, clean, held, srcVer>>

\* Mutant: the result of rsync is ignored, as the result of mkdir is.
RsyncFails_Ignored(m) ==
  /\ pc[m] = "rsync"
  /\ NextVolume(m, active, todo[m] \ {cur[m]})
  /\ UNCHANGED <<srcUp, req, clean, held, srcVer, tgtData>>

RsyncFails(m) ==
  /\ pc[m] = "rsync"
  /\ Fail(m, active)
  /\ UNCHANGED <<hostVars, req, todo, clean, held, srcVer, tgtData>>

TaskStep(m) ==
  \/ TaskBegin(m)
  \/ StorageRefused(m) \/ StopFails(m) \/ StopAndTransfer(m)
  \/ RsyncBegin(m) \/ RsyncDone(m) \/ RsyncFails(m)

-----------------------------------------------------------------------------
(* The source host. *)

\* A running container writes to one of its volumes.
Write(v) ==
  /\ Users(v) \cap srcUp # {}
  /\ srcVer[v] < MaxWrites
  /\ srcVer' = [srcVer EXCEPT ![v] = @ + 1]
  /\ clean' = [m \in MigrationIds |-> clean[m] /\ cur[m] # v]
  /\ UNCHANGED <<active, hostVars, pc, req, todo, cur, held, tgtData>>

\* Somebody starts a container again: an operator, or start_remote_stack.
StartSource(c) ==
  /\ c \notin srcUp
  /\ srcUp' = srcUp \cup {c}
  /\ held' = [m \in MigrationIds |-> held[m] \ {c}]
  /\ UNCHANGED <<active, tgtBy, tgtNets, attached, pc, req, todo, cur, clean,
                 srcVer, tgtData>>

-----------------------------------------------------------------------------
(* The target host. *)

\* A recreated container writes to a volume.  The bindings it is run with are
\* the wrong way round (_build_container_config): the host path is that of the
\* source, the copy's path is where the container sees it.  So every container
\* of m has all volumes of m, but writes to a copy only if the copy lies at the
\* path of its source, which it does if the target base path is the directory
\* the source is in.
TargetWrite(m, v) ==
  /\ \E c \in Containers : tgtBy[c] = m
  /\ v \in VolumesOf(req[m].containers)
  /\ tgtData' = [tgtData EXCEPT ![TargetPath[v]] = @ \cup {<<v, Torn>>}]
  /\ clean' = [n \in MigrationIds |->
                 clean[n] /\ ~(pc[n] = "rsync" /\ TargetPath[cur[n]] = TargetPath[v])]
  /\ UNCHANGED <<active, hostVars, pc, req, todo, cur, held, srcVer>>

Next ==
  \/ \E m \in MigrationIds :
       \/ \E r \in Requests : Start(m, r)
       \/ StartRejected(m)
       \/ Cancel(m)
       \/ Cleanup(m)
       \/ TaskStep(m)
       \/ \E v \in InPlace : TargetWrite(m, v)
  \/ \E v \in Volumes : Write(v)
  \/ \E c \in Containers : StartSource(c)

Spec == Init /\ [][Next]_vars

\* The event loop resumes every task whose subprocess ended, and ssh and rsync
\* end; clients, containers and operators owe nothing.
FairSpec == Spec /\ \A m \in MigrationIds : WF_vars(TaskStep(m))

-----------------------------------------------------------------------------
(* Properties. *)

Status(m) == IF Registered(active, m) THEN active[m].status ELSE "none"

\* The record of an ended task carries the task's verdict: no client can turn
\* a completed or failed migration into a cancelled one (cancel_migration).
EndedTaskIsReported ==
  \A m \in MigrationIds : Registered(active, m) =>
    /\ pc[m] = "succeeded" <=> Status(m) = "completed"
    /\ pc[m] = "failed" <=> Status(m) = "failed"

\* Nothing of a migration runs on the target before all its volumes are there,
\* and "completed" means that it created every one of its containers itself,
\* whatever other migrations of the same containers did meanwhile.
CutoverAfterTransfer ==
  \A m \in MigrationIds :
    /\ \A c \in Containers : tgtBy[c] = m => todo[m] = {} /\ pc[m] \in Ended
    /\ Status(m) = "completed" =>
         todo[m] = {} /\ \A c \in req[m].containers : tgtBy[c] = m

\* Overlapping migrations (a retry, a name pattern matching the containers of
\* another request) never both succeed for one container.
SuccessIsExclusive ==
  \A m, n \in MigrationIds :
    pc[m] = "succeeded" /\ pc[n] = "succeeded" /\ m # n =>
      req[m].containers \cap req[n].containers = {}

Untouched(m) ==
  /\ todo[m] = VolumesOf(req[m].containers)
  /\ held[m] = {}

\* What an operator may conclude from the progress of a failed migration,
\* cancelled in between or not: up to 20 nothing was stopped or copied, at 30
\* a volume is missing, at 80 all data is there; below 80 nothing was created.
FailedProgressIsHonest ==
  \A m \in MigrationIds : Status(m) = "failed" =>
    /\ active[m].progress \in {10, 20, 30, 80}
    /\ active[m].progress \leq 20 => Untouched(m)
    /\ active[m].progress = 30 => todo[m] # {}
    /\ active[m].progress = 80 => todo[m] = {}
    /\ active[m].progress < 80 => \A c \in Containers : tgtBy[c] # m

\* No other volume, of m or of any other migration started so far, goes to
\* the directory of v, and no other migration transfers v.
PathPrivate(m, v) ==
  \A n \in MigrationIds : pc[n] \notin {"idle", "rejected"} =>
    \A w \in VolumesOf(req[n].containers) :
      TargetPath[w] = TargetPath[v] => n = m /\ w = v

\* No container of m has the copy of v to write to.
NotYetUsed(m, v) == v \in InPlace => \A c \in Containers : tgtBy[c] # m

\* Once m has transferred v, the target holds exactly the source's data, and
\* keeps doing so until a container of m itself may write to the copy, if every
\* container that mounts v has been down since the stop step of m and nothing
\* else is sent to the same directory.  A project migration stops nothing: it
\* says something of its volumes only if no container mounts them.
TransferredDataIsExact ==
  \A m \in MigrationIds :
    pc[m] \in {"mkdir", "rsync"} \cup Ended =>
      \A v \in VolumesOf(req[m].containers) \ todo[m] :
        Users(v) \subseteq held[m] /\ PathPrivate(m, v) /\ NotYetUsed(m, v) =>
          tgtData[TargetPath[v]] = {<<v, srcVer[v]>>}

LifeOf(m) ==
  IF Registered(active, m)
  THEN IF active[m].status \in Running THEN "running" ELSE active[m].status
  ELSE IF pc[m] = "idle" THEN "unused" ELSE "gone"

Lifecycle == INSTANCE MigrationLifecycle
               WITH life <- [m \in MigrationIds |-> LifeOf(m)]

\* The service keeps the promises of MigrationLifecycle to its clients.
LifecycleSpec == Lifecycle!Spec

\* Every registered migration is eventually reported completed or failed, or
\* cleaned up: no step of the task ends it without a report.  A cancelled
\* record is no exception, because its task keeps running.
RecordSettles ==
  \A m \in MigrationIds :
    Registered(active, m) ~> ~Registered(active, m) \/ Status(m) \in Finished

-----------------------------------------------------------------------------
(* A statement of the repository that the code does not keep, the property  *)
(* of a run that is expected to violate it.                                 *)

\* "Zero Data Loss Guarantee" (README.md): after a completed migration the data
\* of every volume is in its directory on the target.
CompletedKeepsAllVolumes ==
  \A m \in MigrationIds : Status(m) = "completed" =>
    \A v \in VolumesOf(req[m].containers) :
      \E fragment \in tgtData[TargetPath[v]] : fragment[1] = v
===============================================================================
