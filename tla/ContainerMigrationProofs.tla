----------------------- MODULE ContainerMigrationProofs -----------------------
(* Proofs about ContainerMigration for every value of its constants. *)
EXTENDS ContainerMigration, FiniteSetTheorems, TLAPS

Registries == [MigrationIds -> Record \cup {NoRecord}]

-----------------------------------------------------------------------------
(* The inductive invariant. *)

Started(m) == pc[m] \notin {"idle", "rejected"}

Uncreated(m) == \A c \in Containers : tgtBy[c] # m

\* Where the task of m is determines what it has done so far.
TaskShape(m) ==
  /\ ~Started(m) => ~Registered(active, m) /\ held[m] = {}
  /\ Started(m) => req[m] \in Requests /\ todo[m] \subseteq VolumesOf(req[m].containers)
  /\ pc[m] \in {"scheduled", "storage"} => Untouched(m)
  /\ pc[m] \in {"mkdir", "rsync"} => cur[m] \in todo[m]
  /\ pc[m] = "succeeded" => todo[m] = {} /\ \A c \in req[m].containers : tgtBy[c] = m
  /\ Uncreated(m) \/ (todo[m] = {} /\ pc[m] \in Ended)

\* The record of m follows its task: the verdict, and the progress last set.
RecordShape(m) ==
  Registered(active, m) =>
    /\ pc[m] = "succeeded" <=> active[m].status = "completed"
    /\ pc[m] = "failed" <=> active[m].status = "failed"
    /\ pc[m] = "scheduled" => active[m].progress = 5
    /\ pc[m] = "storage" => active[m].progress = 10
    /\ pc[m] \in {"mkdir", "rsync"} => active[m].progress = 30
    /\ pc[m] = "failed" =>
         /\ active[m].progress \in {10, 20, 30, 80}
         /\ active[m].progress \leq 20 => Untouched(m)
         /\ active[m].progress = 30 => todo[m] # {}
         /\ active[m].progress = 80 => todo[m] = {}
         /\ active[m].progress < 80 => Uncreated(m)

IInv ==
  /\ TypeOK
  /\ \A m \in MigrationIds : TaskShape(m) /\ RecordShape(m)

-----------------------------------------------------------------------------
(* The registry operators. *)

\* A method of the orchestrator keeps the registry a registry.
LEMMA UpdateType ==
  ASSUME NEW reg \in Registries, NEW m \in MigrationIds,
         NEW s \in Running \cup Terminal, NEW p \in 0..100
  PROVE  /\ Register(reg, m, s, p) \in Registries
         /\ UpdateStatus(reg, m, s, p) \in Registries
BY DEF Registries, Register, UpdateStatus, Record

LEMMA RelabelType ==
  ASSUME NEW reg \in Registries, NEW m \in MigrationIds
  PROVE  /\ UpdateError(reg, m) \in Registries
         /\ Remove(reg, m) \in Registries
         /\ Registered(reg, m) => MarkCancelled(reg, m) \in Registries
BY NoRecordAssumption
   DEF Registries, UpdateError, Remove, MarkCancelled, Registered, Record, Terminal, Finished

\* ... and changes no record but the one of its migration.
LEMMA RegistryFrame ==
  ASSUME NEW reg \in Registries, NEW m \in MigrationIds,
         NEW n \in MigrationIds \ {m}, NEW s, NEW p
  PROVE  /\ Register(reg, m, s, p)[n] = reg[n]
         /\ UpdateStatus(reg, m, s, p)[n] = reg[n]
         /\ UpdateError(reg, m)[n] = reg[n]
         /\ Remove(reg, m)[n] = reg[n]
         /\ MarkCancelled(reg, m)[n] = reg[n]
BY DEF Registries, Register, UpdateStatus, UpdateError, Remove, MarkCancelled

\* The records that the task writes.
LEMMA WrittenRecords ==
  /\ [status |-> "discovered", progress |-> 5] # NoRecord
  /\ [status |-> "validating", progress |-> 10] # NoRecord
  /\ [status |-> "stopping", progress |-> 20] # NoRecord
  /\ [status |-> "migrating", progress |-> 30] # NoRecord
  /\ [status |-> "recreating", progress |-> 80] # NoRecord
  /\ [status |-> "completed", progress |-> 100] # NoRecord
BY NoRecordAssumption DEF Record, Running, Terminal, Finished

\* The record of m itself, after the methods that keep its progress.
LEMMA RelabelEffect ==
  ASSUME NEW reg \in Registries, NEW m \in MigrationIds
  PROVE  /\ Registered(UpdateError(reg, m), m) <=> Registered(reg, m)
         /\ Registered(reg, m) =>
              /\ UpdateError(reg, m)[m].status = "failed"
              /\ UpdateError(reg, m)[m].progress = reg[m].progress
         /\ ~Registered(Remove(reg, m), m)
         /\ Registered(reg, m) =>
              /\ Registered(MarkCancelled(reg, m), m)
              /\ MarkCancelled(reg, m)[m].status = "cancelled"
              /\ MarkCancelled(reg, m)[m].progress = reg[m].progress
BY NoRecordAssumption
   DEF Registries, UpdateError, Remove, MarkCancelled, Registered, Record, Terminal, Finished

-----------------------------------------------------------------------------
(* Type correctness. *)

\* The variables that Fail, BeginTransfer and the cutover assign.
TaskTypes ==
  /\ active \in Registries
  /\ pc \in [MigrationIds -> PCs]
  /\ cur \in [MigrationIds -> Volumes \cup {NoVolume}]
  /\ tgtBy \in [Containers -> MigrationIds \cup {Nobody}]
  /\ tgtNets \subseteq Networks
  /\ attached \in [Containers -> SUBSET Networks]

\* Running containers on the target keeps its container map typed.
LEMMA RunContainersType ==
  ASSUME TypeOK, NEW m \in MigrationIds, NEW cs \in SUBSET Containers,
         NEW made, RunContainers(m, cs, made)
  PROVE  tgtBy' \in [Containers -> MigrationIds \cup {Nobody}]
BY DEF TypeOK, HostsTypeOK, RunContainers

\* A container is only ever connected to networks it belongs to.
LEMMA ConnectedNetworks ==
  ASSUME NEW c \in Containers, NEW nets \in SUBSET Networks, NEW refused
  PROVE  Connected(c, nets, refused) \subseteq Networks
<1>1. NetsOf[c] \in Seq(Networks \cup {Bridge})
  BY DockerAssumption
<1>2. \A i \in 2..Len(NetsOf[c]) : NetsOf[c][i] \in Networks \cup {Bridge}
  BY <1>1
<1>. QED  BY <1>2 DEF Connected

LEMMA NextVolumeType ==
  ASSUME TypeOK, NEW m \in MigrationIds, NEW reg \in Registries,
         NEW left \in SUBSET Volumes, req[m] \in Requests,
         NextVolume(m, reg, left)
  PROVE  TaskTypes' /\ todo' \in [MigrationIds -> SUBSET Volumes]
<1>1. todo' \in [MigrationIds -> SUBSET Volumes]
  BY DEF NextVolume, TypeOK
<1>2. CASE \E v \in left : /\ BeginTransfer(m, v) /\ active' = reg
                           /\ UNCHANGED <<tgtBy, tgtNets, attached>>
  BY <1>1, <1>2 DEF BeginTransfer, TypeOK, HostsTypeOK, TaskTypes, PCs, Suspended
<1>3. CASE Fail(m, reg) /\ UNCHANGED <<tgtBy, tgtNets, attached>>
  BY <1>1, <1>3, RelabelType
     DEF Fail, TypeOK, HostsTypeOK, TaskTypes, PCs, Ended
<1>4. CASE Cutover(m, reg)
  <2>. DEFINE cs == req[m].containers
              created == UpdateStatus(reg, m, "recreating", 80)
  <2>1. cs \in SUBSET Containers /\ req[m].networks \subseteq Networks
    BY MigrationAssumption DEF Request
  <2>2. created \in Registries
    BY UpdateType DEF Running
  <2>3. tgtNets' \subseteq Networks
    BY <1>4, <2>1 DEF Cutover, CreateNetworks, TypeOK, HostsTypeOK
  <2>4. CASE /\ \E made \in SUBSET cs : RunContainers(m, cs, made)
             /\ Fail(m, created)
             /\ UNCHANGED attached
    <3>1. tgtBy' \in [Containers -> MigrationIds \cup {Nobody}]
      BY <2>1, <2>4, RunContainersType
    <3>2. active' \in Registries
      BY <2>2, <2>4, RelabelType DEF Fail
    <3>. QED  BY <1>1, <2>3, <2>4, <3>1, <3>2
              DEF Fail, TypeOK, HostsTypeOK, TaskTypes, PCs, Ended
  <2>5. CASE /\ Conflicts(cs) = {}
             /\ RunContainers(m, cs, cs)
             /\ \E refused \in SUBSET Refusable(cs, tgtNets') :
                  ConnectContainers(cs, tgtNets', refused)
             /\ active' = UpdateStatus(created, m, "completed", 100)
             /\ pc' = [pc EXCEPT ![m] = "succeeded"]
             /\ cur' = [cur EXCEPT ![m] = NoVolume]
    <3>1. tgtBy' \in [Containers -> MigrationIds \cup {Nobody}]
      BY <2>1, <2>5, RunContainersType
    <3>2. active' \in Registries
      BY <2>2, <2>5, UpdateType DEF Terminal, Finished
    <3>3. attached' \in [Containers -> SUBSET Networks]
      BY <2>3, <2>5, ConnectedNetworks DEF ConnectContainers, TypeOK, HostsTypeOK
    <3>. QED  BY <1>1, <2>3, <2>5, <3>1, <3>2, <3>3
              DEF TypeOK, HostsTypeOK, TaskTypes, PCs, Ended
  <2>. QED  BY <1>4, <2>4, <2>5 DEF Cutover
<1>. QED  BY <1>2, <1>3, <1>4 DEF NextVolume

\* What the leaves below need of the constants and of the state.
LEMMA RequestFacts ==
  ASSUME NEW m \in MigrationIds, req[m] \in Requests
  PROVE  /\ req[m].containers \in SUBSET Containers
         /\ req[m].networks \in SUBSET Networks
         /\ VolumesOf(req[m].containers) \in SUBSET Volumes
BY MigrationAssumption, DockerAssumption DEF Request, VolumesOf

\* Every step keeps every variable in its type.
LEMMA TypeStep ==
  ASSUME TypeOK, \A m \in MigrationIds : TaskShape(m), [Next]_vars
  PROVE  TypeOK'
<1>. USE DEF RegistryTypeOK, HostsTypeOK
<1>r. active \in Registries
  BY DEF TypeOK, Registries
<1>1. CASE UNCHANGED vars
  BY <1>1 DEF TypeOK, vars, hostVars
<1>2. ASSUME NEW m \in MigrationIds, NEW r \in Requests, Start(m, r)
      PROVE  TypeOK'
  <2>1. active' \in Registries
    BY <1>2, <1>r, UpdateType DEF Start, Running
  <2>2. VolumesOf(r.containers) \in SUBSET Volumes
    BY MigrationAssumption, DockerAssumption DEF Request, VolumesOf
  <2>. QED  BY <1>2, <2>1, <2>2
            DEF Start, TypeOK, Registries, hostVars, PCs, Suspended
<1>3. ASSUME NEW m \in MigrationIds, StartRejected(m)
      PROVE  TypeOK'
  <2>1. active' \in Registries
    BY <1>3, <1>r, RelabelType DEF StartRejected
  <2>. QED  BY <1>3, <2>1 DEF StartRejected, TypeOK, Registries, hostVars, PCs
<1>4. ASSUME NEW m \in MigrationIds, Cancel(m) \/ Cleanup(m)
      PROVE  TypeOK'
  <2>1. active' \in Registries
    BY <1>4, <1>r, RelabelType DEF Cancel, CanCancel, Cleanup
  <2>. QED  BY <1>4, <2>1 DEF Cancel, Cleanup, TypeOK, Registries, hostVars
<1>5. ASSUME NEW m \in MigrationIds, TaskStep(m)
      PROVE  TypeOK'
  <2>1. CASE TaskBegin(m)
    <3>1. UpdateStatus(active, m, "validating", 10) \in Registries
      BY <1>r, UpdateType DEF Running
    <3>2. active' \in Registries
      BY <2>1, <3>1, RelabelType DEF TaskBegin, Fail
    <3>. QED  BY <2>1, <3>2
              DEF TaskBegin, Fail, TypeOK, Registries, hostVars, PCs, Suspended, Ended
  <2>2. CASE StorageRefused(m) \/ StopFails(m) \/ RsyncFails(m)
    <3>1. UpdateStatus(active, m, "stopping", 20) \in Registries
      BY <1>r, UpdateType DEF Running
    <3>2. active' \in Registries
      BY <2>2, <1>r, <3>1, RelabelType DEF StorageRefused, StopFails, RsyncFails, Fail
    <3>. QED  BY <2>2, <3>2
              DEF StorageRefused, StopFails, RsyncFails, Fail, TypeOK, Registries,
                  hostVars, PCs, Ended
  <2>3. CASE StopAndTransfer(m)
    <3>1. req[m] \in Requests
      BY <2>3 DEF StopAndTransfer, TaskShape, Started
    <3>2. UpdateStatus(active, m, "migrating", 30) \in Registries
      BY <1>r, UpdateType DEF Running
    <3>3. TaskTypes' /\ todo' \in [MigrationIds -> SUBSET Volumes]
      BY <2>3, <3>1, <3>2, NextVolumeType DEF StopAndTransfer, TypeOK
    <3>4. srcUp' \subseteq Containers /\ held' \in [MigrationIds -> SUBSET Containers]
      BY <2>3, <3>1, RequestFacts DEF StopAndTransfer, StopContainers, TypeOK
    <3>. QED  BY <2>3, <3>3, <3>4 DEF StopAndTransfer, TypeOK, TaskTypes, Registries
  <2>4. CASE RsyncBegin(m)
    <3>1. cur[m] \in Volumes
      BY <2>4 DEF RsyncBegin, TaskShape, TypeOK
    <3>2. tgtData' \in [Paths -> SUBSET Fragments]
      <4>1. <<cur[m], Torn>> \in Fragments
        BY <3>1 DEF TypeOK, Fragments
      <4>. QED  BY <2>4, <4>1 DEF RsyncBegin, TypeOK
    <3>3. clean' \in [MigrationIds -> BOOLEAN]
      BY <2>4 DEF RsyncBegin, TypeOK
    <3>. QED  BY <2>4, <3>2, <3>3 DEF RsyncBegin, TypeOK, hostVars, PCs, Suspended
  <2>5. CASE RsyncDone(m)
    <3>1. req[m] \in Requests /\ cur[m] \in Volumes
      BY <2>5 DEF RsyncDone, TaskShape, Started, TypeOK
    <3>2. tgtData' \in [Paths -> SUBSET Fragments]
      BY <2>5, <3>1, MigrationAssumption DEF RsyncDone, TypeOK, Fragments
    <3>3. TaskTypes' /\ todo' \in [MigrationIds -> SUBSET Volumes]
      BY <2>5, <1>r, <3>1, NextVolumeType DEF RsyncDone, TypeOK
    <3>. QED  BY <2>5, <3>2, <3>3 DEF RsyncDone, TypeOK, TaskTypes, Registries
  <2>. QED  BY <1>5, <2>1, <2>2, <2>3, <2>4, <2>5 DEF TaskStep
<1>6. ASSUME NEW v \in Volumes, Write(v)
      PROVE  TypeOK'
  <2>1. srcVer' \in [Volumes -> Versions]
    BY <1>6, MigrationAssumption DEF Write, TypeOK, Versions
  <2>. QED  BY <1>6, <2>1 DEF Write, TypeOK, hostVars
<1>7. ASSUME NEW c \in Containers, StartSource(c)
      PROVE  TypeOK'
  BY <1>7 DEF StartSource, TypeOK
<1>8. ASSUME NEW m \in MigrationIds, NEW v \in InPlace, TargetWrite(m, v)
      PROVE  TypeOK'
  <2>1. <<v, Torn>> \in Fragments
    BY MigrationAssumption DEF Fragments
  <2>. QED  BY <1>8, <2>1 DEF TargetWrite, TypeOK, hostVars
<1>. QED  BY <1>1, <1>2, <1>3, <1>4, <1>5, <1>6, <1>7, <1>8 DEF Next

-----------------------------------------------------------------------------
(* A step of one migration leaves the shape of the others alone.            *)

\* Nothing that TaskShape and RecordShape say of n is disturbed.
Quiet(n) ==
  /\ active'[n] = active[n]
  /\ pc'[n] = pc[n]
  /\ req'[n] = req[n]
  /\ todo'[n] = todo[n]
  /\ cur'[n] = cur[n]
  /\ held'[n] \subseteq held[n]
  /\ \A c \in Containers : tgtBy'[c] = n <=> tgtBy[c] = n

LEMMA QuietKeepsShape ==
  ASSUME NEW n \in MigrationIds, TypeOK, TypeOK', TaskShape(n), RecordShape(n), Quiet(n)
  PROVE  TaskShape(n)' /\ RecordShape(n)'
<1>1. /\ Registered(active, n)' <=> Registered(active, n)
      /\ Started(n)' <=> Started(n)
      /\ Uncreated(n)' <=> Uncreated(n)
      /\ Untouched(n) => Untouched(n)'
  BY DEF Quiet, Registered, Started, Uncreated, Untouched
<1>2. TaskShape(n)'
  <2>1. pc[n] = "succeeded" => \A c \in req[n].containers : c \in Containers
    BY MigrationAssumption DEF TaskShape, Started, Request
  <2>. QED  BY <1>1, <2>1 DEF Quiet, TaskShape
<1>3. RecordShape(n)'
  BY <1>1 DEF Quiet, RecordShape
<1>. QED  BY <1>2, <1>3

LEMMA RunContainersFrame ==
  ASSUME TypeOK, NEW m \in MigrationIds, NEW n \in MigrationIds \ {m},
         NEW cs \in SUBSET Containers, NEW made, RunContainers(m, cs, made)
  PROVE  \A c \in Containers : tgtBy'[c] = n <=> tgtBy[c] = n
<1>1. \A c \in made : tgtBy[c] = Nobody
  BY DEF RunContainers, Conflicts
<1>2. \A c \in Containers : tgtBy'[c] = IF c \in made THEN m ELSE tgtBy[c]
  BY DEF RunContainers
<1>. QED  BY <1>1, <1>2, MigrationAssumption

LEMMA FailFrame ==
  ASSUME TypeOK, NEW m \in MigrationIds, NEW n \in MigrationIds \ {m},
         NEW reg \in Registries, Fail(m, reg)
  PROVE  active'[n] = reg[n] /\ pc'[n] = pc[n] /\ cur'[n] = cur[n]
BY RegistryFrame DEF Fail, TypeOK

LEMMA NextVolumeFrame ==
  ASSUME TypeOK, NEW m \in MigrationIds, NEW n \in MigrationIds \ {m},
         NEW reg \in Registries, NEW left, req[m] \in Requests,
         NextVolume(m, reg, left)
  PROVE  /\ active'[n] = reg[n] /\ pc'[n] = pc[n] /\ cur'[n] = cur[n]
         /\ todo'[n] = todo[n]
         /\ \A c \in Containers : tgtBy'[c] = n <=> tgtBy[c] = n
<1>1. todo'[n] = todo[n]
  BY DEF NextVolume, TypeOK
<1>2. CASE \E v \in left : /\ BeginTransfer(m, v) /\ active' = reg
                           /\ UNCHANGED <<tgtBy, tgtNets, attached>>
  BY <1>1, <1>2 DEF BeginTransfer, TypeOK
<1>3. CASE Fail(m, reg) /\ UNCHANGED <<tgtBy, tgtNets, attached>>
  BY <1>1, <1>3, FailFrame
<1>4. CASE Cutover(m, reg)
  <2>. DEFINE created == UpdateStatus(reg, m, "recreating", 80)
  <2>1. created \in Registries /\ created[n] = reg[n]
    BY UpdateType, RegistryFrame DEF Running
  <2>2. \A c \in Containers : tgtBy'[c] = n <=> tgtBy[c] = n
    <3>1. \E made : RunContainers(m, req[m].containers, made)
      BY <1>4 DEF Cutover
    <3>. QED  BY <3>1, RequestFacts, RunContainersFrame
  <2>3. CASE Fail(m, created)
    BY <1>1, <2>1, <2>2, <2>3, FailFrame
  <2>4. CASE /\ active' = UpdateStatus(created, m, "completed", 100)
             /\ pc' = [pc EXCEPT ![m] = "succeeded"]
             /\ cur' = [cur EXCEPT ![m] = NoVolume]
    <3>1. active'[n] = reg[n]
      BY <2>1, <2>4, RegistryFrame
    <3>. QED  BY <1>1, <2>2, <2>4, <3>1 DEF TypeOK
  <2>. QED  BY <1>4, <2>3, <2>4 DEF Cutover
<1>. QED  BY <1>2, <1>3, <1>4 DEF NextVolume

\* The actions of one migration do not disturb another one.
LEMMA ActionFrame ==
  ASSUME TypeOK, NEW m \in MigrationIds, NEW n \in MigrationIds \ {m}, TaskShape(m),
         \/ \E r \in Requests : Start(m, r)
         \/ StartRejected(m) \/ Cancel(m) \/ Cleanup(m) \/ TaskStep(m)
  PROVE  Quiet(n)
<1>r. active \in Registries
  BY DEF TypeOK, RegistryTypeOK, Registries
<1>. USE DEF Quiet, hostVars
<1>1. CASE \E r \in Requests : Start(m, r)
  BY <1>1, <1>r, RegistryFrame DEF Start, TypeOK
<1>2. CASE StartRejected(m) \/ Cancel(m) \/ Cleanup(m)
  BY <1>2, <1>r, RegistryFrame DEF StartRejected, Cancel, Cleanup, TypeOK
<1>3. CASE TaskStep(m)
  <2>1. CASE TaskBegin(m)
    <3>1. /\ UpdateStatus(active, m, "validating", 10) \in Registries
          /\ UpdateStatus(active, m, "validating", 10)[n] = active[n]
      BY <1>r, UpdateType, RegistryFrame DEF Running
    <3>. QED  BY <2>1, <3>1, FailFrame DEF TaskBegin, TypeOK
  <2>2. CASE StorageRefused(m) \/ StopFails(m) \/ RsyncFails(m)
    <3>1. /\ UpdateStatus(active, m, "stopping", 20) \in Registries
          /\ UpdateStatus(active, m, "stopping", 20)[n] = active[n]
      BY <1>r, UpdateType, RegistryFrame DEF Running
    <3>. QED  BY <2>2, <1>r, <3>1, FailFrame DEF StorageRefused, StopFails, RsyncFails
  <2>3. CASE StopAndTransfer(m)
    <3>1. /\ UpdateStatus(active, m, "migrating", 30) \in Registries
          /\ UpdateStatus(active, m, "migrating", 30)[n] = active[n]
      BY <1>r, UpdateType, RegistryFrame DEF Running
    <3>2. req[m] \in Requests
      BY <2>3 DEF StopAndTransfer, TaskShape, Started
    <3>3. held'[n] = held[n]
      BY <2>3 DEF StopAndTransfer, TypeOK
    <3>. QED  BY <2>3, <3>1, <3>2, <3>3, NextVolumeFrame DEF StopAndTransfer
  <2>4. CASE RsyncBegin(m)
    BY <2>4 DEF RsyncBegin, TypeOK
  <2>5. CASE RsyncDone(m)
    <3>1. req[m] \in Requests
      BY <2>5 DEF RsyncDone, TaskShape, Started
    <3>. QED  BY <2>5, <1>r, <3>1, NextVolumeFrame DEF RsyncDone
  <2>. QED  BY <1>3, <2>1, <2>2, <2>3, <2>4, <2>5 DEF TaskStep
<1>. QED  BY <1>1, <1>2, <1>3

-----------------------------------------------------------------------------
(* A step of m brings m from one shape to the next.                         *)

\* The record of m, if the registry still had one before the update.
Recorded(reg, m, s, p) ==
  /\ Registered(active', m) <=> Registered(reg, m)
  /\ Registered(reg, m) => active'[m].status = s /\ active'[m].progress = p

LEMMA FailOutcome ==
  ASSUME TypeOK, NEW m \in MigrationIds, NEW reg \in Registries, Fail(m, reg)
  PROVE  pc'[m] = "failed" /\ Recorded(reg, m, "failed", reg[m].progress)
BY RelabelEffect DEF Fail, TypeOK, Recorded, Registered

LEMMA NextVolumeOutcome ==
  ASSUME TypeOK, NEW m \in MigrationIds, NEW reg \in Registries, NEW left,
         req[m] \in Requests, Uncreated(m), NextVolume(m, reg, left)
  PROVE  /\ todo'[m] = left
         /\ \/ /\ pc'[m] = "mkdir" /\ cur'[m] \in left
               /\ active'[m] = reg[m] /\ Uncreated(m)'
            \/ /\ pc'[m] = "failed" /\ left # {}
               /\ Recorded(reg, m, "failed", reg[m].progress) /\ Uncreated(m)'
            \/ /\ pc'[m] = "failed" /\ left = {}
               /\ Recorded(reg, m, "failed", 80)
            \/ /\ pc'[m] = "succeeded" /\ left = {}
               /\ Recorded(reg, m, "completed", 100)
               /\ \A c \in req[m].containers : tgtBy'[c] = m
<1>1. todo'[m] = left
  BY DEF NextVolume, TypeOK
<1>2. CASE \E v \in left : /\ BeginTransfer(m, v) /\ active' = reg
                           /\ UNCHANGED <<tgtBy, tgtNets, attached>>
  BY <1>1, <1>2 DEF BeginTransfer, TypeOK, Uncreated
<1>3. CASE left # {} /\ Fail(m, reg) /\ UNCHANGED <<tgtBy, tgtNets, attached>>
  BY <1>1, <1>3, FailOutcome DEF Uncreated
<1>4. CASE left = {} /\ Cutover(m, reg)
  <2>. DEFINE created == UpdateStatus(reg, m, "recreating", 80)
  <2>1. /\ created \in Registries
        /\ Registered(created, m) <=> Registered(reg, m)
        /\ Registered(reg, m) => created[m].progress = 80
    <3>1. created \in Registries
      BY UpdateType DEF Running
    <3>. QED  BY <3>1, WrittenRecords DEF UpdateStatus, Registries, Registered
  <2>2. CASE Fail(m, created)
    BY <1>1, <1>4, <2>1, <2>2, FailOutcome DEF Recorded, Registered
  <2>3. CASE /\ RunContainers(m, req[m].containers, req[m].containers)
             /\ active' = UpdateStatus(created, m, "completed", 100)
             /\ pc' = [pc EXCEPT ![m] = "succeeded"]
    <3>1. Recorded(created, m, "completed", 100)
      BY <2>1, <2>3, WrittenRecords DEF Registered, Recorded, UpdateStatus, Registries
    <3>2. \A c \in req[m].containers : tgtBy'[c] = m
      BY <2>3, RequestFacts DEF RunContainers
    <3>. QED  BY <1>1, <1>4, <2>1, <2>3, <3>1, <3>2 DEF Recorded, TypeOK
  <2>. QED  BY <1>4, <2>2, <2>3 DEF Cutover
<1>. QED  BY <1>2, <1>3, <1>4 DEF NextVolume

LEMMA ActionShape ==
  ASSUME TypeOK, TypeOK', NEW m \in MigrationIds, TaskShape(m), RecordShape(m),
         \/ \E r \in Requests : Start(m, r)
         \/ StartRejected(m) \/ Cancel(m) \/ Cleanup(m) \/ TaskStep(m)
  PROVE  TaskShape(m)' /\ RecordShape(m)'
<1>r. active \in Registries
  BY DEF TypeOK, RegistryTypeOK, Registries
<1>. USE DEF hostVars, Ended
<1>1. ASSUME NEW r \in Requests, Start(m, r)
      PROVE  TaskShape(m)' /\ RecordShape(m)'
  <2>1. Registered(active', m) /\ active'[m] = [status |-> "discovered", progress |-> 5]
    BY <1>1, <1>r, WrittenRecords DEF Registered, Start, Register, Registries
  <2>. QED  BY <1>1, <1>r, <2>1
            DEF Start, TaskShape, RecordShape, Started, Uncreated, Untouched, TypeOK
<1>2. CASE StartRejected(m)
  <2>1. ~Registered(active', m)
    BY <1>2, <1>r, RelabelEffect DEF StartRejected, TaskShape, Started
  <2>. QED  BY <1>2, <2>1
            DEF StartRejected, TaskShape, RecordShape, Started, Uncreated, Untouched, TypeOK
<1>3. CASE Cancel(m)
  <2>1. /\ Registered(active, m) /\ active[m].status \notin Terminal
        /\ active'[m].status = "cancelled" /\ active'[m].progress = active[m].progress
    BY <1>3, <1>r, RelabelEffect DEF Cancel, CanCancel
  <2>. QED  BY <1>3, <2>1
            DEF Cancel, TaskShape, RecordShape, Started, Uncreated, Untouched, Terminal,
                Finished, Registered
<1>4. CASE Cleanup(m)
  <2>1. ~Registered(active', m)
    BY <1>4, <1>r, RelabelEffect DEF Cleanup
  <2>. QED  BY <1>4, <2>1
            DEF Cleanup, TaskShape, RecordShape, Started, Uncreated, Untouched
<1>5. CASE TaskBegin(m)
  <2>. DEFINE validating == UpdateStatus(active, m, "validating", 10)
  <2>1. /\ validating \in Registries
        /\ Registered(validating, m) <=> Registered(active, m)
        /\ Registered(active, m) => validating[m] = [status |-> "validating", progress |-> 10]
    <3>1. UpdateStatus(active, m, "validating", 10) \in Registries
      BY <1>r, UpdateType DEF Running
    <3>. QED  BY <1>r, <3>1, WrittenRecords DEF UpdateStatus, Registries, Registered
  <2>2. /\ todo'[m] = todo[m] /\ req'[m] = req[m] /\ held'[m] = held[m]
        /\ Untouched(m) /\ Uncreated(m) /\ Started(m)
    BY <1>5 DEF TaskBegin, TaskShape, Started, Suspended
  <2>3. /\ Untouched(m)' /\ Uncreated(m)' /\ req'[m] \in Requests
        /\ todo'[m] \subseteq VolumesOf(req'[m].containers)
    BY <1>5, <2>2 DEF TaskBegin, TaskShape, Untouched, Uncreated
  <2>4. CASE active' = validating /\ pc' = [pc EXCEPT ![m] = "storage"]
    BY <2>1, <2>3, <2>4 DEF TaskShape, RecordShape, Started, TypeOK, Registered
  <2>5. CASE Fail(m, validating)
    <3>1. pc'[m] = "failed" /\ Recorded(validating, m, "failed", validating[m].progress)
      BY <2>1, <2>5, FailOutcome
    <3>. QED  BY <2>1, <2>3, <3>1 DEF Recorded, TaskShape, RecordShape, Started, Registered
  <2>. QED  BY <1>5, <2>4, <2>5 DEF TaskBegin
<1>6. CASE StorageRefused(m) \/ StopFails(m)
  <2>. DEFINE stopping == UpdateStatus(active, m, "stopping", 20)
  <2>1. /\ stopping \in Registries
        /\ Registered(stopping, m) <=> Registered(active, m)
        /\ Registered(active, m) => stopping[m] = [status |-> "stopping", progress |-> 20]
    <3>1. UpdateStatus(active, m, "stopping", 20) \in Registries
      BY <1>r, UpdateType DEF Running
    <3>. QED  BY <1>r, <3>1, WrittenRecords DEF UpdateStatus, Registries, Registered
  <2>2. /\ Untouched(m)' /\ Uncreated(m)' /\ req'[m] \in Requests
        /\ todo'[m] \subseteq VolumesOf(req'[m].containers)
        /\ Registered(active, m) => active[m].progress = 10
    BY <1>6 DEF StorageRefused, StopFails, TaskShape, RecordShape, Untouched, Uncreated,
                Started
  <2>3. /\ pc'[m] = "failed"
        /\ Recorded(active, m, "failed", 10) \/ Recorded(active, m, "failed", 20)
    BY <1>6, <1>r, <2>1, <2>2, FailOutcome DEF StorageRefused, StopFails, Recorded, Registered
  <2>. QED  BY <2>2, <2>3 DEF Recorded, TaskShape, RecordShape, Started, Registered
<1>7. CASE RsyncFails(m)
  <2>1. /\ Uncreated(m)' /\ req'[m] \in Requests /\ todo'[m] # {}
        /\ todo'[m] \subseteq VolumesOf(req'[m].containers)
        /\ Registered(active, m) => active[m].progress = 30
    BY <1>7 DEF RsyncFails, TaskShape, RecordShape, Uncreated, Started
  <2>2. pc'[m] = "failed" /\ Recorded(active, m, "failed", 30)
    BY <1>7, <1>r, <2>1, FailOutcome DEF RsyncFails, Recorded
  <2>. QED  BY <2>1, <2>2 DEF Recorded, TaskShape, RecordShape, Started, Registered
<1>8. CASE RsyncBegin(m)
  BY <1>8 DEF RsyncBegin, TaskShape, RecordShape, Started, Uncreated, Untouched, TypeOK,
              Registered
<1>9. ASSUME NEW reg \in Registries, NEW left, req' = req,
             Registered(reg, m) <=> Registered(active, m),
             Registered(reg, m) => reg[m].status \notin Finished /\ reg[m].progress = 30,
             req[m] \in Requests, left \subseteq VolumesOf(req[m].containers),
             Uncreated(m), NextVolume(m, reg, left)
      PROVE  TaskShape(m)' /\ RecordShape(m)'
  <2>1. todo'[m] = left /\ req'[m] = req[m]
    BY <1>9, NextVolumeOutcome
  <2>2. CASE /\ pc'[m] = "mkdir" /\ cur'[m] \in left
             /\ active'[m] = reg[m] /\ Uncreated(m)'
    BY <1>9, <2>1, <2>2 DEF TaskShape, RecordShape, Started, Registered, Finished
  <2>3. CASE /\ pc'[m] = "failed" /\ left # {}
             /\ Recorded(reg, m, "failed", reg[m].progress) /\ Uncreated(m)'
    BY <1>9, <2>1, <2>3 DEF TaskShape, RecordShape, Started, Registered, Recorded
  <2>4. CASE pc'[m] = "failed" /\ left = {} /\ Recorded(reg, m, "failed", 80)
    BY <1>9, <2>1, <2>4 DEF TaskShape, RecordShape, Started, Registered, Recorded
  <2>5. CASE /\ pc'[m] = "succeeded" /\ left = {}
             /\ Recorded(reg, m, "completed", 100)
             /\ \A c \in req[m].containers : tgtBy'[c] = m
    BY <1>9, <2>1, <2>5 DEF TaskShape, RecordShape, Started, Registered, Recorded
  <2>. QED  BY <1>9, <2>2, <2>3, <2>4, <2>5, NextVolumeOutcome
<1>10. CASE StopAndTransfer(m)
  <2>. DEFINE migrating == UpdateStatus(active, m, "migrating", 30)
  <2>1. /\ migrating \in Registries
        /\ Registered(migrating, m) <=> Registered(active, m)
        /\ Registered(active, m) => migrating[m] = [status |-> "migrating", progress |-> 30]
    <3>1. UpdateStatus(active, m, "migrating", 30) \in Registries
      BY <1>r, UpdateType DEF Running
    <3>. QED  BY <1>r, <3>1, WrittenRecords DEF UpdateStatus, Registries, Registered
  <2>2. req' = req /\ NextVolume(m, migrating, todo[m]) /\ pc[m] = "storage"
    BY <1>10 DEF StopAndTransfer
  <2>3. /\ req[m] \in Requests /\ Uncreated(m)
        /\ todo[m] \subseteq VolumesOf(req[m].containers)
    BY <2>2 DEF TaskShape, Started
  <2>. QED  BY <1>9, <2>1, <2>2, <2>3 DEF Finished
<1>11. CASE RsyncDone(m)
  <2>1. req' = req /\ NextVolume(m, active, todo[m] \ {cur[m]}) /\ pc[m] = "rsync"
    BY <1>11 DEF RsyncDone
  <2>2. /\ req[m] \in Requests /\ Uncreated(m)
        /\ todo[m] \subseteq VolumesOf(req[m].containers)
    BY <2>1 DEF TaskShape, Started
  <2>3. Registered(active, m) => active[m].status \notin Finished /\ active[m].progress = 30
    BY <2>1 DEF RecordShape, Finished
  <2>. QED  BY <1>r, <1>9, <2>1, <2>2, <2>3
<1>. QED  BY <1>1, <1>2, <1>3, <1>4, <1>5, <1>6, <1>7, <1>8, <1>10, <1>11 DEF TaskStep

-----------------------------------------------------------------------------
(* The inductive invariant, and what follows from it. *)

LEMMA InitIInv == Init => IInv
<1>. SUFFICES ASSUME Init PROVE IInv
  OBVIOUS
<1>1. TypeOK
  BY MigrationAssumption, DockerAssumption
     DEF Init, TypeOK, RegistryTypeOK, HostsTypeOK, EmptyRegistry, PCs, Versions
<1>2. ASSUME NEW m \in MigrationIds PROVE TaskShape(m) /\ RecordShape(m)
  BY MigrationAssumption
     DEF Init, TaskShape, RecordShape, Started, Uncreated, Registered, EmptyRegistry
<1>. QED  BY <1>1, <1>2 DEF IInv

LEMMA NextIInv == IInv /\ [Next]_vars => IInv'
<1>. SUFFICES ASSUME IInv, [Next]_vars PROVE IInv'
  OBVIOUS
<1>1. TypeOK /\ TypeOK'
  BY TypeStep DEF IInv
<1>2. ASSUME NEW n \in MigrationIds, Quiet(n) PROVE TaskShape(n)' /\ RecordShape(n)'
  BY <1>1, <1>2, QuietKeepsShape DEF IInv
<1>3. CASE UNCHANGED vars
  BY <1>1, <1>2, <1>3 DEF IInv, Quiet, vars, hostVars
<1>4. ASSUME NEW m \in MigrationIds,
             \/ \E r \in Requests : Start(m, r)
             \/ StartRejected(m) \/ Cancel(m) \/ Cleanup(m) \/ TaskStep(m)
      PROVE  IInv'
  <2>1. TaskShape(m)' /\ RecordShape(m)'
    BY <1>1, <1>4, ActionShape DEF IInv
  <2>2. ASSUME NEW n \in MigrationIds \ {m} PROVE TaskShape(n)' /\ RecordShape(n)'
    BY <1>1, <1>2, <1>4, ActionFrame DEF IInv
  <2>. QED  BY <1>1, <2>1, <2>2 DEF IInv
<1>5. ASSUME NEW v \in Volumes, Write(v) PROVE IInv'
  BY <1>1, <1>2, <1>5 DEF IInv, Quiet, Write, hostVars
<1>6. ASSUME NEW c \in Containers, StartSource(c) PROVE IInv'
  BY <1>1, <1>2, <1>6 DEF IInv, Quiet, StartSource, TypeOK
<1>7. ASSUME NEW m \in MigrationIds, NEW v \in InPlace, TargetWrite(m, v) PROVE IInv'
  BY <1>1, <1>2, <1>7 DEF IInv, Quiet, TargetWrite, hostVars
<1>. QED  BY <1>3, <1>4, <1>5, <1>6, <1>7 DEF Next

LEMMA Inductive == Spec => []IInv
BY InitIInv, NextIInv, PTL DEF Spec

\* Every reachable state is well typed, whatever the requests, the mounts and
\* the number of migrations.
THEOREM TypeCorrect == Spec => []TypeOK
<1>1. IInv => TypeOK
  BY DEF IInv
<1>. QED  BY <1>1, Inductive, PTL

\* The registry never contradicts the task: a record says "completed" or
\* "failed" exactly when the task ended that way.
THEOREM ReportedCorrect == Spec => []EndedTaskIsReported
<1>1. IInv => EndedTaskIsReported
  BY DEF IInv, RecordShape, EndedTaskIsReported, Status
<1>. QED  BY <1>1, Inductive, PTL

\* Containers appear on the target only after all the data of their migration,
\* and a completed migration created every one of its own.
THEOREM CutoverCorrect == Spec => []CutoverAfterTransfer
<1>1. IInv => CutoverAfterTransfer
  <2>. SUFFICES ASSUME IInv, NEW m \in MigrationIds
                PROVE  /\ \A c \in Containers : tgtBy[c] = m => todo[m] = {} /\ pc[m] \in Ended
                       /\ Status(m) = "completed" =>
                            todo[m] = {} /\ \A c \in req[m].containers : tgtBy[c] = m
    BY DEF CutoverAfterTransfer
  <2>1. TaskShape(m) /\ RecordShape(m)
    BY DEF IInv
  <2>2. Status(m) = "completed" => pc[m] = "succeeded"
    BY <2>1 DEF RecordShape, Status
  <2>. QED  BY <2>1, <2>2 DEF TaskShape, Uncreated
<1>. QED  BY <1>1, Inductive, PTL

\* Two migrations that both succeeded have no container in common.
THEOREM ExclusiveCorrect == Spec => []SuccessIsExclusive
<1>1. IInv => SuccessIsExclusive
  BY DEF IInv, TaskShape, SuccessIsExclusive
<1>. QED  BY <1>1, Inductive, PTL

\* The progress of a failed record tells how far the migration went.
THEOREM ProgressCorrect == Spec => []FailedProgressIsHonest
<1>1. IInv => FailedProgressIsHonest
  <2>. SUFFICES ASSUME IInv, NEW m \in MigrationIds, Status(m) = "failed"
                PROVE  /\ active[m].progress \in {10, 20, 30, 80}
                       /\ active[m].progress \leq 20 => Untouched(m)
                       /\ active[m].progress = 30 => todo[m] # {}
                       /\ active[m].progress = 80 => todo[m] = {}
                       /\ active[m].progress < 80 => \A c \in Containers : tgtBy[c] # m
    BY DEF FailedProgressIsHonest
  <2>1. RecordShape(m)
    BY DEF IInv
  <2>2. Registered(active, m) /\ pc[m] = "failed"
    BY <2>1 DEF RecordShape, Status
  <2>. QED  BY <2>1, <2>2 DEF RecordShape, Uncreated
<1>. QED  BY <1>1, Inductive, PTL

-----------------------------------------------------------------------------
(* The service implements MigrationLifecycle. *)

Lives == [m \in MigrationIds |-> LifeOf(m)]

\* A step of the task keeps the record, or gives it a status of its own.
LEMMA TaskRecord ==
  ASSUME IInv, IInv', NEW m \in MigrationIds, TaskStep(m)
  PROVE  /\ pc[m] \in Suspended /\ pc'[m] # "idle"
         /\ Registered(active', m) <=> Registered(active, m)
         /\ Registered(active, m) =>
              active'[m] = active[m] \/ active'[m].status \in Running \cup Finished
<1>r. /\ active \in Registries /\ TypeOK
      /\ TaskShape(m)
  BY DEF IInv, TypeOK, RegistryTypeOK, Registries
<1>. USE DEF Suspended, Running, Finished
<1>1. CASE TaskBegin(m)
  <2>. DEFINE validating == UpdateStatus(active, m, "validating", 10)
  <2>1. validating \in Registries
    BY <1>r, UpdateType
  <2>2. /\ Registered(validating, m) <=> Registered(active, m)
        /\ Registered(active, m) => validating[m].status = "validating"
    BY <1>r, WrittenRecords DEF UpdateStatus, Registries, Registered
  <2>3. CASE active' = validating /\ pc' = [pc EXCEPT ![m] = "storage"]
    BY <1>1, <1>r, <2>2, <2>3 DEF TaskBegin, TypeOK
  <2>4. CASE Fail(m, validating)
    BY <1>1, <1>r, <2>1, <2>2, <2>4, FailOutcome DEF TaskBegin, Recorded
  <2>. QED  BY <1>1, <2>3, <2>4 DEF TaskBegin
<1>2. CASE StorageRefused(m) \/ StopFails(m) \/ RsyncFails(m)
  <2>1. UpdateStatus(active, m, "stopping", 20) \in Registries
    BY <1>r, UpdateType
  <2>2. Registered(UpdateStatus(active, m, "stopping", 20), m) <=> Registered(active, m)
    BY <1>r, WrittenRecords DEF UpdateStatus, Registries, Registered
  <2>. QED  BY <1>2, <1>r, <2>1, <2>2, FailOutcome
            DEF StorageRefused, StopFails, RsyncFails, Recorded
<1>3. CASE RsyncBegin(m)
  BY <1>3, <1>r DEF RsyncBegin, TypeOK
<1>4. ASSUME NEW reg \in Registries, NEW left, req[m] \in Requests, Uncreated(m),
             Registered(reg, m) <=> Registered(active, m),
             Registered(active, m) => reg[m] = active[m] \/ reg[m].status = "migrating",
             NextVolume(m, reg, left)
      PROVE  /\ pc'[m] # "idle"
             /\ Registered(active', m) <=> Registered(active, m)
             /\ Registered(active, m) =>
                  active'[m] = active[m] \/ active'[m].status \in Running \cup Finished
  BY <1>r, <1>4, NextVolumeOutcome DEF Recorded, Registered
<1>5. CASE StopAndTransfer(m)
  <2>. DEFINE migrating == UpdateStatus(active, m, "migrating", 30)
  <2>1. migrating \in Registries
    BY <1>r, UpdateType
  <2>2. /\ Registered(migrating, m) <=> Registered(active, m)
        /\ Registered(active, m) => migrating[m].status = "migrating"
    BY <1>r, WrittenRecords DEF UpdateStatus, Registries, Registered
  <2>3. NextVolume(m, migrating, todo[m]) /\ pc[m] = "storage"
    BY <1>5 DEF StopAndTransfer
  <2>4. req[m] \in Requests /\ Uncreated(m)
    BY <1>r, <2>3 DEF TaskShape, Started, Ended
  <2>. QED  BY <1>4, <2>1, <2>2, <2>3, <2>4
<1>6. CASE RsyncDone(m)
  <2>1. NextVolume(m, active, todo[m] \ {cur[m]}) /\ pc[m] = "rsync"
    BY <1>6 DEF RsyncDone
  <2>2. req[m] \in Requests /\ Uncreated(m)
    BY <1>r, <2>1 DEF TaskShape, Started, Ended
  <2>. QED  BY <1>r, <1>4, <2>1, <2>2
<1>. QED  BY <1>1, <1>2, <1>3, <1>5, <1>6 DEF TaskStep

\* A step that leaves every life alone but the one of m.
LEMMA LifeEffect ==
  ASSUME IInv, NEW m \in MigrationIds, NEW x, LifeOf(m)' = x,
         \A n \in MigrationIds \ {m} : Quiet(n)
  PROVE  Lives' = [Lives EXCEPT ![m] = x]
<1>1. \A n \in MigrationIds \ {m} : LifeOf(n)' = LifeOf(n)
  BY DEF Quiet, LifeOf, Registered
<1>. QED  BY <1>1 DEF Lives

LEMMA LifeStep ==
  ASSUME IInv, IInv', [Next]_vars
  PROVE  [Lifecycle!Next]_Lives
<1>. USE DEF Lives
<1>q. ASSUME \A n \in MigrationIds : Quiet(n) PROVE UNCHANGED Lives
  BY <1>q DEF Quiet, LifeOf, Registered
<1>1. CASE UNCHANGED vars
  BY <1>1, <1>q DEF Quiet, vars, hostVars
<1>2. ASSUME NEW v \in Volumes, Write(v) PROVE UNCHANGED Lives
  BY <1>2, <1>q DEF Quiet, Write, hostVars
<1>3. ASSUME NEW c \in Containers, StartSource(c) PROVE UNCHANGED Lives
  BY <1>3, <1>q DEF Quiet, StartSource, IInv, TypeOK
<1>w. ASSUME NEW m \in MigrationIds, NEW v \in InPlace, TargetWrite(m, v)
      PROVE  UNCHANGED Lives
  BY <1>w, <1>q DEF Quiet, TargetWrite, hostVars
<1>4. ASSUME NEW m \in MigrationIds,
             \/ \E r \in Requests : Start(m, r)
             \/ StartRejected(m) \/ Cancel(m) \/ Cleanup(m) \/ TaskStep(m)
      PROVE  [Lifecycle!Next]_Lives
  <2>t. /\ TypeOK /\ TaskShape(m) /\ RecordShape(m) /\ active \in Registries
        /\ TypeOK' /\ active' \in Registries
    BY DEF IInv, TypeOK, RegistryTypeOK, Registries
  <2>f. \A n \in MigrationIds \ {m} : Quiet(n)
    BY <1>4, <2>t, ActionFrame
  <2>e. \A x : LifeOf(m)' = x => Lives' = [Lives EXCEPT ![m] = x]
    BY <2>f, LifeEffect
  <2>l. Lives[m] = LifeOf(m)
    OBVIOUS
  <2>1. CASE \E r \in Requests : Start(m, r)
    <3>1. LifeOf(m) = "unused" /\ LifeOf(m)' = "running"
      BY <2>1, <2>t, WrittenRecords
         DEF Start, LifeOf, TaskShape, Started, Register, Registries, Registered, Running
    <3>. QED  BY <2>e, <2>l, <3>1 DEF Lifecycle!Next, Lifecycle!Begin, Lifecycle!Becomes
  <2>2. CASE StartRejected(m)
    <3>1. LifeOf(m) = "unused" /\ LifeOf(m)' = "gone"
      BY <2>2, <2>t, RelabelEffect
         DEF StartRejected, LifeOf, TaskShape, Started, TypeOK
    <3>. QED  BY <2>e, <2>l, <3>1 DEF Lifecycle!Next, Lifecycle!Reject, Lifecycle!Becomes
  <2>3. CASE Cancel(m)
    <3>1. LifeOf(m) = "running" /\ LifeOf(m)' = "cancelled"
      BY <2>3, <2>t, RelabelEffect
         DEF Cancel, CanCancel, LifeOf, Registries, Record, Registered, Terminal, Finished,
             Running
    <3>. QED  BY <2>e, <2>l, <3>1 DEF Lifecycle!Next, Lifecycle!Cancel, Lifecycle!Becomes
  <2>4. CASE Cleanup(m)
    <3>1. LifeOf(m) \notin {"unused", "gone"} /\ LifeOf(m)' = "gone"
      BY <2>4, <2>t, RelabelEffect
         DEF Cleanup, LifeOf, Registries, Record, Registered, Terminal, Finished, Running,
             TaskShape, Started
    <3>. QED  BY <2>e, <2>l, <3>1 DEF Lifecycle!Next, Lifecycle!Discard, Lifecycle!Becomes
  <2>5. CASE TaskStep(m)
    <3>1. /\ pc[m] \in Suspended /\ pc'[m] # "idle"
          /\ Registered(active', m) <=> Registered(active, m)
          /\ Registered(active, m) =>
               active'[m] = active[m] \/ active'[m].status \in Running \cup Finished
      BY <2>5, TaskRecord
    <3>2. CASE ~Registered(active, m)
      <4>1. LifeOf(m) = "gone" /\ LifeOf(m)' = "gone"
        BY <3>1, <3>2 DEF LifeOf, Suspended
      <4>. QED  BY <2>e, <2>l, <4>1
    <3>3. CASE Registered(active, m)
      <4>1. LifeOf(m) \in {"running", "cancelled"}
        BY <2>t, <3>1, <3>3
           DEF RecordShape, LifeOf, Registries, Record, Registered, Terminal, Finished,
               Suspended
      <4>2. LifeOf(m)' = LifeOf(m) \/ LifeOf(m)' \in {"running", "completed", "failed"}
        BY <3>1, <3>3 DEF LifeOf, Finished, Registered
      <4>. QED  BY <2>e, <2>l, <4>1, <4>2
                DEF Lifecycle!Next, Lifecycle!Resume, Lifecycle!Conclude, Lifecycle!Live,
                    Lifecycle!Becomes
    <3>. QED  BY <3>2, <3>3
  <2>. QED  BY <1>4, <2>1, <2>2, <2>3, <2>4, <2>5
<1>. QED  BY <1>1, <1>2, <1>3, <1>4, <1>w DEF Next

\* Clients see the lives of MigrationLifecycle: ids are not reused, a verdict
\* stays until it is cleaned up, and what was cleaned up never comes back.
THEOREM Refinement == Spec => LifecycleSpec
<1>1. Init => Lifecycle!Init
  BY DEF Init, Lifecycle!Init, LifeOf, Registered, EmptyRegistry
<1>2. IInv /\ IInv' /\ [Next]_vars => [Lifecycle!Next]_Lives
  BY LifeStep
<1>. QED  BY <1>1, <1>2, Inductive, PTL DEF Spec, LifecycleSpec, Lifecycle!Spec, Lives

-----------------------------------------------------------------------------
(***************************************************************************)
(* What a migration has copied stays exact, for any requests, mounts,      *)
(* directories and number of migrations.                                   *)
(*                                                                         *)
(* Containers counted as held are down, so nobody writes to a volume whose *)
(* users are all held.  A private directory is shared with no other rsync, *)
(* neither when a copy begins nor while it runs, so the copy stays clean   *)
(* until it ends; after that no step touches the directory but those of    *)
(* the containers of the migration itself.  A directory that is private    *)
(* now always has been, because tasks only ever start, and a container     *)
(* that is not there now has never been.                                   *)
(***************************************************************************)

HeldDown == \A m \in MigrationIds : held[m] \cap srcUp = {}

Alone(m, v) == Users(v) \subseteq held[m] /\ PathPrivate(m, v) /\ NotYetUsed(m, v)

CopyIsClean(m) == pc[m] = "rsync" /\ Alone(m, cur[m]) => clean[m]

CopiedIsExact(m) ==
  pc[m] \in {"mkdir", "rsync"} \cup Ended =>
    \A v \in VolumesOf(req[m].containers) \ todo[m] :
      Alone(m, v) => tgtData[TargetPath[v]] = {<<v, srcVer[v]>>}

DataInv == HeldDown /\ \A m \in MigrationIds : CopyIsClean(m) /\ CopiedIsExact(m)

\* The task of m is past its stop step only with all volumes still to do, and
\* it is not in an rsync.
Fresh(m) ==
  /\ pc[m] # "rsync"
  /\ pc[m] \in {"mkdir"} \cup Ended => VolumesOf(req[m].containers) \subseteq todo[m]

-----------------------------------------------------------------------------
(* Places and directories. *)

LEMMA NextVolumePlace ==
  ASSUME TypeOK, NEW m \in MigrationIds, NEW reg, NEW left, NextVolume(m, reg, left)
  PROVE  pc'[m] \in {"mkdir"} \cup Ended /\ todo'[m] = left
BY DEF NextVolume, BeginTransfer, Fail, Cutover, TypeOK, Ended

\* Every step is one of a host or of one migration.
LEMMA Actors ==
  ASSUME Next
  PROVE  \/ \E m \in MigrationIds :
              \/ \E r \in Requests : Start(m, r)
              \/ StartRejected(m) \/ Cancel(m) \/ Cleanup(m) \/ TaskStep(m)
         \/ \E v \in Volumes : Write(v)
         \/ \E c \in Containers : StartSource(c)
         \/ \E m \in MigrationIds, v \in InPlace : TargetWrite(m, v)
BY DEF Next

\* A migration that was started stays so, with its request.
LEMMA StartedStays ==
  ASSUME IInv, Next, NEW n \in MigrationIds, Started(n)
  PROVE  Started(n)' /\ req'[n] = req[n]
<1>1. CASE Quiet(n)
  BY <1>1 DEF Quiet, Started
<1>2. CASE \E v \in Volumes : Write(v)
  BY <1>2 DEF Write, Started
<1>3. CASE \E c \in Containers : StartSource(c)
  BY <1>3 DEF StartSource, Started
<1>6. CASE \E m \in MigrationIds, v \in InPlace : TargetWrite(m, v)
  BY <1>6 DEF TargetWrite, Started
<1>4. CASE \/ \E r \in Requests : Start(n, r)
           \/ StartRejected(n) \/ Cancel(n) \/ Cleanup(n)
  BY <1>4 DEF Start, StartRejected, Cancel, Cleanup, Started
<1>5. CASE TaskStep(n)
  <2>1. CASE StopAndTransfer(n) \/ RsyncDone(n)
    BY <2>1, NextVolumePlace DEF StopAndTransfer, RsyncDone, Started, IInv, Ended
  <2>2. CASE TaskBegin(n) \/ StorageRefused(n) \/ StopFails(n) \/ RsyncBegin(n) \/ RsyncFails(n)
    BY <2>2 DEF TaskBegin, StorageRefused, StopFails, RsyncBegin, RsyncFails, Fail,
                Started, IInv, TypeOK
  <2>. QED  BY <1>5, <2>1, <2>2 DEF TaskStep
<1>. QED  BY <1>1, <1>2, <1>3, <1>4, <1>5, <1>6, Actors, ActionFrame DEF IInv

\* A container that was created stays, with its creator.
LEMMA CreatedStays ==
  ASSUME IInv, Next, NEW m \in MigrationIds, NEW c \in Containers, tgtBy[c] = m
  PROVE  tgtBy'[c] = m
<1>1. CASE tgtBy' = tgtBy
  BY <1>1
<1>2. ASSUME NEW n, NEW cs, NEW made, RunContainers(n, cs, made)
      PROVE  tgtBy'[c] = m
  BY <1>2, MigrationAssumption DEF RunContainers, Conflicts
<1>3. ASSUME NEW n \in MigrationIds, StopAndTransfer(n) \/ RsyncDone(n)
      PROVE  tgtBy'[c] = m
  BY <1>1, <1>2, <1>3 DEF StopAndTransfer, RsyncDone, NextVolume, Cutover
<1>. QED
  BY <1>1, <1>3
  DEF Next, TaskStep, Start, StartRejected, Cancel, Cleanup, TaskBegin, StorageRefused,
      StopFails, RsyncBegin, RsyncFails, Write, StartSource, TargetWrite, hostVars

\* A directory that is private after a step was private before it.
LEMMA AloneBefore ==
  ASSUME IInv, Next, NEW m \in MigrationIds, NEW v,
         held'[m] \subseteq held[m], Alone(m, v)'
  PROVE  Alone(m, v)
<1>1. Users(v) \subseteq held[m]
  BY DEF Alone
<1>2. ASSUME NEW n \in MigrationIds, Started(n), NEW w \in VolumesOf(req[n].containers),
             TargetPath[w] = TargetPath[v]
      PROVE  n = m /\ w = v
  BY <1>2, StartedStays DEF Alone, PathPrivate, Started
<1>3. NotYetUsed(m, v)
  BY CreatedStays DEF Alone, NotYetUsed
<1>. QED  BY <1>1, <1>2, <1>3 DEF Alone, PathPrivate, Started

\* What another migration, or m for another volume, is sending goes elsewhere.
LEMMA Elsewhere ==
  ASSUME IInv, NEW m \in MigrationIds, NEW n \in MigrationIds, NEW v,
         PathPrivate(m, v), pc[n] \in {"mkdir", "rsync"}, n # m \/ cur[n] # v
  PROVE  TargetPath[cur[n]] # TargetPath[v]
BY DEF IInv, TaskShape, Started, PathPrivate

\* The directories of a started migration.
LEMMA PathFacts ==
  ASSUME IInv, NEW m \in MigrationIds, Started(m)
  PROVE  \A v \in VolumesOf(req[m].containers) : v \in Volumes /\ TargetPath[v] \in Paths
BY RequestFacts, MigrationAssumption DEF IInv, TaskShape

-----------------------------------------------------------------------------
(* Containers held are down. *)

LEMMA HeldStep ==
  ASSUME IInv, HeldDown, Next
  PROVE  HeldDown'
<1>1. CASE srcUp' = srcUp /\ held' = held
  BY <1>1 DEF HeldDown
<1>2. ASSUME NEW m \in MigrationIds, StopAndTransfer(m)
      PROVE  HeldDown'
  BY <1>2 DEF StopAndTransfer, StopContainers, HeldDown, IInv, TypeOK
<1>3. ASSUME NEW c \in Containers, StartSource(c)
      PROVE  HeldDown'
  BY <1>3 DEF StartSource, HeldDown, IInv, TypeOK
<1>. QED
  BY <1>1, <1>2, <1>3
  DEF Next, TaskStep, Start, StartRejected, Cancel, Cleanup, TaskBegin, StorageRefused,
      StopFails, RsyncBegin, RsyncDone, RsyncFails, Write, TargetWrite, hostVars

-----------------------------------------------------------------------------
(* Copies. *)

\* What a migration that does not move keeps, if nothing happens to the data.
LEMMA StillExact ==
  ASSUME IInv, DataInv, Next, NEW m \in MigrationIds,
         pc'[m] = pc[m], cur'[m] = cur[m], req'[m] = req[m], todo'[m] = todo[m],
         held'[m] \subseteq held[m],
         clean' = clean, srcVer' = srcVer, tgtData' = tgtData
  PROVE  CopyIsClean(m)' /\ CopiedIsExact(m)'
<1>1. \A v : Alone(m, v)' => Alone(m, v)
  BY AloneBefore
<1>. QED  BY <1>1 DEF DataInv, CopyIsClean, CopiedIsExact

LEMMA FreshIsExact ==
  ASSUME NEW m \in MigrationIds, Fresh(m)'
  PROVE  CopyIsClean(m)' /\ CopiedIsExact(m)'
BY DEF Fresh, CopyIsClean, CopiedIsExact, Ended

\* The steps up to the stop step leave all volumes to do.
LEMMA EarlyStep ==
  ASSUME IInv, NEW m \in MigrationIds,
         \/ \E r \in Requests : Start(m, r)
         \/ StartRejected(m) \/ TaskBegin(m) \/ StorageRefused(m) \/ StopFails(m)
         \/ StopAndTransfer(m)
  PROVE  Fresh(m)' /\ clean' = clean /\ srcVer' = srcVer /\ tgtData' = tgtData
<1>1. CASE \E r \in Requests : Start(m, r)
  BY <1>1 DEF Start, Fresh, IInv, TypeOK, Ended
<1>2. CASE StartRejected(m)
  BY <1>2 DEF StartRejected, Fresh, IInv, TypeOK, Ended
<1>3. CASE TaskBegin(m) \/ StorageRefused(m) \/ StopFails(m)
  BY <1>3 DEF TaskBegin, StorageRefused, StopFails, Fail, Fresh, IInv, TypeOK, TaskShape,
              Untouched, Ended
<1>4. CASE StopAndTransfer(m)
  <2>1. todo[m] = VolumesOf(req[m].containers)
    BY <1>4 DEF StopAndTransfer, IInv, TaskShape, Untouched
  <2>2. pc'[m] \in {"mkdir"} \cup Ended /\ todo'[m] = todo[m]
    BY <1>4, NextVolumePlace DEF StopAndTransfer, IInv
  <2>. QED  BY <1>4, <2>1, <2>2 DEF StopAndTransfer, Fresh, Ended
<1>. QED  BY <1>1, <1>2, <1>3, <1>4

\* An rsync begins: it is clean if its directory is private, and no copy that
\* is there is in its way.
LEMMA RsyncBeginExact ==
  ASSUME IInv, DataInv, Next, NEW a \in MigrationIds, RsyncBegin(a)
  PROVE  \A m \in MigrationIds : CopyIsClean(m)' /\ CopiedIsExact(m)'
<1>. SUFFICES ASSUME NEW m \in MigrationIds
              PROVE  CopyIsClean(m)' /\ CopiedIsExact(m)'
  OBVIOUS
<1>1. /\ pc[a] = "mkdir" /\ cur[a] \in todo[a]
      /\ todo' = todo /\ cur' = cur /\ req' = req /\ held' = held /\ srcVer' = srcVer
  BY DEF RsyncBegin, IInv, TaskShape
<1>2. pc'[a] = "rsync" /\ (m # a => pc'[m] = pc[m])
  BY DEF RsyncBegin, IInv, TypeOK
<1>3. \A v : Alone(m, v)' => Alone(m, v)
  BY <1>1, AloneBefore
<1>4. CopyIsClean(m)'
  <2>. SUFFICES ASSUME pc'[m] = "rsync", Alone(m, cur[m])
                PROVE  clean'[m]
    BY <1>1, <1>3 DEF CopyIsClean
  <2>1. CASE m = a
    <3>1. Sharing(a) = {}
      BY <2>1, Elsewhere DEF Sharing, Alone
    <3>. QED  BY <2>1, <3>1 DEF RsyncBegin
  <2>2. CASE m # a
    <3>1. clean[m]
      BY <1>2, <2>2 DEF DataInv, CopyIsClean
    <3>2. m \notin Sharing(a)
      BY <1>1, <2>2, Elsewhere DEF Sharing, Alone
    <3>. QED  BY <2>2, <3>1, <3>2 DEF RsyncBegin
  <2>. QED  BY <2>1, <2>2
<1>5. CopiedIsExact(m)'
  <2>. SUFFICES ASSUME pc[m] \in {"mkdir", "rsync"} \cup Ended,
                       NEW v \in VolumesOf(req[m].containers) \ todo[m], Alone(m, v)
                PROVE  tgtData'[TargetPath[v]] = {<<v, srcVer[v]>>}
    BY <1>1, <1>2, <1>3 DEF CopiedIsExact
  <2>1. a # m \/ cur[a] # v
    BY <1>1
  <2>2. TargetPath[cur[a]] # TargetPath[v]
    BY <1>1, <2>1, Elsewhere DEF Alone
  <2>3. tgtData[TargetPath[v]] = {<<v, srcVer[v]>>}
    BY DEF DataInv, CopiedIsExact
  <2>4. TargetPath[v] \in Paths
    BY PathFacts DEF Started, Ended
  <2>. QED  BY <2>2, <2>3, <2>4 DEF RsyncBegin, IInv, TypeOK
<1>. QED  BY <1>4, <1>5

\* A clean rsync ends with an exact copy, and again no other copy is hit.
LEMMA RsyncDoneExact ==
  ASSUME IInv, DataInv, Next, NEW a \in MigrationIds, RsyncDone(a)
  PROVE  \A m \in MigrationIds : CopyIsClean(m)' /\ CopiedIsExact(m)'
<1>. SUFFICES ASSUME NEW m \in MigrationIds
              PROVE  CopyIsClean(m)' /\ CopiedIsExact(m)'
  OBVIOUS
<1>1. /\ pc[a] = "rsync" /\ cur[a] \in todo[a]
      /\ clean' = clean /\ req' = req /\ held' = held /\ srcVer' = srcVer
  BY DEF RsyncDone, IInv, TaskShape
<1>2. pc'[a] \in {"mkdir"} \cup Ended /\ todo'[a] = todo[a] \ {cur[a]}
  BY NextVolumePlace DEF RsyncDone, IInv
<1>3. m # a => pc'[m] = pc[m] /\ cur'[m] = cur[m] /\ todo'[m] = todo[m]
  BY ActionFrame DEF IInv, Quiet, TaskStep
<1>4. \A v : Alone(m, v)' => Alone(m, v)
  BY <1>1, AloneBefore
<1>5. CopyIsClean(m)'
  BY <1>1, <1>2, <1>3, <1>4 DEF CopyIsClean, DataInv, Ended
<1>6. CopiedIsExact(m)'
  <2>. SUFFICES ASSUME pc'[m] \in {"mkdir", "rsync"} \cup Ended,
                       NEW v \in VolumesOf(req[m].containers) \ todo'[m], Alone(m, v)
                PROVE  tgtData'[TargetPath[v]] = {<<v, srcVer[v]>>}
    BY <1>1, <1>4 DEF CopiedIsExact
  <2>1. pc[m] \in {"mkdir", "rsync"} \cup Ended
    BY <1>1, <1>3
  <2>2. TargetPath[v] \in Paths
    BY <2>1, PathFacts DEF Started, Ended
  <2>3. CASE m = a /\ v = cur[a]
    <3>1. clean[a]
      BY <1>1, <2>3 DEF DataInv, CopyIsClean
    <3>. QED  BY <2>2, <2>3, <3>1 DEF RsyncDone, IInv, TypeOK
  <2>4. CASE a # m \/ cur[a] # v
    <3>1. TargetPath[cur[a]] # TargetPath[v]
      BY <1>1, <2>4, Elsewhere DEF Alone
    <3>2. v \notin todo[m]
      BY <1>2, <1>3, <2>4
    <3>3. tgtData[TargetPath[v]] = {<<v, srcVer[v]>>}
      BY <2>1, <3>2 DEF DataInv, CopiedIsExact
    <3>. QED  BY <2>2, <3>1, <3>3 DEF RsyncDone, IInv, TypeOK
  <2>. QED  BY <2>3, <2>4
<1>. QED  BY <1>5, <1>6

\* A write hits no volume whose users are all held.
LEMMA WriteExact ==
  ASSUME IInv, DataInv, Next, NEW w \in Volumes, Write(w)
  PROVE  \A m \in MigrationIds : CopyIsClean(m)' /\ CopiedIsExact(m)'
<1>. SUFFICES ASSUME NEW m \in MigrationIds
              PROVE  CopyIsClean(m)' /\ CopiedIsExact(m)'
  OBVIOUS
<1>1. /\ pc' = pc /\ todo' = todo /\ cur' = cur /\ req' = req /\ held' = held
      /\ tgtData' = tgtData
  BY DEF Write
<1>2. \A v : Alone(m, v)' => Alone(m, v) /\ v # w
  <2>1. ~(Users(w) \subseteq held[m])
    BY DEF Write, DataInv, HeldDown
  <2>. QED  BY <1>1, <2>1, AloneBefore DEF Alone
<1>3. CopyIsClean(m)'
  BY <1>1, <1>2 DEF Write, CopyIsClean, DataInv
<1>4. CopiedIsExact(m)'
  <2>. SUFFICES ASSUME pc[m] \in {"mkdir", "rsync"} \cup Ended,
                       NEW v \in VolumesOf(req[m].containers) \ todo[m], Alone(m, v), v # w
                PROVE  tgtData[TargetPath[v]] = {<<v, srcVer'[v]>>}
    BY <1>1, <1>2 DEF CopiedIsExact
  <2>1. v \in Volumes
    BY PathFacts DEF Started, Ended
  <2>2. srcVer'[v] = srcVer[v]
    BY <2>1 DEF Write, IInv, TypeOK
  <2>. QED  BY <2>2 DEF DataInv, CopiedIsExact
<1>. QED  BY <1>3, <1>4

\* A container on the target writes only to the copies of its own migration.
LEMMA TargetWriteExact ==
  ASSUME IInv, DataInv, Next, NEW a \in MigrationIds, NEW w \in InPlace, TargetWrite(a, w)
  PROVE  \A m \in MigrationIds : CopyIsClean(m)' /\ CopiedIsExact(m)'
<1>. SUFFICES ASSUME NEW m \in MigrationIds
              PROVE  CopyIsClean(m)' /\ CopiedIsExact(m)'
  OBVIOUS
<1>1. /\ pc' = pc /\ todo' = todo /\ cur' = cur /\ req' = req /\ held' = held
      /\ srcVer' = srcVer
  BY DEF TargetWrite
<1>2. \A v : Alone(m, v)' => Alone(m, v)
  BY <1>1, AloneBefore
<1>3. PICK c \in Containers : tgtBy[c] = a
  BY DEF TargetWrite
<1>4. Started(a) /\ w \in VolumesOf(req[a].containers)
  BY <1>3 DEF TargetWrite, IInv, TaskShape, Uncreated, Started, Ended
<1>5. \A v : Alone(m, v) => TargetPath[w] # TargetPath[v]
  BY <1>3, <1>4 DEF Alone, PathPrivate, NotYetUsed, Started
<1>6. CopyIsClean(m)'
  BY <1>1, <1>2, <1>5 DEF TargetWrite, CopyIsClean, DataInv
<1>7. CopiedIsExact(m)'
  <2>. SUFFICES ASSUME pc[m] \in {"mkdir", "rsync"} \cup Ended,
                       NEW v \in VolumesOf(req[m].containers) \ todo[m], Alone(m, v)
                PROVE  tgtData'[TargetPath[v]] = {<<v, srcVer[v]>>}
    BY <1>1, <1>2 DEF CopiedIsExact
  <2>1. TargetPath[v] \in Paths
    BY PathFacts DEF Started, Ended
  <2>2. tgtData'[TargetPath[v]] = tgtData[TargetPath[v]]
    BY <1>5, <2>1 DEF TargetWrite, IInv, TypeOK
  <2>. QED  BY <2>2 DEF DataInv, CopiedIsExact
<1>. QED  BY <1>6, <1>7

LEMMA DataStep ==
  ASSUME IInv, DataInv, [Next]_vars
  PROVE  DataInv'
<1>1. CASE UNCHANGED vars
  BY <1>1 DEF vars, hostVars, DataInv, HeldDown, CopyIsClean, CopiedIsExact, Alone, PathPrivate,
               NotYetUsed
<1>2. CASE Next
  <2>1. HeldDown'
    BY <1>2, HeldStep DEF DataInv
  <2>2. ASSUME NEW a \in MigrationIds,
               \/ \E r \in Requests : Start(a, r)
               \/ StartRejected(a) \/ TaskBegin(a) \/ StorageRefused(a) \/ StopFails(a)
               \/ StopAndTransfer(a),
               NEW m \in MigrationIds
        PROVE  CopyIsClean(m)' /\ CopiedIsExact(m)'
    <3>1. Fresh(a)' /\ clean' = clean /\ srcVer' = srcVer /\ tgtData' = tgtData
      BY <2>2, EarlyStep
    <3>2. CASE m = a
      BY <3>1, <3>2, FreshIsExact
    <3>3. CASE m # a
      <4>1. Quiet(m)
        BY <2>2, <3>3, ActionFrame DEF IInv, TaskStep
      <4>. QED  BY <1>2, <3>1, <4>1, StillExact DEF Quiet
    <3>. QED  BY <3>2, <3>3
  <2>3. ASSUME NEW a \in MigrationIds, Cancel(a) \/ Cleanup(a) \/ RsyncFails(a),
               NEW m \in MigrationIds
        PROVE  CopyIsClean(m)' /\ CopiedIsExact(m)'
    <3>1. CASE Cancel(a) \/ Cleanup(a)
      BY <1>2, <3>1, StillExact DEF Cancel, Cleanup
    <3>2. CASE RsyncFails(a) /\ m = a
      <4>1. /\ pc[m] = "rsync" /\ pc'[m] = "failed"
            /\ todo' = todo /\ req' = req /\ held' = held
            /\ srcVer' = srcVer /\ tgtData' = tgtData
        BY <3>2 DEF RsyncFails, Fail, IInv, TypeOK
      <4>2. \A v : Alone(m, v)' => Alone(m, v)
        BY <1>2, <4>1, AloneBefore
      <4>. QED  BY <4>1, <4>2 DEF CopyIsClean, CopiedIsExact, DataInv
    <3>3. CASE RsyncFails(a) /\ m # a
      <4>1. Quiet(m)
        BY <3>3, ActionFrame DEF IInv, TaskStep
      <4>. QED  BY <1>2, <3>3, <4>1, StillExact DEF Quiet, RsyncFails
    <3>. QED  BY <2>3, <3>1, <3>2, <3>3
  <2>4. ASSUME NEW c \in Containers, StartSource(c), NEW m \in MigrationIds
        PROVE  CopyIsClean(m)' /\ CopiedIsExact(m)'
    BY <1>2, <2>4, StillExact DEF StartSource, IInv, TypeOK
  <2>. QED
    BY <1>2, <2>1, <2>2, <2>3, <2>4, RsyncBeginExact, RsyncDoneExact, WriteExact,
       TargetWriteExact
    DEF DataInv, Next, TaskStep
<1>. QED  BY <1>1, <1>2

\* A transferred volume is an exact copy and stays one until its own migration's
\* containers may write to it, if its users have been down since the stop step
\* and nothing else goes to its directory.
THEOREM TransferCorrect == Spec => []TransferredDataIsExact
<1>1. Init => DataInv
  BY DEF Init, DataInv, HeldDown, CopyIsClean, CopiedIsExact, Ended
<1>2. IInv /\ DataInv /\ [Next]_vars => DataInv'
  BY DataStep
<1>3. DataInv => TransferredDataIsExact
  BY DEF DataInv, CopiedIsExact, Alone, TransferredDataIsExact
<1>. QED  BY <1>1, <1>2, <1>3, Inductive, PTL DEF Spec

-----------------------------------------------------------------------------
(* The task of a migration comes to an end.  It is suspended twice for each *)
(* volume and twice before the first; no client and no other task can send  *)
(* it back.                                                                 *)

\* How often the task of m can still be resumed.
StepsLeft(m) ==
  CASE pc[m] = "scheduled" -> 2 * Cardinality(todo[m]) + 3
    [] pc[m] = "storage"   -> 2 * Cardinality(todo[m]) + 2
    [] pc[m] = "mkdir"     -> 2 * Cardinality(todo[m]) + 1
    [] pc[m] = "rsync"     -> 2 * Cardinality(todo[m])
    [] OTHER               -> 0

\* Every step of a task brings it nearer to its end, and no step of anybody
\* else, cancellation and cleanup included, takes it away from there.
NearerTheEnd(m) ==
  /\ StepsLeft(m) \in 0..(2 * Cardinality(Volumes) + 3)
  /\ TaskStep(m) => StepsLeft(m)' < StepsLeft(m)
  /\ pc[m] # "idle" => StepsLeft(m)' \leq StepsLeft(m)

TaskComesToAnEnd == [][\A m \in MigrationIds : NearerTheEnd(m)]_vars

LEMMA LeftFacts ==
  ASSUME IInv, NEW m \in MigrationIds
  PROVE  /\ Cardinality(todo[m]) \in Nat /\ IsFiniteSet(todo[m])
         /\ Cardinality(Volumes) \in Nat /\ Cardinality(todo[m]) \leq Cardinality(Volumes)
         /\ StepsLeft(m) \in 0..(2 * Cardinality(Volumes) + 3)
<1>1. IsFiniteSet(Volumes) /\ todo[m] \in SUBSET Volumes
  BY DockerAssumption DEF IInv, TypeOK
<1>2. /\ Cardinality(todo[m]) \in Nat /\ IsFiniteSet(todo[m])
      /\ Cardinality(Volumes) \in Nat /\ Cardinality(todo[m]) \leq Cardinality(Volumes)
  BY <1>1, FS_Subset, FS_CardinalityType
<1>. QED  BY <1>2 DEF StepsLeft

LEMMA TaskCountsDown ==
  ASSUME IInv, NEW m \in MigrationIds, TaskStep(m)
  PROVE  StepsLeft(m)' < StepsLeft(m) /\ StepsLeft(m)' \leq StepsLeft(m)
<1>. DEFINE n == Cardinality(todo[m])
<1>1. n \in Nat /\ IsFiniteSet(todo[m])
  BY LeftFacts
<1>. HIDE DEF n
<1>2. ASSUME pc'[m] \in Ended, pc[m] \in Suspended \ {"rsync"} \/ n # 0
      PROVE  StepsLeft(m)' < StepsLeft(m) /\ StepsLeft(m)' \leq StepsLeft(m)
  <2>1. StepsLeft(m)' = 0
    BY <1>2 DEF StepsLeft, Ended
  <2>2. StepsLeft(m) > 0 \/ pc[m] \notin Suspended
    BY <1>1, <1>2 DEF StepsLeft, Suspended, n
  <2>3. pc[m] \in Suspended
    BY DEF TaskStep, TaskBegin, StorageRefused, StopFails, StopAndTransfer, RsyncBegin,
           RsyncDone, RsyncFails, Suspended
  <2>. QED  BY <2>1, <2>2, <2>3, LeftFacts
<1>3. CASE TaskBegin(m)
  <2>1. pc[m] = "scheduled" /\ todo' = todo /\ pc'[m] \in {"storage", "failed"}
    BY <1>3 DEF TaskBegin, Fail, IInv, TypeOK
  <2>. QED  BY <1>1, <2>1 DEF StepsLeft, n
<1>4. CASE StorageRefused(m) \/ StopFails(m)
  <2>1. pc[m] = "storage" /\ pc'[m] \in Ended
    BY <1>4 DEF StorageRefused, StopFails, Fail, IInv, TypeOK, Ended
  <2>. QED  BY <1>2, <2>1 DEF Suspended
<1>5. CASE StopAndTransfer(m)
  <2>1. pc[m] = "storage" /\ pc'[m] \in {"mkdir"} \cup Ended /\ todo'[m] = todo[m]
    BY <1>5, NextVolumePlace DEF StopAndTransfer, IInv
  <2>2. CASE pc'[m] = "mkdir"
    BY <1>1, <2>1, <2>2 DEF StepsLeft, n
  <2>. QED  BY <1>2, <2>1, <2>2 DEF Suspended
<1>6. CASE RsyncBegin(m)
  <2>1. pc[m] = "mkdir" /\ pc'[m] = "rsync" /\ todo' = todo
    BY <1>6 DEF RsyncBegin, IInv, TypeOK
  <2>. QED  BY <1>1, <2>1 DEF StepsLeft, n
<1>7. ASSUME pc[m] = "rsync" PROVE n # 0 /\ cur[m] \in todo[m]
  <2>1. cur[m] \in todo[m]
    BY <1>7 DEF IInv, TaskShape
  <2>. QED  BY <1>1, <2>1, FS_EmptySet DEF n
<1>8. CASE RsyncDone(m)
  <2>1. pc[m] = "rsync" /\ pc'[m] \in {"mkdir"} \cup Ended /\ todo'[m] = todo[m] \ {cur[m]}
    BY <1>8, NextVolumePlace DEF RsyncDone, IInv
  <2>2. CASE pc'[m] = "mkdir"
    <3>1. Cardinality(todo'[m]) = n - 1
      BY <1>1, <1>7, <2>1, FS_RemoveElement DEF n
    <3>. QED  BY <1>1, <2>1, <2>2, <3>1 DEF StepsLeft, n
  <2>. QED  BY <1>2, <1>7, <2>1, <2>2
<1>9. CASE RsyncFails(m)
  <2>1. pc[m] = "rsync" /\ pc'[m] \in Ended
    BY <1>9 DEF RsyncFails, Fail, IInv, TypeOK, Ended
  <2>. QED  BY <1>2, <1>7, <2>1
<1>. QED  BY <1>3, <1>4, <1>5, <1>6, <1>8, <1>9 DEF TaskStep

LEMMA NobodySendsBack ==
  ASSUME IInv, Next, NEW m \in MigrationIds, pc[m] # "idle"
  PROVE  StepsLeft(m)' \leq StepsLeft(m)
<1>1. ASSUME pc'[m] = pc[m], todo'[m] = todo[m]
      PROVE  StepsLeft(m)' \leq StepsLeft(m)
  <2>1. StepsLeft(m)' = StepsLeft(m)
    BY <1>1 DEF StepsLeft
  <2>. QED  BY <2>1, LeftFacts
<1>2. CASE Quiet(m)
  BY <1>1, <1>2 DEF Quiet
<1>3. CASE TaskStep(m)
  BY <1>3, TaskCountsDown, LeftFacts
<1>4. CASE StartRejected(m) \/ \E r \in Requests : Start(m, r)
  BY <1>4 DEF StartRejected, Start
<1>5. CASE Cancel(m) \/ Cleanup(m)
  BY <1>1, <1>5 DEF Cancel, Cleanup
<1>6. CASE \E v \in Volumes : Write(v)
  BY <1>1, <1>6 DEF Write
<1>7. CASE \E c \in Containers : StartSource(c)
  BY <1>1, <1>7 DEF StartSource
<1>8. CASE \E n \in MigrationIds, v \in InPlace : TargetWrite(n, v)
  BY <1>1, <1>8 DEF TargetWrite
<1>. QED  BY <1>2, <1>3, <1>4, <1>5, <1>6, <1>7, <1>8, Actors, ActionFrame DEF IInv

\* A background task makes at most two steps for each volume and three more,
\* whatever clients and other tasks do to its record and its hosts meanwhile.
THEOREM TaskEnds == Spec => TaskComesToAnEnd
<1>1. IInv /\ [Next]_vars => [\A m \in MigrationIds : NearerTheEnd(m)]_vars
  BY LeftFacts, TaskCountsDown, NobodySendsBack DEF NearerTheEnd
<1>. QED  BY <1>1, Inductive, PTL DEF Spec, TaskComesToAnEnd
===============================================================================
