# TransDock: models and proofs

TransDock migrates Docker containers between hosts: a FastAPI service
(`src/backend`) that discovers containers, stops them, copies their volumes
with rsync, recreates them on a target host, and manages ZFS datasets and
snapshots on the way. This directory holds TLA+ models of the parts of the
service whose behaviour is hard to test, the TLC configurations that check them
on small instances, and TLAPS proofs of their main safety properties for every
value of the constants. `PROJECT.json` lists runs, mutants, theorems, the source
lines of every definition and the hazards of the code with the properties that
cover them.

## The system

One process runs one asyncio event loop. Code between two suspension points is
atomic; what the code awaits decides what can interleave. That is why the
models' steps are not the code's lines but its stretches between two awaits
that really suspend (a subprocess, a socket), and why an `async def` that only
calls blocking libraries (all of `docker_ops.py`, every endpoint of the
authentication router) is one step.

| component | state | operations | hard because |
|---|---|---|---|
| Migration registry, `services/migration_orchestrator.py` | id -> status, progress, error; in memory | register, update status/error, cancel, cleanup | clients relabel and delete records of tasks that run on |
| Migration task, `services/container_migration_service.py` | its position, the volumes left, the stopped containers | validate, stop, transfer, cut over, report | long awaits between steps, any step can fail, nothing is undone, several tasks share hosts and directories |
| Docker operations, `docker_ops.py` | the two daemons: containers, networks | stop, create networks, run, connect | partial success, names taken by others |
| Transfer operations, `transfer_ops.py` | target directories, temporary clones of snapshots | rsync, zfs send, snapshot mounts, verification by counting | data changes while it is copied, `--delete`, clones with shared names, crashes |
| Migration API, `api/routers/migration_router.py` | none of its own; known hosts, checksum and checkpoint files, safety backups on the target | start, cancel, cleanup, host key, verify, resume, safety snapshots | files one call writes for another, long walks over files that change, an rsync that outlives the service |
| Container discovery, `services/container_discovery_service.py` | none | search, score | pure reading |
| Rate limiting, `api/rate_limiting.py` | token buckets, a cleanup time | is_allowed, cleanup | time, caps, dropped buckets |
| ZFS snapshots, `zfs_operations/services/snapshot_service.py` | the pool's snapshots and bookmarks | create, destroy, rollback, incremental, retention | checks and commands are separate awaits, commands time out |
| ZFS datasets and pools, `zfs_operations/services/dataset_service.py`, `pool_service.py` | the pool, its datasets, its scrub | create, destroy, properties, mounts, scrubs, export, import, reports | as above; answers put together from several commands |
| Command executor, `zfs_operations/infrastructure/command_executor.py` | none | run a command with a timeout | a killed command may have done its work |
| Authentication, `api/auth.py`, `api/routers/auth_router.py` | accounts, token blacklist | login, refresh, logout, account management | clocks, expiry, equal tokens |
| WebSocket hub, `api/websocket.py` | connections, subscriptions, event queue | connect, subscribe, broadcast | iterates over a dictionary across awaits; not mounted by `main.py` |
| Host service, `host_service.py` | none | storage validation, remote stacks | the check is far from its use |
| Validation, configuration, entities, logging, entry points, front end | none | predicates, formatting | stateless |

How they interact: the router calls `MigrationService`, which registers a record
and starts one task per migration; the task writes its progress to the registry
(a dictionary under an asyncio lock that is never contended over an await),
calls the Docker operations and awaits ssh and rsync through the transfer
operations and the host service. Clients poll the registry and cancel or clean
up at any time; the task is not told. The ZFS services share nothing with the
migration task but the pool. Authentication is an in-memory singleton consulted at
the start of a request. The rate limiters are in-memory singletons too, made to be
consulted there, but no request reaches one at this commit: the decorator looks for
the request among the positional arguments and FastAPI passes keywords
(`rate_limiting.py:276`), and the middleware is never mounted. `RateLimiter` models
what `is_allowed` does when it is called.

What makes each component correct is stated as the properties of its module.

## Modules

| module | models | composed with |
|---|---|---|
| `MigrationLifecycle` | abstract: what a client may rely on about one migration id | refined by `ContainerMigration` |
| `MigrationOrchestrator` | the registry; every method an operator on the dictionary | extended by `ContainerMigration` |
| `DockerHosts` | what the Docker operations do to the two daemons | extended by `ContainerMigration` |
| `ContainerMigration` | start, cancel, cleanup, the background tasks, rsync, containers of both hosts that write | the two above |
| `ContainerMigrationProofs` | its theorems: registry and task, data, progress | |
| `SnapshotStore` | abstract: a store that carries out each request at one moment or not at all | refined by `SnapshotService` |
| `SnapshotService` | concurrent calls of the snapshot service as chains of zfs commands | |
| `SnapshotServiceProofs` | its theorems | |
| `SnapshotTransfer`, `SnapshotTransferProofs` | `transfer_volume_data` and `verify_transfer` for concurrent callers | |
| `ZfsCalls` | API calls in flight, the pool, how a command ends | extended by the next two |
| `PoolService`, `DatasetService` | the endpoints and commands of the two services | composed in `ZfsHost` |
| `ZfsHost`, `ZfsHostProofs` | both services on one pool, and the pool by itself | |
| `MigrationIntegrity`, `MigrationIntegrityProofs` | the safety functions of the migration router on one source and target | |
| `TokenBuckets` | abstract: a bucket for everybody from the beginning, filling at every instant | refined by `RateLimiter` |
| `RateLimiter`, `RateLimiterProofs` | one limiter, its buckets, time | |
| `Sessions` | abstract: tokens that stay ended for ever, accounts that change only by their owners and the admins | refined by `AuthTokens` |
| `AuthTokens`, `AuthTokensProofs` | accounts, tokens, blacklist, time | |
| `EventHub`, `EventHubProofs` | the WebSocket hub: connection manager, broadcaster, endpoints | |
| `MC*` | instances for TLC | |

Definitions whose name ends in `_Something` after a definition's name, with a
comment that starts with "Mutant", are plausible bugs. The runs are repeated with
each of them in place of the definition it is named after, and the property it
is listed with in `PROJECT.json` must then fail: that is how we know that the
properties say something about the code.

### ContainerMigration

`pc[m]` is where the task of migration `m` is suspended: before its first run,
in the storage check, in the `mkdir` before a volume, in the rsync of a volume.
An action is all the code from there to the next suspension, with every
registry update it makes (`TaskBegin`, `StopAndTransfer`, `RsyncBegin`,
`RsyncDone` and the failing variants); `Cutover` is part of the step that
finishes the last volume, because the Docker calls after it never suspend.
`active` is the dictionary of the registry; the history variables `held` (which
containers have been down since the migration stopped them) and `clean`
(whether an rsync had its source and directory to itself) exist for the data
property only. Data is versions: a directory holds `<<volume, version>>`
fragments, where `Torn` stands for a part of the files or files of several
versions, or files written on the target; a copy is exact when it holds the source's
current version only. `TargetWrite` is a recreated container that writes. Its bindings
are the wrong way round (`docker_ops.py:550-556`): it has the source's paths of the
target host, mounted where the copies are on the host. So it reaches a copy only if the
copy lies at its source's path (`InPlace`), that is if the target base path is the
directory the source is in.

Checked in `overlap` (two migrations of overlapping requests, cancels, cleanups,
every failure) and `disjoint` (a shared volume, a write, restarts):

- `EndedTaskIsReported`: a record says completed or failed exactly if its task
  ended so.
- `CutoverAfterTransfer`, `SuccessIsExclusive`: containers appear on the target
  after all data, "completed" means that this migration created all its
  containers, and no two successful migrations share one.
- `FailedProgressIsHonest`: what the progress of a failed record says about what
  was stopped, copied and created.
- `LifecycleSpec`: the refinement of `MigrationLifecycle`.
- `TransferredDataIsExact`: a transferred volume stays an exact copy as long as its
  users stay down, nobody else sends to its directory, and no container of its own
  migration has the copy to write to. The first two conditions are needed because the
  code guarantees neither: it notices neither a container that it failed to stop or that
  was started again, nor two volumes with one directory. A project migration stops
  nothing, and the property says nothing of the volumes its containers use.
- `RecordSettles` (run `overlap`): under fair tasks, every record is eventually
  completed, failed or removed, also a cancelled one.

Refuted: no data is lost when a container has two named volumes
(`named_volumes`). `FailedProgressIsHonest` also shows, against "either complete
success or complete rollback" in the repository's README, that nothing is undone: a
failure during the cutover leaves the containers it created on the target.

### SnapshotService

`pc[c]` is the zfs command call `c` waits for. Every command may do its work,
do nothing, or be killed by the timeout after its work; other calls and other
users of the pool act between any two commands. Snapshots carry a creation
number, so that a name that was reused is told apart, and the day they were
taken. `effects` records what a call's commands really did.

- `AnswersAreTrue`: a successful answer means that this call itself made,
  removed or restored exactly one snapshot. It does not speak of the bookmark of an
  incremental snapshot, whose failure the code only logs.
- `LostOnlyToDeletion`: a snapshot goes away only in a destroy command naming
  it; never while it has clones, never to a rollback.
- `StoreSpec`: the refinement of `SnapshotStore`. Between a check and its command
  anything may happen, and a command that was killed may have done its work; to its
  callers the service is all the same a store that carries out a request at one moment,
  once, or not at all, gives numbers that are new, rolls back to the latest only, and
  answers success only for what it did.
- `RetentionSparesRecent`: retention never deletes a snapshot younger than its
  days, even if its name was reused between listing and deletion. It is proved; the
  run checks the refinement, which says the same. It holds for a poor reason, the one
  of the next paragraph: with creation times that are never parsed, only a retention
  of zero days deletes anything.
- `CallsAnswered`: every call is answered, also a retention whose deletions fail.

Refuted: retention deletes what is older than its days (`retention_applied`).
`claimed` is the `deleted_count` of the answer; `DestroyEnds` shows that it
counts failed deletions too, because the code tests the constructor
`destroy_result.success` and not `is_success`.

### RateLimiter

A unit of time is what the refill rate needs for a unit of tokens, so the
arithmetic is exact. `Allow` and `Refuse` are whole calls of `is_allowed`, with
the cleanup they may trigger. `Observe` moves the window an observer counts in.

- `WindowBound`: in any window a client is granted at most burst + rate * time,
  although buckets are dropped and recreated full. This needs the bucket
  timeout to be at least the time a bucket takes to fill, which every entry of
  `RATE_LIMIT_CONFIGS` satisfies and `LimiterAssumption` states.
- `IdleBucketsGo`: the table keeps no bucket that was idle for the timeout and
  one cleanup interval, counted to the last call.
- `IdealSpec`: the refinement of `TokenBuckets`. A missing bucket is mapped to a full
  one (`Level`). Every request is allowed exactly when the ideal limiter allows it, so
  that nobody can tell when buckets are made, refilled or dropped.
- `PatientClientIsServed`: who keeps to the rate is never refused. It is proved; the
  runs check the refinement, from which it follows.

### AuthTokens

A request is one step. A token is its payload (user, roles, profile, type,
expiry in whole seconds): the code adds no id and no issue time, so equal
payloads are one token. The clock ticks faster than seconds.

- `SessionsSpec`: the refinement of `Sessions`. Nobody can tell that the blacklist
  forgets, although entries expire and are swept: a token that was logged out or
  exchanged changes nothing any more. An account changes only in a request with a good
  token, by an admin or by its owner, who can raise no role of its own.
- `EndedStayEnded`: such a token does not even verify. It is proved; the run
  checks the refinement, for which it is needed.
- `BlacklistIsSwept`: dead entries leave within one cleanup interval.
- `DeletionsSpareAnAdmin`: no deletion leaves the service without an admin,
  whatever demotions came before (demotions themselves can).

### EventHub

The connection manager's four maps, the event queue with its one worker, and
for each connection `socket` (the peer) and `pc` (where its endpoint is
suspended: in a send or in a receive). An action is the code between two
suspensions. `broadcast` iterates over the live dictionary: `bc` keeps the size
and the number of connections known when it began, and `GoesOnTo`, `Ends` and
`Breaks` are what CPython's dictionary iterator may then do: raise an error when
the size changed; go on, skip, end early or raise when it did not but keys did.
Only a peer that is gone can fail a send, and it need not. `inbox` is history. A frame
without text ends an endpoint whose peer is still there (`ReceiveBytes`): `receive_text`
raises, and the finally clause disconnects.
Calls of `start` while a `stop` still waits for the worker are left out; both
are called by the two ends of the application's life.

- `MapsAgree`: the maps agree at every suspension although broadcasts, notices
  and endpoints all disconnect, and nothing is entered for a dropped connection.
- `BroadcastsInOrder`: events reach a connection in order, none twice.
- `NoticeReachesUser`: a message to a user passes by none of the user's working
  connections, although the loop runs over a copy.
- `DoneReachesAll`: a broadcast that ended normally, with nobody connecting under
  way, was sent to all. The condition is needed: when one connection goes and
  another comes during a send, the iterator may end early without an error, and
  "Broadcast message to all connections." (`api/websocket.py:179`) fails.
- `GoneAreForgotten`, `QueueDrains` (run `hub_liveness`): a peer that left is dropped, and no failed
  broadcast stops the worker.

### SnapshotTransfer

`pc[t]` is the command transfer `t` waits for: the `mkdir`, `zfs destroy`, `zfs
clone` and `zfs set` of `mount_snapshot_for_rsync`, the rsync (`copying`, with a
start and an end, because the files change under it), the two commands of
`cleanup_rsync_mount`, or those of the other three methods. A snapshot is known by
its dataset, the directory its name is turned into and the version it froze. The
clone is named after the dataset alone (`transfer_ops.py:203`), so transfers of one
dataset share it, and two names can become one directory. A crash loses the calls
and leaves clones, mounts and perhaps a running rsync. Nothing in the
repository calls `transfer_volume_data` or `verify_transfer` yet: the migration
task has its own path, in `ContainerMigration`.

- `SuccessDelivers`: a success left exactly the snapshot on the target, unless two
  local rsyncs met. They meet (`Sharing`, `MeetsRemains`) when they are under way at the
  same time and use one clone or one directory, or when the clone of one is mounted on
  the directory of the other or read by the other's rsync. A crash can make the other one
  of yesterday: an rsync that outlived the service, or another dataset's clone left on the
  directory. The exception is needed: then the target may hold another snapshot or
  nothing. It covers what a crash leaves of the transfer's own dataset, but for a clone
  that is still read. An rsync between two remote hosts cannot succeed in the code, and
  does not in the model (`EndCopy`).
- `RemainsAreOvercome`: what a crash left does not make a later transfer fail.
- `NoCloneIsLeft`: the last transfer of a dataset takes the clone away on every path.
- `EmptiedIsNoticed`: the verification never calls an emptied target the same unless
  a count itself failed, which its pipe into `wc` hides. It counts the path of the
  source on this host also if the source is another one (`Countable`).

### ZfsHost: PoolService and DatasetService

Each endpoint is an action that begins a call, each zfs or zpool command an action
with the code up to the next one. `Outcomes` is what a command can be to its caller:
done, failed, or killed by the timeout with its work done or not. Datasets carry a
number, so that a name that was reused is told apart, and a version of their
properties. `view[c]` is what the reads of call `c` were about, `effects[c]` what its
commands really did, `before[c]` the calls answered before it was made. The services
are modelled for every dataset name; over HTTP the path parameter takes no slash,
so that only a pool's root dataset reaches the endpoints with a name in the path.

- `AnswersAreTrue`: success means that this call did the thing, to a dataset that bears
  or bore the name it was given; no call, failed ones included, does anything but what it
  was asked for, or touches a dataset of another name (`Scope`: those below it too, for a
  recursive destroy).
- `ReadsAreCurrent`: what `get`, `create` and `monitor` put together from several
  commands is about one dataset unless the first is gone by the end, and never older
  than what was acknowledged before the call. The exception is real: see the list of
  disagreements.

### MigrationIntegrity

A call is one function at work: `add_ssh_host_key`, `create_pre_migration_safety_snapshot`,
`create_migration_checkpoint`, `resume_interrupted_migration`,
`create_safe_rsync_operation` (as a dry run), `generate_source_checksums` and
`verify_target_checksums`. Only processes suspend a call. The checksum walk does not:
`Runs` keeps every other call still meanwhile, but not the files. Files are versions; rsync and
`cp -a` work file by file. `calm[c]` records that nobody but `c` wrote what `c` reads
and writes. The checksums, which only the caller keeps, are `sums`. `resume` reaches
the target only if the key of the default port is known, because a checkpoint holds
no port and rsync checks host keys strictly. Except for the host key, resume and
verify-integrity endpoints, no endpoint calls these functions; they are modelled as
the repository's README presents them, callable at any time.

`seen[c]` is what the target really held when the verification looked.

- `VerifiedIsTrue`: a verification that passes had an answer about some file, and of
  every file it had one about, the target did hold the content of the checksums at some
  moment of the verification, whatever others wrote meanwhile. If nobody did, the target
  holds it at the end.
- `ResumedIsComplete`: a successful resumption with nobody else writing leaves the target
  as the source, over whatever an interrupted or orphaned rsync had left, but for what
  the command itself keeps there (`.rsync-backup-<id>`, with the files it replaced or
  deleted, and `.rsync-partial`), which is neither sent nor compared.
- `RollbackIsThere`: a reported safety snapshot holds the whole target: a ZFS snapshot
  whatever else is taken, a directory unless another backup of the same migration took
  its name in the same second (`Own`). `cp -a` into a directory that exists nests the
  copy, and success is answered over the earlier content.

## Runs, bounds and fairness

| run | instance | why it is enough |
|---|---|---|
| `overlap` | 2 migrations, 2 containers with unequal volumes, 2 overlapping requests (both containers by name, one of them as a compose project), 2 networks | every pair of steps of two tasks, cancels and cleanups at every point; the properties relate two migrations, and two show that one cannot starve the other |
| `disjoint` | 2 migrations, a shared volume, one write per volume, restarts, one copy at the path of its source | a write before, during and after each copy, on either host; a container that is stopped, missed or restarted |
| `snapshot_calls` | 2 calls of any of 8 requests, 3 names, 2 days | one call between any check and command of the other, a clone in between, a retention with two deletions that fail; reuse of a name by a third call is left to the theorems, which hold for any number of calls |
| `rate_limiter` | 2 clients, burst of 2 requests, clock to 8 with interval 2 and timeout 4 | a bucket is filled, drained, dropped and recreated, twice |
| `sessions` | 2 accounts, at most 4 tokens, clock to 4, two ticks a second | two logins or a login and a refresh; access tokens expire, sweeps happen |
| `snapshot_transfer` | 2 transfers of 3 snapshots, two of one dataset and two with one directory, 1 write, 1 crash | every pair of transfers that share a clone, a directory, both or nothing; a crash at each command with an rsync that goes on. A third transfer can find the clone of one it has nothing in common with on the directory of another; such chains are left to the theorems, which hold for any number of transfers |
| `zfs_host` | 3 calls on a pool with 2 datasets, 1 scrub, 3 dataset numbers, 1 property write | one call of any kind and two that change the pool between any two of its commands: a dataset destroyed and recreated during a read, a scrub or an export between check and command |
| `migration_integrity` | 3 calls, 2 files, 2 versions, 2 writes of others, 2 seconds, 1 crash | a write before and after each file is read, two backups in one second and in two, a resumption over an orphaned one, a verification with stale checksums |
| `event_hub` | 2 connections, 2 events, 2 starts | a connection comes or goes in each send of a broadcast, a broadcast fails or is cancelled with an event behind it |
| `hub_liveness` | 2 anonymous connections, 2 events | the same without users, whose entries the two properties do not mention |

The runs expected to find a violation (`named_volumes`, `retention_applied`) use one
or two migrations or calls.
Bounds on counters are constants named in the modules (`MaxWrites`, `MaxDay`,
`MaxTime`, `MaxTokens`, `MaxConnections`, `MaxEvents`, `MaxStarts`, `MaxVersion`,
`MaxIds`, `MaxScrubs`, `MaxCrashes`) and guards of the actions that count. `CHECK_DEADLOCK
FALSE` is set where the system may stop: all migrations or calls of the instance
are used up and nothing else is due.

Fairness is assumed of the system's own steps only. `WF(TaskStep(m))`: the event
loop resumes a task whose subprocess has ended, and ssh and rsync end.
`WF(WorkerStep)`, `WF(EndpointStep(c))`: the event loop resumes the broadcaster and
the endpoints, and sends end because the server's keep-alive closes a connection
whose peer has stopped reading. `WF(CallStep(c))`: the command executor kills a command after its timeout, so
every command ends. Clients, operators, containers and other users of the pool
owe nothing.

## Proofs

TLAPS checks, for every value of the constants under the named assumptions. A theorem about
a property of a run is named after it (`ReportedCorrect` for `EndedTaskIsReported`) and
states `Spec => []Property`, or `Spec => Property` for an action property or an abstract
specification; each module's `TypeCorrect` states its `TypeOK`.

- `ContainerMigrationProofs`: type correctness, `EndedTaskIsReported`,
  `CutoverAfterTransfer`, `SuccessIsExclusive`, `FailedProgressIsHonest` and
  the refinement of `MigrationLifecycle`. The inductive invariant ties the
  record of a migration to the position of its task: at each place only certain
  statuses and progress values are possible unless the record was cancelled or
  removed, `todo` is complete before the stop step, and a container on the
  target names a migration whose task has reached the cutover. None of the
  properties is inductive by itself: each speaks of ended tasks and needs to
  know what the running ones have done.
  `TransferredDataIsExact` needs more: containers counted as held are down,
  so nobody writes to a volume whose users are all held; a private directory is
  shared with no other rsync when a copy begins nor while it runs, so that the
  copy ends exact; no later step touches it but those of the migration's own
  containers. A directory that is private now always was, because tasks only ever
  start, and containers that are created stay. The proof goes through for any set of
  volumes that is finite (`DockerAssumption`).
- `SnapshotServiceProofs`: type correctness, `AnswersAreTrue`,
  `LostOnlyToDeletion`, `RetentionSparesRecent` and the refinement of `SnapshotStore`.
  The invariant says for each position of a call what its commands can have done so
  far; the refinement needs in addition that a call other than a retention is busy with
  the name it was given, and that no snapshot has a number that was not given out.
- `SnapshotTransferProofs`: type correctness, `SuccessDelivers`, `RemainsAreOvercome`,
  `NoCloneIsLeft`, `EmptiedIsNoticed`. The invariant has three parts. A transfer that
  met no other one owns its clone and its directory from the command that made them to
  the one that takes them away: no other transfer's clone is mounted there, and no other
  rsync reads it. A clone is always held by a transfer that will still try to destroy it,
  unless one of the excuses the property names has come about; a transfer whose destroy
  is refused because the clone is read leaves it to the reader. And a count that was
  taken without a fault is the number of files of the version it was taken of. This proof
  is what showed that meeting had been defined too narrowly: with three transfers the
  clone of the first can be on the second's directory when the third starts.
- `RateLimiterProofs`: type correctness, `WindowBound`, `PatientClientIsServed`,
  `IdleBucketsGo` and the refinement of `TokenBuckets`. The invariant is an amortised
  one: what a client was granted plus what its bucket would hold now is at most burst
  plus elapsed time; a dropped bucket was full. The refinement rests on the same fact:
  refilling is additive below the cap, and a sweep drops only buckets that are full.
- `AuthTokensProofs`: type correctness, `EndedStayEnded`, `BlacklistIsSwept`,
  `DeletionsSpareAnAdmin` and the refinement of `Sessions`. The invariant says that an
  entry keeps the token's own expiry, that an ended token is listed or expired, and that
  the last sweep left nothing expired. For the refinement, whoever the service takes for
  authenticated must hold a good token of `Sessions`, which is the second of these.
- `EventHubProofs`: type correctness, `MapsAgree`, `BroadcastsInOrder`,
  `NoticeReachesUser`, `DoneReachesAll`. Every event is in one place (sent, being
  sent, queued) and these are ordered; a broadcast that met no new key and finds
  the size it knows has lost no key either, which is a count, and has dealt with
  everything before its position.
- `ZfsHostProofs`: type correctness, `AnswersAreTrue`, `ReadsAreCurrent`. The first
  two need to know which operation each command serves and what a call's commands
  can have done when it waits for a given one. That it was done to the dataset asked
  for needs that a dataset bears the name it was created with, or had at first, and that
  a call's effects never leave its scope (`NInv`). The third needs that a dataset number
  is given once and versions only grow, so that what an acknowledged call saw is a
  lower bound on what every later read sees; the relation `Evolves` says how a step
  may change the datasets. The assumption `DatasetAssumption` says that
  the first datasets are numbered from one, each differently.
- `MigrationIntegrityProofs`: type correctness, `VerifiedIsTrue`, `ResumedIsComplete`,
  `RollbackIsThere`. The invariant says of a call that is calm that the finished part
  of its work is still so: files found to match do, files transferred are the
  source's, files copied are the target's. A step of another call either leaves the
  files alone or ends its calm. `RollbackIsThere` needs in addition that a backup
  which is there was written by a call that named it, so that a name of one's own
  holds nothing at first. What a verification was told is in `seen` from the step in
  which it was told so, and stays. Only a call's own last step can answer "ok"
  (`HowCallsEnd`), also when the service goes down. `IntegrityAssumption` says that
  there is a file and that a request names a known port or migration.

Of the liveness of tasks and calls, the half that is a safety property is proved:

- `TaskComesToAnEnd` (`ContainerMigrationProofs`): a measure, at most two steps for
  each volume and three more, goes down with every step of the task and up with none
  of anybody else: no restart of a container, cancel, cleanup or other migration
  sends a task back.
- `CallComesToAnEnd` (`SnapshotServiceProofs`): the same of a call of the snapshot
  service, whose retention goes through a set of names that only shrinks, also when
  deletions fail.

- `QueueMovesOn` (`EventHubProofs`): with every step of the worker either a send less is
  left of the present broadcast or every queued event moves up; nobody else turns this
  back, although connections enter and leave the dictionary the broadcast runs over.
- `GoneGoOn` (`EventHubProofs`): an endpoint whose peer left is resumed at most four more
  times and is then forgotten, whatever broadcasts and notices do to it.

What is missing to `RecordSettles`, `CallsAnswered`, `QueueDrains` and `GoneAreForgotten` is
that a step is always possible and is taken, which speaks of ENABLED and fairness; TLC
checks it. The four statements were also model-checked, on small instances, before they were proved.

Only model-checked: the liveness properties (`RecordSettles`, `CallsAnswered`,
`GoneAreForgotten`, `QueueDrains`), which are out of the prover's reach.

## Known disagreements

Statements of the repository that the models refute. The first two are runs; the
others were found in the same way, or while reading, and are kept here.

- `named_volumes`, property `CompletedKeepsAllVolumes`: "Zero Data Loss Guarantee" (`README.md:293`); every named volume
  goes to the same `_data` directory and `rsync --delete` removes the one before.
- `retention_applied`, property `RetentionIsApplied`: "Number of days to retain snapshots"
  (`snapshot_router.py:187`); the creation time is never parsed.
- "Migration cancelled successfully" (`migration_router.py:113`): the task goes on and
  its next report overwrites the record. `MigrationLifecycle` therefore allows it.
- "Skip the first network (already connected during creation)" (`docker_ops.py:620`):
  the created container is on no network of its own.
- "New access and refresh tokens" (`auth_router.py:133`): a refresh in the second in
  which the token was issued returns the blacklisted token again.
- "You can now safely migrate to this host" (`migration_router.py:578`): the key counts
  as known if the host's name occurs anywhere in `known_hosts`, whatever the port.
- "All N files verified successfully" (`migration_router.py:1637`): files whose
  checksum could not be computed on the target are counted neither way.
- The verify-integrity endpoint looks for a file that nothing writes
  (`migration_router.py:743`), so it never succeeds.
- "Default, will be updated by status check" (`pool_service.py:742`): it never is, and
  every pool is listed as ONLINE; `get_pool` also takes an unknown state for ONLINE.
- `zpool status -x <pool>` never prints "all pools are healthy" (`pool_service.py:557`),
  so that a healthy pool is reported with an error and a lower health score.
- A `stop` of a scrub stops whichever scrub runs when its command does, not the one
  it saw; the scrub status, performance and ARC endpoints answer 200 with an error
  in the body, the last always, as `cat` is not an allowed command.
- "Recreate containers on target host with updated volume paths" (`docker_ops.py:513`):
  the bindings are inverted (`docker_ops.py:552`), so that a container has the source's
  path of the target host, mounted under the name of the directory with the copy.
- "Decorator for applying rate limiting to specific endpoints." (`rate_limiting.py:265`):
  it finds no request among the positional arguments and lets every call pass.
- An incremental snapshot answers success when its bookmark failed, which is only logged
  (`snapshot_service.py:305`).
- `get_dataset` merges what two commands report (`dataset_service.py:61-67`); when the
  dataset is destroyed and created again in between, the answer never was.
- `verify_transfer` counts with `find | wc -l` (`transfer_ops.py:376`): a `find` that
  fails counts nothing, without an error, and nothing equals an emptied target.
- An rsync between two remote hosts quotes its `-e` twice (`transfer_ops.py:580`): the
  port becomes a further source, rsync fails, and the transfer can never succeed.
- Two directory backups of one migration in one second have one name
  (`migration_router.py:1146`); the second is nested in the first and both are reported.
- A checkpoint that cannot be written empties the earlier one
  (`migration_router.py:1424`).

## Abstractions

- Names, paths, images, ports and labels appear only as far as a property tells
  them apart. Inputs are those that passed validation.
- The Docker daemons, rsync, ssh and the pool are external: they succeed, fail,
  or fail half-way, as the code that calls them allows for. docker-py is external too:
  its `containers.run` is taken to accept the configuration the code builds
  (`docker_ops.py:593-608`) and to return when the container is started.
- For the registry, limiter, accounts and blacklist, which are in memory, a restart of
  the service is a return to the initial state, and no action of their models. What a
  crash leaves on disks and hosts and is read again (clones, checkpoints, half-done
  targets, running rsyncs) is modelled: `Crash` in `SnapshotTransfer` and
  `MigrationIntegrity`.
- Clocks are monotonic and one call reads its clock once.
- The legacy `start_migration` raises `ValueError` on every path, so only
  container migrations are modelled.

## Plan

In order of weight; the parts that are not modelled yet are marked in
`PROJECT.json` with their reasons.

1. Done: the migration core, its abstract life cycle, runs and proofs; the
   snapshot service; the rate limiter; authentication; the WebSocket hub.
2. Done: `SnapshotTransfer`, `ZfsHost` and `MigrationIntegrity` with their runs, and
   the proofs about the last two.
3. Done: every property of a passing run that is not a liveness property is a
   theorem, and of the liveness properties the safety half; the rate limiter, the token
   service and the snapshot service refine their ideals.
4. Left: abstract specifications of `ZfsHost`, `MigrationIntegrity` and
   `SnapshotTransfer`; progress measures of their calls.

## Not modelled

- Container discovery, system information, host capabilities and stack listings:
  they read and report, and keep nothing.
- The validate endpoint and the storage check beyond their verdict: no start
  depends on the endpoint, and the space that the check compares is used up by
  transfers whose failure for lack of it is modelled as any other failure.
- Predicates on names and commands, configuration, entities, logging and entry
  points: stateless, or set once.
- `start_migration`: it raises `ValueError` on every path.
- The reading of containers and compose files (`docker_ops.py:96-274`):
  `start_container_migration` finds a migration's containers with it, from a compose
  file, by name or by labels. The models take what it finds as the request. Only the
  search by project label (`docker_ops.py:96-125`) is left to container discovery.
