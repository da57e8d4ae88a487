--------------------------- MODULE SnapshotTransfer ---------------------------
(***************************************************************************)
(* Moving the data of a snapshot to another host:                          *)
(* TransferOperations.transfer_volume_data and verify_transfer             *)
(* (backend/transfer_ops.py), for callers that run at the same time.       *)
(*                                                                         *)
(* The methods suspend only while a command runs; pc[t] is the command the *)
(* transfer t waits for, and an action is the run of that command with the *)
(* code that follows it.  The local rsync reads a temporary clone.  Its    *)
(* name is made from the dataset and the directory it is mounted at from   *)
(* the snapshot's name, so transfers meet in both.                         *)
(*                                                                         *)
(* Data is a version number of a dataset.  Every transfer has a target of  *)
(* its own; targets that coincide are the subject of ContainerMigration.   *)
(***************************************************************************)
EXTENDS Naturals

CONSTANTS Transfers,
          Requests,     \* what the transfers may be asked for
          Datasets, Snapshots, Dirs,
          DatasetOf,    \* snapshot -> its dataset, all of it the clone's name holds
          MountPoint,   \* snapshot -> directory: '/' and '@' become '_', so names may collide
          Taken,        \* snapshot -> the version it froze
          Files,        \* version -> how many files it has
          MaxVersion,   \* bound on the writes to a dataset
          MaxCrashes,   \* bound on the crashes of the service
          Empty, Other, \* a directory without files; data that is no version
          None

VARIABLES clone,        \* dataset -> its temporary clone
          live,         \* dataset -> its current version
          exists,       \* transfer -> whether its target dataset is there
          received,     \* transfer -> what its target holds
          pc, req,
          reads,        \* transfer -> the dataset whose clone its rsync reads
          seen,         \* transfer -> what its rsync found when it started
          orphans,      \* clones read by an rsync whose service died
          crashes,
          answer,
          counted, verdict,   \* verify_transfer: source_count and the result
          faulted,      \* history: a command of the transfer failed for no reason modelled
          met           \* history: it shared a clone or a directory with another one

copyVars == <<received, reads, seen>>

verifyVars == <<counted, verdict>>

vars == <<clone, live, exists, copyVars, pc, req, orphans, crashes, answer,
          verifyVars, faulted, met>>

Versions == 0..MaxVersion

Content == Versions \cup {Empty, Other}

Clone == [data : Content, at : Dirs \cup {None}]

Request == [method : {"rsync", "zfs_send", "remote_rsync", "remote_zfs_send"},
            snap   : Snapshots]

Busy == {"mkdir", "unclone", "clone", "mount", "undo", "parent", "copy", "copying",
         "cleanup", "remove", "create", "send"}

ASSUME TransferAssumption ==
  /\ Requests \subseteq Request
  /\ DatasetOf \in [Snapshots -> Datasets]
  /\ MountPoint \in [Snapshots -> Dirs]
  /\ MaxVersion \in Nat /\ MaxCrashes \in Nat
  /\ Taken \in [Snapshots -> Versions]
  /\ Files \in [Versions -> Nat \ {0}]
  /\ Empty \notin Nat /\ Other \notin Nat /\ Empty # Other
  /\ None \notin Clone /\ None \notin Dirs /\ None \notin Datasets /\ None \notin Request

TypeOK ==
  /\ clone \in [Datasets -> Clone \cup {None}]
  /\ live \in [Datasets -> Versions]
  /\ exists \in [Transfers -> BOOLEAN]
  /\ received \in [Transfers -> Content]
  /\ pc \in [Transfers -> Busy \cup {"idle", "done", "count", "dead"}]
  /\ req \in [Transfers -> Requests \cup {None}]
  /\ reads \in [Transfers -> Datasets \cup {None}]
  /\ seen \in [Transfers -> Content]
  /\ orphans \subseteq Datasets
  /\ crashes \in 0..MaxCrashes
  /\ answer \in [Transfers -> {"none", "ok", "failed"}]
  /\ counted \in [Transfers -> Nat]
  /\ verdict \in [Transfers -> {"none", "same", "different"}]
  /\ faulted \subseteq Transfers \X (Busy \cup {"done", "count"})
  /\ met \subseteq Transfers

Init ==
  /\ clone = [d \in Datasets |-> None]
  /\ live \in [Datasets -> Versions]
  /\ \A s \in Snapshots : Taken[s] \leq live[DatasetOf[s]]
  /\ exists \in [Transfers -> BOOLEAN]
  /\ received = [t \in Transfers |-> Other]
  /\ pc = [t \in Transfers |-> "idle"]
  /\ req = [t \in Transfers |-> None]
  /\ reads = [t \in Transfers |-> None]
  /\ seen = [t \in Transfers |-> Other]
  /\ orphans = {}
  /\ crashes = 0
  /\ answer = [t \in Transfers |-> "none"]
  /\ counted = [t \in Transfers |-> 0]
  /\ verdict = [t \in Transfers |-> "none"]
  /\ faulted = {}
  /\ met = {}

Source(t) == DatasetOf[req[t].snap]

Dir(t) == MountPoint[req[t].snap]

InFlight(t) == pc[t] \in Busy

UsesClone(t) == InFlight(t) /\ req[t].method = "rsync"

-----------------------------------------------------------------------------
(* Commands on the source host. *)

MountedAt(d, p) == clone[d] # None /\ clone[d].at = p

\* A clone that is being read can be neither unmounted nor remounted.
InUse(d) == d \in orphans \/ \E t \in Transfers : pc[t] = "copying" /\ reads[t] = d

Destroyable(d) == clone[d] # None /\ ~InUse(d)

DestroyClone(d) ==
  /\ Destroyable(d)
  /\ clone' = [clone EXCEPT ![d] = None]
  /\ UNCHANGED faulted

\* The command does nothing and says so; a fault if it could have worked.
Refused(t, possible) ==
  /\ faulted' = IF possible THEN faulted \cup {<<t, pc[t]>>} ELSE faulted
  /\ UNCHANGED clone

Goto(t, command) ==
  /\ pc' = [pc EXCEPT ![t] = command]
  /\ UNCHANGED answer

\* Mutant: the failing paths end without a return statement.
Return_NoValue(t, verb) ==
  /\ pc' = [pc EXCEPT ![t] = "done"]
  /\ answer' = [answer EXCEPT ![t] = IF verb = "failed" THEN None ELSE verb]

Return(t, verb) ==
  /\ pc' = [pc EXCEPT ![t] = "done"]
  /\ answer' = [answer EXCEPT ![t] = verb]

-----------------------------------------------------------------------------
(* transfer_volume_data: which method the request takes.  Hosts, names and  *)
(* paths that fail validation are answered before any command, but for the  *)
(* local rsync's: transfer_via_rsync validates them when the clone is       *)
(* mounted, and a request it rejects there is a copy that failed (EndCopy). *)

FirstCommand(method) ==
  CASE method = "rsync"           -> "mkdir"
    [] method = "remote_rsync"    -> "parent"
    [] method = "zfs_send"        -> "create"
    [] method = "remote_zfs_send" -> "send"

\* The in-flight transfers that use the clone or the directory of r as well, or
\* on whose directory the clone of r is mounted, or theirs on the one of r.
Sharing(r) ==
  {u \in Transfers : /\ UsesClone(u)
                     /\ \/ Source(u) = DatasetOf[r.snap]
                        \/ Dir(u) = MountPoint[r.snap]
                        \/ MountedAt(DatasetOf[r.snap], Dir(u))
                        \/ MountedAt(Source(u), MountPoint[r.snap])
                        \/ reads[u] = DatasetOf[r.snap]}

\* What an earlier crash left: a reader of the clone, or another dataset's
\* clone on the directory.
MeetsRemains(r) ==
  \/ DatasetOf[r.snap] \in orphans
  \/ \E d \in Datasets \ {DatasetOf[r.snap]} : MountedAt(d, MountPoint[r.snap])

Start(t, r) ==
  /\ pc[t] = "idle"
  /\ req' = [req EXCEPT ![t] = r]
  /\ Goto(t, FirstCommand(r.method))
  /\ met' = IF r.method = "rsync" /\ (Sharing(r) # {} \/ MeetsRemains(r))
            THEN met \cup Sharing(r) \cup {t} ELSE met
  /\ UNCHANGED <<clone, live, exists, copyVars, orphans, crashes, verifyVars, faulted>>

-----------------------------------------------------------------------------
(* mount_snapshot_for_rsync *)

MakeMountPoint(t) ==
  /\ pc[t] = "mkdir"
  /\ \/ Goto(t, "unclone") /\ UNCHANGED <<clone, faulted>>
     \/ Return(t, "failed") /\ Refused(t, TRUE)
  /\ UNCHANGED <<live, exists, copyVars, req, orphans, crashes, verifyVars, met>>

\* Mutant: an existing clone is left where it is.
RemoveOldClone_Skipped(t) ==
  /\ pc[t] = "unclone"
  /\ Goto(t, "clone")
  /\ UNCHANGED <<clone, faulted>>
  /\ UNCHANGED <<live, exists, copyVars, req, orphans, crashes, verifyVars, met>>

\* Best effort: what a crash left behind goes, and so does the clone of a
\* transfer that has not started to read it.
RemoveOldClone(t) ==
  /\ pc[t] = "unclone"
  /\ \/ DestroyClone(Source(t))
     \/ Refused(t, Destroyable(Source(t)))
  /\ Goto(t, "clone")
  /\ UNCHANGED <<live, exists, copyVars, req, orphans, crashes, verifyVars, met>>

\* Mutant: a clone that exists already will do.
CloneSnapshot_Reuses(t) ==
  /\ pc[t] = "clone"
  /\ clone' = [clone EXCEPT ![Source(t)] =
                 IF @ = None THEN [data |-> Taken[req[t].snap], at |-> None] ELSE @]
  /\ Goto(t, "mount")
  /\ UNCHANGED faulted
  /\ UNCHANGED <<live, exists, copyVars, req, orphans, crashes, verifyVars, met>>

CloneSnapshot(t) ==
  /\ pc[t] = "clone"
  /\ \/ /\ clone[Source(t)] = None
        /\ clone' = [clone EXCEPT ![Source(t)] =
                       [data |-> Taken[req[t].snap], at |-> None]]
        /\ Goto(t, "mount")
        /\ UNCHANGED faulted
     \/ Return(t, "failed") /\ Refused(t, clone[Source(t)] = None)
  /\ UNCHANGED <<live, exists, copyVars, req, orphans, crashes, verifyVars, met>>

\* The clone is addressed by name, whoever made it.
SetMountPoint(t) ==
  /\ pc[t] = "mount"
  /\ \/ /\ Destroyable(Source(t))
        /\ clone' = [clone EXCEPT ![Source(t)].at = Dir(t)]
        /\ Goto(t, "parent")
        /\ UNCHANGED faulted
     \/ Goto(t, "undo") /\ Refused(t, Destroyable(Source(t)))
  /\ UNCHANGED <<live, exists, copyVars, req, orphans, crashes, verifyVars, met>>

UndoClone(t) ==
  /\ pc[t] = "undo"
  /\ \/ DestroyClone(Source(t))
     \/ Refused(t, Destroyable(Source(t)))
  /\ Return(t, "failed")
  /\ UNCHANGED <<live, exists, copyVars, req, orphans, crashes, verifyVars, met>>

-----------------------------------------------------------------------------
(* transfer_via_rsync and transfer_via_remote_rsync *)

\* create_target_directories: nobody looks at its result.
MakeTargetParent(t) ==
  /\ pc[t] = "parent"
  /\ Goto(t, "copy")
  /\ UNCHANGED <<clone, live, exists, copyVars, req, orphans, crashes, verifyVars,
                 faulted, met>>

\* What rsync finds: the live volume on a remote source; else a clone mounted
\* on the directory, or the bare directory when there is none any more.
Found(t) ==
  IF req[t].method = "remote_rsync"
  THEN {<<None, live[Source(t)]>>}
  ELSE LET mounted == {d \in Datasets : MountedAt(d, Dir(t))}
       IN  IF mounted = {} THEN {<<None, Empty>>}
           ELSE {<<d, clone[d].data>> : d \in mounted}

StartCopy(t) ==
  /\ pc[t] = "copy"
  /\ \E f \in Found(t) :
       /\ reads' = [reads EXCEPT ![t] = f[1]]
       /\ seen' = [seen EXCEPT ![t] = f[2]]
  /\ received' = [received EXCEPT ![t] = Other]
  /\ Goto(t, "copying")
  /\ UNCHANGED <<clone, live, exists, req, orphans, crashes, verifyVars, faulted, met>>

\* What the local rsync has to read when it ends, after all that happened meanwhile.
FoundNow(t) == IF reads[t] # None THEN clone[reads[t]].data ELSE Empty

\* Mutant: the cleanup is not in a finally.
EndCopy_NoFinally(t) ==
  /\ pc[t] = "copying"
  /\ reads' = [reads EXCEPT ![t] = None]
  /\ seen' = [seen EXCEPT ![t] = Other]
  /\ \/ /\ req[t].method = "rsync"
        /\ answer' = [answer EXCEPT ![t] = "ok"]
        /\ received' = [received EXCEPT ![t] = IF FoundNow(t) = seen[t] THEN seen[t] ELSE Other]
        /\ UNCHANGED faulted
     \/ /\ answer' = [answer EXCEPT ![t] = "failed"]
        /\ faulted' = IF seen[t] = Empty THEN faulted ELSE faulted \cup {<<t, "copying">>}
        /\ UNCHANGED received
  /\ pc' = [pc EXCEPT ![t] = IF req[t].method = "rsync" /\ answer'[t] = "ok" THEN "cleanup" ELSE "done"]
  /\ UNCHANGED <<clone, live, exists, req, orphans, crashes, verifyVars, met>>

\* rsync --delete makes the target equal to what it read.  It does not read a
\* directory that is gone, and fails for reasons of its own.  On a remote source
\* it always fails: -e is quoted twice, so that rsync reads the port as the name
\* of one more source.
EndCopy(t) ==
  /\ pc[t] = "copying"
  /\ pc' = [pc EXCEPT ![t] = IF req[t].method = "rsync" THEN "cleanup" ELSE "done"]
  /\ reads' = [reads EXCEPT ![t] = None]
  /\ seen' = [seen EXCEPT ![t] = Other]
  /\ \/ /\ req[t].method = "rsync"
        /\ answer' = [answer EXCEPT ![t] = "ok"]
        /\ received' = [received EXCEPT ![t] = IF FoundNow(t) = seen[t] THEN seen[t] ELSE Other]
        /\ UNCHANGED faulted
     \/ /\ answer' = [answer EXCEPT ![t] = "failed"]
        /\ faulted' = IF seen[t] = Empty THEN faulted ELSE faulted \cup {<<t, "copying">>}
        /\ UNCHANGED received
  /\ UNCHANGED <<clone, live, exists, req, orphans, crashes, verifyVars, met>>

\* cleanup_rsync_mount; its result is dropped.
CleanUp(t) ==
  /\ pc[t] = "cleanup"
  /\ \/ DestroyClone(Source(t)) /\ Goto(t, "remove")
     \/ Refused(t, Destroyable(Source(t))) /\ Goto(t, "done")
  /\ UNCHANGED <<live, exists, copyVars, req, orphans, crashes, verifyVars, met>>

\* rm -rf: what is mounted there by now loses its files.
RemoveMountPoint(t) ==
  /\ pc[t] = "remove"
  /\ \/ \E d \in Datasets : /\ MountedAt(d, Dir(t))
                            /\ clone' = [clone EXCEPT ![d].data = Empty]
     \/ (\A d \in Datasets : ~MountedAt(d, Dir(t))) /\ UNCHANGED clone
  /\ Goto(t, "done")
  /\ UNCHANGED <<live, exists, copyVars, req, orphans, crashes, verifyVars, faulted, met>>

-----------------------------------------------------------------------------
(* transfer_via_zfs_send and transfer_via_remote_zfs_send *)

\* zfs create -p on the target; a failure is a warning.
CreateTarget(t) ==
  /\ pc[t] = "create"
  /\ \/ exists' = [exists EXCEPT ![t] = TRUE] /\ UNCHANGED faulted
     \/ UNCHANGED exists /\ faulted' = faulted \cup {<<t, "create">>}
  /\ Goto(t, "send")
  /\ UNCHANGED <<clone, live, copyVars, req, orphans, crashes, verifyVars, met>>

\* A full stream is received whole or not at all, and only as a new dataset.
SendSnapshot(t) ==
  /\ pc[t] = "send"
  /\ \/ /\ ~exists[t]
        /\ exists' = [exists EXCEPT ![t] = TRUE]
        /\ received' = [received EXCEPT ![t] = Taken[req[t].snap]]
        /\ Return(t, "ok")
        /\ UNCHANGED faulted
     \/ /\ Return(t, "failed")
        /\ faulted' = IF exists[t] THEN faulted ELSE faulted \cup {<<t, "send">>}
        /\ UNCHANGED <<exists, received>>
  /\ UNCHANGED <<clone, live, reads, seen, req, orphans, crashes, verifyVars, met>>

-----------------------------------------------------------------------------
(* verify_transfer, for a transfer that was answered. *)

Counts == {0} \cup {Files[v] : v \in Versions}

\* `find | wc -l` answers wc's exit code: a find that failed counts nothing.
CountFiles(t, content, n) ==
  \/ /\ CASE content \in Versions -> n = Files[content]
          [] content = Empty      -> n = 0
          [] content = Other      -> TRUE
     /\ UNCHANGED faulted
  \/ n = 0 /\ faulted' = faulted \cup {<<t, pc[t]>>}

\* The path that is counted is one of this host, where a remote source has
\* nothing to do with it.
Countable(t) ==
  IF req[t].method \in {"rsync", "zfs_send"} THEN live[Source(t)] ELSE Other

\* Mutant: the target is counted on both sides.
CountSource_Target(t) ==
  /\ pc[t] = "done" /\ verdict[t] = "none"
  /\ \E n \in Counts : /\ CountFiles(t, received[t], n)
                       /\ counted' = [counted EXCEPT ![t] = n]
  /\ Goto(t, "count")
  /\ UNCHANGED <<clone, live, exists, copyVars, req, orphans, crashes, verdict, met>>

CountSource(t) ==
  /\ pc[t] = "done" /\ verdict[t] = "none"
  /\ \E n \in Counts : /\ CountFiles(t, Countable(t), n)
                       /\ counted' = [counted EXCEPT ![t] = n]
  /\ Goto(t, "count")
  /\ UNCHANGED <<clone, live, exists, copyVars, req, orphans, crashes, verdict, met>>

CompareWithTarget(t) ==
  /\ pc[t] = "count"
  /\ \E n \in Counts :
       /\ CountFiles(t, received[t], n)
       /\ verdict' = [verdict EXCEPT ![t] = IF n = counted[t] THEN "same" ELSE "different"]
  /\ Goto(t, "done")
  /\ counted' = [counted EXCEPT ![t] = 0]
  /\ UNCHANGED <<clone, live, exists, copyVars, req, orphans, crashes, met>>

-----------------------------------------------------------------------------
TransferStep(t) ==
  \/ MakeMountPoint(t) \/ RemoveOldClone(t) \/ CloneSnapshot(t)
  \/ SetMountPoint(t) \/ UndoClone(t)
  \/ MakeTargetParent(t) \/ StartCopy(t) \/ EndCopy(t)
  \/ CleanUp(t) \/ RemoveMountPoint(t)
  \/ CreateTarget(t) \/ SendSnapshot(t)
  \/ CountSource(t) \/ CompareWithTarget(t)

\* Whoever uses the dataset goes on writing to it.
Write(d) ==
  /\ live[d] < MaxVersion
  /\ live' = [live EXCEPT ![d] = @ + 1]
  /\ UNCHANGED <<clone, exists, copyVars, pc, req, orphans, crashes, answer,
                 verifyVars, faulted, met>>

\* The service dies between two commands.  Its clones stay; an rsync that was
\* running may go on without it.
Crash ==
  /\ crashes < MaxCrashes
  /\ \E t \in Transfers : pc[t] \in Busy \cup {"count"}
  /\ crashes' = crashes + 1
  /\ pc' = [t \in Transfers |-> IF pc[t] \in {"idle", "done"} THEN pc[t] ELSE "dead"]
  /\ orphans' \in SUBSET (orphans \cup {reads[t] : t \in {u \in Transfers :
                                          pc[u] = "copying" /\ reads[u] # None}})
  /\ reads' = [t \in Transfers |-> None]
  /\ UNCHANGED <<clone, live, exists, received, seen, req, answer, verifyVars,
                 faulted, met>>

OrphanEnds(d) ==
  /\ d \in orphans
  /\ orphans' = orphans \ {d}
  /\ UNCHANGED <<clone, live, exists, copyVars, pc, req, crashes, answer,
                 verifyVars, faulted, met>>

Next ==
  \/ \E t \in Transfers : TransferStep(t) \/ \E r \in Requests : Start(t, r)
  \/ \E d \in Datasets : Write(d) \/ OrphanEnds(d)
  \/ Crash

Spec == Init /\ [][Next]_vars

-----------------------------------------------------------------------------
(* Properties. *)

FromSnapshot == {"rsync", "zfs_send", "remote_zfs_send"}

\* A transfer that reports success left exactly the snapshot on the target,
\* whatever was written to the dataset meanwhile and whatever clone of its own
\* dataset an earlier crash left behind.  Excepted is a local rsync that met
\* another one on its clone or directory, an rsync that outlived the service and
\* still reads the clone, or another dataset's clone that a crash left mounted on
\* the directory: the target may then hold another snapshot or nothing.
SuccessDelivers ==
  \A t \in Transfers :
    /\ pc[t] = "done" /\ answer[t] = "ok" /\ req[t].method \in FromSnapshot
    /\ t \notin met
    => received[t] = Taken[req[t].snap]

\* Remains of a crash do not stop later transfers: a local rsync that met no
\* other one fails only if one of its own commands failed.
RemainsAreOvercome ==
  \A t \in Transfers :
    /\ pc[t] = "done" /\ answer[t] = "failed" /\ req[t].method = "rsync"
    /\ t \notin met
    => \E command \in Busy : <<t, command>> \in faulted

\* A transfer of another dataset whose directory has the same name.
Collide(d) ==
  \E t, u \in met : Source(t) = d /\ Source(u) # d /\ Dir(t) = Dir(u)

\* Whatever the transfers of a dataset do to each other, the last of them
\* takes the clone away, on every path: a clone that outlives them all, which
\* would keep its snapshot from being destroyed, is due to a crash, to a
\* destroy that failed for its own reasons or to a collision of directories.
NoCloneIsLeft ==
  \A d \in Datasets :
    /\ clone[d] # None /\ crashes = 0 /\ ~Collide(d)
    /\ \A t \in Transfers : UsesClone(t) => Source(t) # d
    => \E t \in Transfers : /\ req[t] # None /\ Source(t) = d
                            /\ {<<t, "undo">>, <<t, "cleanup">>} \cap faulted # {}

\* The success of an rsync that found its clone gone is what the verification
\* exists for: it never calls an emptied target the same, unless a count failed.
EmptiedIsNoticed ==
  \A t \in Transfers :
    /\ verdict[t] = "same"
    /\ {<<t, "done">>, <<t, "count">>} \cap faulted = {}
    => received[t] # Empty
===============================================================================
