-------------------------- MODULE MigrationIntegrity --------------------------
(***************************************************************************)
(* The safety functions around a migration, backend/api/routers/           *)
(* migration_router.py: the host key, the safety snapshot of the target,   *)
(* checkpoints and the resumption of a transfer, checksums of the source   *)
(* and their verification on the target.                                   *)
(*                                                                         *)
(* A call is one of them at work.  It suspends only while a process runs   *)
(* (ssh, ssh-keyscan, rsync); the checksum walk never suspends, so while   *)
(* it lasts no other call moves, but the files do.  Source and target are  *)
(* one directory each, a file is its version, 0 when there is none.        *)
(***************************************************************************)
EXTENDS Naturals, FiniteSets

CONSTANTS Calls,
          Ids,          \* migrations
          Requests,     \* what the calls may ask for
          Asks,         \* Asks[c]: what c may ask for
          Files,
          MaxVersion,   \* bound on the versions of a file
          FirstSource, FirstTarget,
          Saved,        \* the migrations a checkpoint file is left of
          FirstKnown,   \* what known_hosts may hold at first
          Ports,        \* ssh ports of the target host, Default among them
          Default,      \* 22
          MaxWrites,    \* bound on the writes of others to source and target
          MaxTime,      \* bound on the seconds in which backups are named
          MaxCrashes,   \* bound on the crashes of the service
          None

VARIABLES source, target,
          zfs,          \* whether the target is a ZFS dataset
          known,        \* known[p]: key blocks of port p in known_hosts
          checkpoint,   \* checkpoint[m]: whether the checkpoint file of m is there
          sums,         \* sums[m]: what generate_source_checksums returned for m
          backup,       \* backup[n]: the copy of the target that is named n
          pc, req, answer,
          todo,         \* todo[c]: files the work of c has still to do
          expected,     \* expected[c]: the checksums c gathers or verifies
          tally,        \* tally[c]: what c found about each file
          named,        \* named[c]: the name c gave its backup, or None
          calm,         \* history: no other has written what c reads and writes
          seen,         \* history: what the target has held since c began to verify
          writes, crashes

files == <<source, target>>
stored == <<known, checkpoint, sums, backup>>
work == <<todo, expected, tally>>
history == <<calm, seen>>
limits == <<writes, crashes>>
vars == <<files, zfs, stored, pc, req, answer, work, named, history, limits>>

Version == 0..MaxVersion
Listing == [Files -> Version]
Findings == {"none", "matched", "missing", "mismatched", "error"}
\* <dataset>@pre-migration-<id>-<second> and <path>.pre-migration-<id>-<second>.
Names == [kind : {"snapshot", "directory"}, id : Ids, at : 1..MaxTime]

ASSUME IntegrityAssumption ==
  /\ IsFiniteSet(Files) /\ Files # {} /\ MaxVersion \in Nat /\ MaxTime \in Nat
  /\ MaxWrites \in Nat /\ MaxCrashes \in Nat
  /\ FirstSource \in Listing /\ FirstTarget \in Listing
  /\ Default \in Ports /\ Saved \subseteq Ids
  /\ FirstKnown \subseteq [Ports -> 0..1]
  /\ Asks \in [Calls -> SUBSET Requests]
  /\ \A r \in Requests : IF r.op = "key" THEN r.port \in Ports ELSE r.id \in Ids
  /\ None \notin Listing /\ None \notin Requests /\ None \notin Calls
  /\ None \notin Names

Nothing == [f \in Files |-> 0]
Untold == [f \in Files |-> "none"]

Busy == {"probe", "dataset", "snapshot", "copy", "confirm", "walk", "rsync", "dry_run", 
         "test", "digest", "scan"}

TypeOK ==
  /\ source \in Listing /\ target \in Listing
  /\ zfs \in BOOLEAN
  /\ known \in [Ports -> 0..1]
  /\ checkpoint \in [Ids -> BOOLEAN]
  /\ sums \in [Ids -> Listing \cup {None}]
  /\ backup \in [Names -> Listing \cup {None}]
  /\ pc \in [Calls -> Busy \cup {"idle", "orphan", "done"}]
  /\ req \in [Calls -> Requests \cup {None}]
  /\ answer \in [Calls -> {"none", "ok", "failed"}]
  /\ todo \in [Calls -> SUBSET Files]
  /\ expected \in [Calls -> Listing]
  /\ tally \in [Calls -> [Files -> Findings]]
  /\ named \in [Calls -> Names \cup {None}]
  /\ calm \in [Calls -> BOOLEAN]
  /\ seen \in [Calls -> SUBSET (Files \X Version)]
  /\ writes \in 0..MaxWrites /\ crashes \in 0..MaxCrashes

Init ==
  /\ source = FirstSource /\ target = FirstTarget
  /\ zfs \in BOOLEAN
  /\ known \in FirstKnown
  /\ checkpoint = [m \in Ids |-> m \in Saved]
  /\ sums = [m \in Ids |-> None]
  /\ backup = [n \in Names |-> None]
  /\ pc = [c \in Calls |-> "idle"]
  /\ req = [c \in Calls |-> None]
  /\ answer = [c \in Calls |-> "none"]
  /\ todo = [c \in Calls |-> {}]
  /\ expected = [c \in Calls |-> Nothing]
  /\ tally = [c \in Calls |-> Untold]
  /\ named = [c \in Calls |-> None]
  /\ calm = [c \in Calls |-> TRUE]
  /\ seen = [c \in Calls |-> {}]
  /\ writes = 0 /\ crashes = 0

-----------------------------------------------------------------------------
Id(c) == req[c].id
In(c, state) == pc[c] = state
Listed(listing) == {f \in Files : listing[f] # 0}

\* The event loop runs c: no other call is in its checksum walk.
Runs(c, state) == In(c, state) /\ \A d \in Calls \ {c} : ~In(d, "walk")

Goto(c, state) ==
  /\ pc' = [pc EXCEPT ![c] = state]
  /\ UNCHANGED <<req, answer>>

\* The call is over and what it worked with is gone.
Answer(c, verdict) ==
  /\ pc' = [pc EXCEPT ![c] = "done"]
  /\ answer' = [answer EXCEPT ![c] = verdict]
  /\ todo' = [todo EXCEPT ![c] = {}]
  /\ expected' = [expected EXCEPT ![c] = Nothing]
  /\ tally' = [tally EXCEPT ![c] = Untold]
  /\ req' = [req EXCEPT ![c] = None]

Fails(c) == Answer(c, "failed")

Verifies(c) == pc[c] \in {"test", "digest"}
Contents(listing) == {<<f, listing[f]>> : f \in Files}

\* The process of c, or somebody else, writes: nobody else's work is undisturbed,
\* and verifications may see what is written.
Disturbs(writer) ==
  /\ calm' = [c \in Calls |-> calm[c] /\ (c = writer \/ pc[c] \in {"idle", "done"})]
  /\ seen' = [c \in Calls |-> seen[c] \cup IF Verifies(c) THEN Contents(target') ELSE {}]

\* What c does first when it is asked for r.
Start(c, r, state) ==
  /\ Runs(c, "idle")
  /\ req' = [req EXCEPT ![c] = r]
  /\ calm' = [calm EXCEPT ![c] = TRUE]
  /\ seen' = [seen EXCEPT ![c] = IF state = "test" THEN Contents(target) ELSE {}]
  /\ pc' = [pc EXCEPT ![c] = state]

\* A call that is answered without ever suspending.
AnswerAtOnce(c, verdict) ==
  /\ Runs(c, "idle")
  /\ pc' = [pc EXCEPT ![c] = "done"]
  /\ answer' = [answer EXCEPT ![c] = verdict]
  /\ UNCHANGED <<req, history>>

-----------------------------------------------------------------------------
(* The host key. *)

StartAddHostKey(c, r) ==
  /\ r.op = "key"
  /\ Start(c, r, "scan")
  /\ UNCHANGED <<files, zfs, stored, answer, work, named, limits>>

\* Whatever line names the host, of whatever port, stands for the key.
HostIsNamed == \E p \in Ports : known[p] > 0

\* Mutant: the key is appended whether or not the host is named already.
AddHostKey_Append(c) ==
  /\ Runs(c, "scan")
  /\ \/ Fails(c) /\ UNCHANGED known
     \/ /\ Answer(c, "ok")
        /\ known' = [known EXCEPT ![req[c].port] = @ + 1]
  /\ UNCHANGED <<files, zfs, checkpoint, sums, backup, named, history, limits>>

AddHostKey(c) ==
  /\ Runs(c, "scan")
  /\ \/ Fails(c) /\ UNCHANGED known
     \/ /\ Answer(c, "ok")
        /\ IF HostIsNamed THEN UNCHANGED known
           ELSE known' = [known EXCEPT ![req[c].port] = @ + 1]
  /\ UNCHANGED <<files, zfs, checkpoint, sums, backup, named, history, limits>>

-----------------------------------------------------------------------------
(* The safety snapshot. *)

StartSafety(c, r) ==
  /\ r.op = "safety"
  /\ Start(c, r, "probe")
  /\ UNCHANGED <<files, zfs, stored, answer, work, named, limits>>

\* The name of a backup holds the time, in seconds, which never goes back.
NameBackup(c, kind) ==
  \E t \in 1..MaxTime :
    /\ \A d \in Calls : named[d] # None => named[d].at <= t
    /\ named' = [named EXCEPT ![c] = [kind |-> kind, id |-> Id(c), at |-> t]]

\* df -T: a probe that fails reads as "not ZFS".
ProbeTarget(c) ==
  /\ Runs(c, "probe")
  /\ \/ zfs /\ Goto(c, "dataset") /\ UNCHANGED <<work, named>>
     \/ /\ NameBackup(c, "directory")
        /\ Goto(c, "copy")
        /\ todo' = [todo EXCEPT ![c] = Files]
        /\ UNCHANGED <<expected, tally>>
  /\ UNCHANGED <<files, zfs, stored, history, limits>>

\* df: the dataset of the target.
FindDataset(c) ==
  /\ Runs(c, "dataset")
  /\ \/ NameBackup(c, "snapshot") /\ Goto(c, "snapshot") /\ UNCHANGED work
     \/ Fails(c) /\ UNCHANGED named
  /\ UNCHANGED <<files, zfs, stored, history, limits>>

\* zfs snapshot: the name must be new.
CreateZfsSnapshot(c) ==
  /\ Runs(c, "snapshot")
  /\ \/ /\ backup[named[c]] = None
        /\ backup' = [backup EXCEPT ![named[c]] = target]
        /\ \/ Goto(c, "confirm") /\ UNCHANGED work
           \/ Fails(c)
     \/ Fails(c) /\ UNCHANGED backup
  /\ UNCHANGED <<files, zfs, known, checkpoint, sums, named, history, limits>>

\* cp -a takes its time.  Into a directory that is there already it copies the
\* target as a subdirectory and leaves the rest as it is.
CopyToBackup(c, f) ==
  /\ In(c, "copy") /\ f \in todo[c]
  /\ IF todo[c] = Files /\ backup[named[c]] # None
     THEN /\ todo' = [todo EXCEPT ![c] = {}]
          /\ UNCHANGED backup
     ELSE /\ todo' = [todo EXCEPT ![c] = @ \ {f}]
          /\ backup' = [backup EXCEPT ![named[c]] =
                          [(IF @ = None THEN Nothing ELSE @) EXCEPT ![f] = target[f]]]
  /\ UNCHANGED <<files, zfs, known, checkpoint, sums, pc, req, answer, expected, tally,
                 named, history, limits>>

\* Mutant: the exit code of cp is not looked at.
EndBackup_AnyExit(c) ==
  /\ Runs(c, "copy")
  /\ Goto(c, "confirm")
  /\ UNCHANGED <<files, zfs, stored, work, named, history, limits>>

EndBackup(c) ==
  /\ Runs(c, "copy")
  /\ \/ todo[c] = {} /\ Goto(c, "confirm") /\ UNCHANGED work
     \/ Fails(c)
  /\ UNCHANGED <<files, zfs, stored, named, history, limits>>

\* verify_safety_snapshot adds "verified" to a result that is a success already.
ConfirmBackup(c) ==
  /\ Runs(c, "confirm")
  /\ Answer(c, "ok")
  /\ UNCHANGED <<files, zfs, stored, named, history, limits>>

-----------------------------------------------------------------------------
(* Checkpoints and resumption. *)

\* create_migration_checkpoint, which never suspends.  The file is emptied before
\* it is written: what fails then takes the earlier checkpoint with it.
CreateCheckpoint(c, r) ==
  /\ r.op = "checkpoint"
  /\ \/ /\ AnswerAtOnce(c, "ok")
        /\ checkpoint' = [checkpoint EXCEPT ![r.id] = TRUE]
     \/ /\ AnswerAtOnce(c, "failed")
        /\ \E emptied \in BOOLEAN :
             checkpoint' = [checkpoint EXCEPT ![r.id] = @ /\ ~emptied]
  /\ UNCHANGED <<files, zfs, known, sums, backup, work, named, limits>>

\* resume_interrupted_migration up to its rsync: the checkpoint and the source
\* directory must be there.  A checkpoint holds no port and no user, so the
\* transfer goes to the default port.  rsync takes the files that are there.
StartResume(c, r) ==
  /\ r.op = "resume"
  /\ \/ /\ checkpoint[r.id]
        /\ Start(c, r, "rsync")
        /\ todo' = [todo EXCEPT ![c] = Listed(source)]
        /\ expected' = [expected EXCEPT ![c] = source]
        /\ UNCHANGED answer
     \/ AnswerAtOnce(c, "failed") /\ UNCHANGED <<todo, expected>>
  /\ UNCHANGED <<files, zfs, stored, tally, named, limits>>

Reached == known[Default] > 0

\* A file arrives under another name and is then renamed.
TransferFile(c, f) ==
  /\ pc[c] \in {"rsync", "orphan"} /\ f \in todo[c]
  /\ Reached /\ source[f] # 0
  /\ todo' = [todo EXCEPT ![c] = @ \ {f}]
  /\ target' = [target EXCEPT ![f] = source[f]]
  /\ Disturbs(c)
  /\ UNCHANGED <<source, zfs, stored, pc, req, answer, expected, tally, named, limits>>

\* --delete-after: what the source did not hold when rsync listed it.  What is
\* deleted or replaced is kept under .rsync-backup-<id> of the target (--backup-dir),
\* which like .rsync-partial is excluded, neither sent nor deleted: Files are the
\* files of neither.
DeleteOthers(c) ==
  /\ Reached
  /\ target' = [f \in Files |-> IF expected[c][f] = 0 THEN 0 ELSE target[f]]
  /\ Disturbs(c)

\* Mutant: rsync without --delete-after.
EndResume_NoDelete(c) ==
  /\ Runs(c, "rsync")
  /\ \/ todo[c] = {} /\ Reached /\ Answer(c, "ok")
     \/ Fails(c)
  /\ UNCHANGED <<files, zfs, stored, named, history, limits>>

\* A file that vanished from the source fails the whole, deletions included.
EndResume(c) ==
  /\ Runs(c, "rsync")
  /\ \/ todo[c] = {} /\ DeleteOthers(c) /\ Answer(c, "ok")
     \/ DeleteOthers(c) /\ Fails(c)
     \/ Fails(c) /\ UNCHANGED <<target, history>>
  /\ UNCHANGED <<source, zfs, stored, named, limits>>

\* create_safe_rsync_operation on its own, with --dry-run.
StartDryRun(c, r) ==
  /\ r.op = "dry_run"
  /\ Start(c, r, "dry_run")
  /\ UNCHANGED <<files, zfs, stored, answer, work, named, limits>>

EndDryRun(c) ==
  /\ Runs(c, "dry_run")
  /\ \/ Reached /\ Answer(c, "ok")
     \/ Fails(c)
  /\ UNCHANGED <<files, zfs, stored, named, history, limits>>

-----------------------------------------------------------------------------
(* Checksums. *)

StartChecksums(c, r) ==
  /\ r.op = "checksums"
  /\ Start(c, r, "walk")
  /\ todo' = [todo EXCEPT ![c] = Listed(source)]
  /\ UNCHANGED <<files, zfs, stored, answer, expected, tally, named, limits>>

\* A file that cannot be read is left out.
ChecksumFile(c, f) ==
  /\ In(c, "walk") /\ f \in todo[c]
  /\ todo' = [todo EXCEPT ![c] = @ \ {f}]
  /\ \/ expected' = [expected EXCEPT ![c][f] = source[f]]
     \/ UNCHANGED expected
  /\ UNCHANGED <<files, zfs, stored, pc, req, answer, tally, named, history, limits>>

\* The result is the caller's; the file it is saved to is read by nobody.
EndChecksums(c) ==
  /\ In(c, "walk") /\ todo[c] = {}
  /\ sums' = [sums EXCEPT ![Id(c)] = expected[c]]
  /\ Answer(c, "ok")
  /\ UNCHANGED <<files, zfs, known, checkpoint, backup, named, history, limits>>

\* The endpoint looks for transdock_checksums_<id>.json, which nothing writes.
VerifyEndpoint(c, r) ==
  /\ r.op = "verify_endpoint"
  /\ AnswerAtOnce(c, "failed")
  /\ UNCHANGED <<files, zfs, stored, work, named, limits>>

StartVerify(c, r) ==
  /\ r.op = "verify"
  /\ sums[r.id] # None
  /\ Start(c, r, "test")
  /\ todo' = [todo EXCEPT ![c] = Listed(sums[r.id])]
  /\ expected' = [expected EXCEPT ![c] = sums[r.id]]
  /\ UNCHANGED <<files, zfs, stored, answer, tally, named, limits>>

\* The next file of the checksums.
Current(c) == CHOOSE f \in todo[c] : TRUE

Found(c, what) ==
  /\ tally' = [tally EXCEPT ![c][Current(c)] = what]
  /\ todo' = [todo EXCEPT ![c] = @ \ {Current(c)}]
  /\ UNCHANGED expected

\* test -f: whatever fails reads as a missing file.
TestFile(c) ==
  /\ Runs(c, "test") /\ todo[c] # {}
  /\ \/ target[Current(c)] # 0 /\ Goto(c, "digest") /\ UNCHANGED work
     \/ Found(c, "missing") /\ UNCHANGED <<pc, req, answer>>
  /\ UNCHANGED <<files, zfs, stored, named, history, limits>>

\* sha256sum.
CompareFile(c) ==
  /\ Runs(c, "digest")
  /\ \/ /\ target[Current(c)] # 0
        /\ Found(c, IF target[Current(c)] = expected[c][Current(c)]
                    THEN "matched" ELSE "mismatched")
     \/ Found(c, "error")
  /\ Goto(c, "test")
  /\ UNCHANGED <<files, zfs, stored, named, history, limits>>

Has(c, what) == \E f \in Files : tally[c][f] = what

\* Mutant: missing files are only reported.
Passed_Missing(c) == ~Has(c, "mismatched") /\ Has(c, "matched")

\* Files whose checksum could not be had do not count.
Passed(c) == ~Has(c, "mismatched") /\ ~Has(c, "missing") /\ Has(c, "matched")

EndVerify(c) ==
  /\ Runs(c, "test") /\ todo[c] = {}
  /\ Answer(c, IF Passed(c) THEN "ok" ELSE "failed")
  /\ seen' = [seen EXCEPT ![c] = {}]
  /\ UNCHANGED <<files, zfs, stored, named, calm, limits>>

-----------------------------------------------------------------------------
(* The rest of the world. *)

WriteSource(f, v) ==
  /\ writes < MaxWrites /\ v # source[f]
  /\ source' = [source EXCEPT ![f] = v] /\ UNCHANGED target
  /\ Disturbs(None) /\ writes' = writes + 1
  /\ UNCHANGED <<zfs, stored, pc, req, answer, work, named, crashes>>

WriteTarget(f, v) ==
  /\ writes < MaxWrites /\ v # target[f]
  /\ target' = [target EXCEPT ![f] = v]
  /\ Disturbs(None) /\ writes' = writes + 1
  /\ UNCHANGED <<source, zfs, stored, pc, req, answer, work, named, crashes>>

\* The service goes down with its calls.  An rsync it started may run on.
Crash ==
  /\ crashes < MaxCrashes
  /\ crashes' = crashes + 1
  /\ pc' = [c \in Calls |-> CASE pc[c] = "rsync" -> "orphan"
                             [] pc[c] \in Busy \ {"rsync"} -> "done"
                             [] OTHER -> pc[c]]
  /\ req' = [c \in Calls |-> IF pc[c] \in Busy \ {"rsync"} THEN None ELSE req[c]]
  /\ tally' = [c \in Calls |-> Untold]
  /\ todo' = [c \in Calls |-> IF pc[c] \in {"rsync", "orphan"} THEN todo[c] ELSE {}]
  /\ expected' = [c \in Calls |-> IF pc[c] \in {"rsync", "orphan"} THEN expected[c] ELSE Nothing]
  /\ seen' = [c \in Calls |-> {}]
  /\ UNCHANGED <<files, zfs, stored, answer, named, calm, writes>>

OrphanEnds(c) ==
  /\ In(c, "orphan")
  /\ \/ DeleteOthers(c)
     \/ UNCHANGED <<target, history>>
  /\ Answer(c, "none")
  /\ UNCHANGED <<source, zfs, stored, named, limits>>

-----------------------------------------------------------------------------
Request(c, r) ==
  \/ StartAddHostKey(c, r) \/ StartSafety(c, r) \/ CreateCheckpoint(c, r)
  \/ StartResume(c, r) \/ StartDryRun(c, r) \/ StartChecksums(c, r)
  \/ VerifyEndpoint(c, r) \/ StartVerify(c, r)

CallStep(c) ==
  \/ AddHostKey(c) \/ ProbeTarget(c) \/ FindDataset(c) \/ CreateZfsSnapshot(c)
  \/ EndBackup(c) \/ ConfirmBackup(c) \/ EndResume(c) \/ EndDryRun(c) \/ EndChecksums(c)
  \/ TestFile(c) \/ CompareFile(c) \/ EndVerify(c)

FileStep(c, f) == CopyToBackup(c, f) \/ TransferFile(c, f) \/ ChecksumFile(c, f)

Next ==
  \/ \E c \in Calls : \E r \in Asks[c] : Request(c, r)
  \/ \E c \in Calls : CallStep(c) \/ OrphanEnds(c)
  \/ \E c \in Calls, f \in Files : FileStep(c, f)
  \/ \E f \in Files, v \in Version : WriteSource(f, v) \/ WriteTarget(f, v)
  \/ Crash

Spec == Init /\ [][Next]_vars

-----------------------------------------------------------------------------
\* c answers now.
Answers(c, op, verdict) ==
  /\ pc[c] \in Busy /\ pc'[c] = "done"
  /\ req[c].op = op /\ answer'[c] = verdict

\* The files of the checksums that c had no trouble with.
Told(c) == {f \in Listed(expected[c]) : tally[c][f] # "error"}

\* A verification that passes has had an answer about some file, and of every file
\* it had one about the target did hold the content of the checksums at some moment
\* of the verification, whatever others wrote meanwhile.  When nobody else wrote,
\* the target holds it still, whatever became of the source since.
VerifiedIsTrue ==
  [][\A c \in Calls :
       Answers(c, "verify", "ok") =>
         /\ Told(c) # {}
         /\ \A f \in Told(c) : <<f, expected[c][f]>> \in seen[c]
         /\ calm[c] => \A f \in Told(c) : target[f] = expected[c][f]]_vars

\* A resumption that succeeds while nobody else writes leaves the target as the
\* source, whatever the interrupted transfer, an rsync that outlived the service or
\* an older content had left there: no file is missing, none is old and, but for
\* what .rsync-backup-<id> and .rsync-partial keep, none is left over.
ResumedIsComplete ==
  [][\A c \in Calls :
       Answers(c, "resume", "ok") /\ calm[c] => target' = source]_vars

\* The backup of c is its own: a snapshot, or a directory no other call of its
\* migration named in the same second.
Own(c) == named[c].kind = "snapshot" \/ \A d \in Calls \ {c} : named[d] # named[c]

\* When a safety snapshot is reported, and nobody wrote while it was taken, what
\* it holds is the whole target, whatever other backups were taken at the same time:
\* a ZFS snapshot always, a directory if no other backup of the same migration took
\* its name, which two calls of one second do and cp does not notice.
RollbackIsThere ==
  [][\A c \in Calls :
       Answers(c, "safety", "ok") /\ calm[c] /\ Own(c) => backup[named[c]] = target]_vars
===============================================================================
