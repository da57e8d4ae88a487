---------------------------- MODULE SnapshotService ----------------------------
(***************************************************************************)
(* Concurrent API calls on the snapshots of one ZFS dataset:               *)
(* SnapshotService (backend/zfs_operations/services/snapshot_service.py)   *)
(* over CommandExecutor (backend/zfs_operations/infrastructure/            *)
(* command_executor.py).                                                   *)
(*                                                                         *)
(* A call is a chain of zfs commands and suspends only while one of them   *)
(* runs; pc[c] is the command the call c waits for.  An action is the run  *)
(* of that command with the code that follows it, up to the next command   *)
(* or the answer.  Several calls, and whoever else uses the pool, run      *)
(* their commands in any order; nothing is locked between a check and the  *)
(* command it was made for.                                                *)
(***************************************************************************)
EXTENDS Integers, FiniteSets

CONSTANTS Calls,        \* API calls
          Requests,     \* what they may ask for
          Names,        \* snapshot names of the dataset
          Existing,     \* its snapshots when the service starts
          MaxDay,       \* bound on the calendar
          Absent, NoRequest, NoName

VARIABLES snaps,        \* name -> the snapshot of that name
          marks,        \* name -> creation number its bookmark refers to, or 0
          taken,        \* snapshots taken so far (the pool's txg)
          day,
          pc, req,
          target,       \* the snapshot name the call is busy with
          todo,         \* retention: what is left of to_delete
          claimed,      \* retention: deleted_count
          answer,
          effects,      \* history: what the commands of the call really did
          due           \* history: what a retention call should delete

zfsVars == <<snaps, marks, taken>>

vars == <<zfsVars, day, pc, req, target, todo, claimed, answer, effects, due>>

Ops == {"create", "incremental", "destroy", "rollback", "retention"}

Commands == {"base", "exists", "snapshot", "fetch", "bookmark", "destroy",
             "rollback", "list"}

\* Who made a snapshot and when, by creation number and by day.
Snapshot == [id : Nat \ {0}, day : 0..MaxDay, cloned : BOOLEAN]

\* The days of a retention are any integer: the router sets no lower bound.
Request == [op : Ops, name : Names, base : Names, days : Int, dry : BOOLEAN]

Present(n) == snaps[n] # Absent

ASSUME SnapshotAssumption ==
  /\ Requests \subseteq Request
  /\ Existing \in [Names -> Snapshot \cup {Absent}]
  /\ \A n \in Names : Existing[n] # Absent => Existing[n].day = 0
  /\ \A m, n \in Names : Existing[m] # Absent /\ Existing[n] # Absent /\ m # n
       => Existing[m].id # Existing[n].id
  /\ IsFiniteSet(Names)
  /\ MaxDay \in Nat
  /\ Absent \notin Snapshot /\ NoRequest \notin Request /\ NoName \notin Names

TypeOK ==
  /\ snaps \in [Names -> Snapshot \cup {Absent}]
  /\ marks \in [Names -> Nat]
  /\ taken \in Nat
  /\ day \in 0..MaxDay
  /\ pc \in [Calls -> Commands \cup {"idle", "answered"}]
  /\ req \in [Calls -> Requests \cup {NoRequest}]
  /\ target \in [Calls -> Names \cup {NoName}]
  /\ todo \in [Calls -> SUBSET Names]
  /\ claimed \in [Calls -> 0..Cardinality(Names)]
  /\ answer \in [Calls -> {"none", "ok", "failed"}]
  /\ effects \in [Calls -> SUBSET ({"created", "destroyed", "restored"} \X Nat)]
  /\ due \in [Calls -> SUBSET Nat]

LastId(s) == IF s = Absent THEN 0 ELSE s.id

Init ==
  /\ snaps = Existing
  /\ marks = [n \in Names |-> 0]
  /\ taken \in {k \in {0} \cup {LastId(Existing[n]) : n \in Names} :
                  \A n \in Names : LastId(Existing[n]) \leq k}
  /\ day = 0
  /\ pc = [c \in Calls |-> "idle"]
  /\ req = [c \in Calls |-> NoRequest]
  /\ target = [c \in Calls |-> NoName]
  /\ todo = [c \in Calls |-> {}]
  /\ claimed = [c \in Calls |-> 0]
  /\ answer = [c \in Calls |-> "none"]
  /\ effects = [c \in Calls |-> {}]
  /\ due = [c \in Calls |-> {}]

-----------------------------------------------------------------------------
(* The zfs commands, as the pool carries them out for the call c.          *)

Did(c, what, id) == effects' = [effects EXCEPT ![c] = @ \cup {<<what, id>>}]

ZfsSnapshot(c, n) ==
  /\ ~Present(n)
  /\ snaps' = [snaps EXCEPT ![n] = [id |-> taken + 1, day |-> day, cloned |-> FALSE]]
  /\ taken' = taken + 1
  /\ Did(c, "created", taken + 1)
  /\ UNCHANGED marks

\* Without -R a snapshot with clones stays.
ZfsDestroy(c, n) ==
  /\ Present(n) /\ ~snaps[n].cloned
  /\ snaps' = [snaps EXCEPT ![n] = Absent]
  /\ Did(c, "destroyed", snaps[n].id)
  /\ UNCHANGED <<marks, taken>>

\* Mutant: the command line gets -r.
ZfsRollback_Recursive(c, n) ==
  /\ Present(n)
  /\ snaps' = [k \in Names |->
                 IF Present(k) /\ snaps[k].id > snaps[n].id THEN Absent ELSE snaps[k]]
  /\ Did(c, "restored", snaps[n].id)
  /\ UNCHANGED <<marks, taken>>

\* Without -r only the most recent snapshot can be restored, and nothing but
\* the dataset's own data changes.
ZfsRollback(c, n) ==
  /\ Present(n)
  /\ \A k \in Names : /\ Present(k) => snaps[k].id \leq snaps[n].id
                      /\ marks[k] \leq snaps[n].id
  /\ Did(c, "restored", snaps[n].id)
  /\ UNCHANGED zfsVars

ZfsBookmark(n) ==
  /\ Present(n) /\ marks[n] = 0
  /\ marks' = [marks EXCEPT ![n] = snaps[n].id]
  /\ UNCHANGED <<snaps, taken, effects>>

Nothing == UNCHANGED <<zfsVars, effects>>

\* How a command ends for _execute_command: it did its work, it did nothing,
\* or it was killed by the timeout with its work done.
Outcomes == {"ok", "failed", "late"}

\* A `zfs list` that fails for whatever reason reads like a missing snapshot.
Sees(n, found) == found \in {b \in BOOLEAN : b => Present(n)}

-----------------------------------------------------------------------------
(* The calls. *)

Goto(c, command) ==
  /\ pc' = [pc EXCEPT ![c] = command]
  /\ UNCHANGED answer

Answer(c, verdict) ==
  /\ pc' = [pc EXCEPT ![c] = "answered"]
  /\ answer' = [answer EXCEPT ![c] = verdict]

FirstCommand(r) ==
  CASE r.op = "incremental" -> "base"
    [] r.op = "retention"   -> "list"
    [] OTHER                -> "exists"

\* Inputs that do not pass validation never get here.
Invoke(c, r) ==
  /\ pc[c] = "idle"
  /\ req' = [req EXCEPT ![c] = r]
  /\ target' = [target EXCEPT ![c] = r.name]
  /\ Goto(c, FirstCommand(r))
  /\ UNCHANGED <<zfsVars, day, todo, claimed, effects, due>>

\* Mutant: the loop does not move on to the next snapshot.
NextDeletion_Keeps(c, left) ==
  \/ /\ left = {}
     /\ Answer(c, "ok")
     /\ UNCHANGED <<todo, target>>
  \/ \E n \in left :
       /\ todo' = [todo EXCEPT ![c] = left]
       /\ target' = [target EXCEPT ![c] = n]
       /\ Goto(c, "exists")

\* The deletion loop: destroy_snapshot for what is left, then the report.
NextDeletion(c, left) ==
  \/ /\ left = {}
     /\ Answer(c, "ok")
     /\ todo' = [todo EXCEPT ![c] = {}]
     /\ UNCHANGED target
  \/ \E n \in left :
       /\ todo' = [todo EXCEPT ![c] = left \ {n}]
       /\ target' = [target EXCEPT ![c] = n]
       /\ Goto(c, "exists")

\* Mutant: the loop tries a failed deletion again.
DestroyEnds_Retries(c, verdict) ==
  LET again == IF verdict = "failed" THEN {target[c]} ELSE {}
  IN  \/ /\ req[c].op = "retention"
         /\ claimed' = [claimed EXCEPT ![c] = IF verdict = "failed" THEN @ ELSE @ + 1]
         /\ NextDeletion(c, todo[c] \cup again)
      \/ /\ req[c].op # "retention"
         /\ Answer(c, verdict)
         /\ UNCHANGED <<claimed, todo, target>>

\* destroy_snapshot is over, in a call of its own or in the loop of a retention.
\* There, `destroy_result.success` is the constructor of Result, not its
\* verdict: a failed deletion is counted like any other.
DestroyEnds(c, verdict) ==
  \/ /\ req[c].op = "retention"
     /\ claimed' = [claimed EXCEPT ![c] = @ + 1]
     /\ NextDeletion(c, todo[c])
  \/ /\ req[c].op # "retention"
     /\ Answer(c, verdict)
     /\ UNCHANGED <<claimed, todo, target>>

CheckBase(c) ==
  /\ pc[c] = "base"
  /\ \E found \in BOOLEAN :
       /\ Sees(req[c].base, found)
       /\ IF found THEN Goto(c, "exists") ELSE Answer(c, "failed")
  /\ UNCHANGED <<zfsVars, day, req, target, todo, claimed, effects, due>>

\* _snapshot_exists: creation wants FALSE, destruction and rollback TRUE.
CheckExists(c) ==
  /\ pc[c] = "exists"
  /\ \E found \in BOOLEAN :
       /\ Sees(target[c], found)
       /\ CASE req[c].op \in {"create", "incremental"} ->
                 /\ IF found THEN Answer(c, "failed") ELSE Goto(c, "snapshot")
                 /\ UNCHANGED <<target, todo, claimed>>
            [] req[c].op = "rollback" ->
                 /\ IF found THEN Goto(c, "rollback") ELSE Answer(c, "failed")
                 /\ UNCHANGED <<target, todo, claimed>>
            [] OTHER ->
                 IF found THEN /\ Goto(c, "destroy")
                               /\ UNCHANGED <<target, todo, claimed>>
                          ELSE DestroyEnds(c, "failed")
  /\ UNCHANGED <<zfsVars, day, req, effects, due>>

\* Mutant: the result of `zfs snapshot` is not looked at.
TakeSnapshot_Unchecked(c) ==
  /\ pc[c] = "snapshot"
  /\ \E outcome \in Outcomes :
       IF outcome = "failed" THEN Nothing ELSE ZfsSnapshot(c, target[c])
  /\ Goto(c, "fetch")
  /\ UNCHANGED <<day, req, target, todo, claimed, due>>

TakeSnapshot(c) ==
  /\ pc[c] = "snapshot"
  /\ \E outcome \in Outcomes :
       /\ IF outcome = "failed" THEN Nothing ELSE ZfsSnapshot(c, target[c])
       /\ IF outcome = "ok" THEN Goto(c, "fetch") ELSE Answer(c, "failed")
  /\ UNCHANGED <<day, req, target, todo, claimed, due>>

\* The created snapshot is read back by name; without it the call fails.
FetchCreated(c) ==
  /\ pc[c] = "fetch"
  /\ \E found \in BOOLEAN :
       /\ Sees(target[c], found)
       /\ CASE ~found -> Answer(c, "failed")
            [] found /\ req[c].op = "incremental" -> Goto(c, "bookmark")
            [] OTHER -> Answer(c, "ok")
  /\ UNCHANGED <<zfsVars, day, req, target, todo, claimed, effects, due>>

\* The bookmark of the base is worth a warning at most.
BookmarkBase(c) ==
  /\ pc[c] = "bookmark"
  /\ ZfsBookmark(req[c].base) \/ Nothing
  /\ Answer(c, "ok")
  /\ UNCHANGED <<day, req, target, todo, claimed, due>>

DestroySnapshot(c) ==
  /\ pc[c] = "destroy"
  /\ \E outcome \in Outcomes :
       /\ IF outcome = "failed" THEN Nothing ELSE ZfsDestroy(c, target[c])
       /\ DestroyEnds(c, IF outcome = "ok" THEN "ok" ELSE "failed")
  /\ UNCHANGED <<day, req, due>>

Rollback(c) ==
  /\ pc[c] = "rollback"
  /\ \E outcome \in Outcomes :
       /\ IF outcome = "failed" THEN Nothing ELSE ZfsRollback(c, target[c])
       /\ Answer(c, IF outcome = "ok" THEN "ok" ELSE "failed")
  /\ UNCHANGED <<day, req, target, todo, claimed, due>>

\* Mutant: a creation time that cannot be parsed is the epoch.
AgeRead_Epoch(s) == MaxDay + 1

\* The age of a listed snapshot as the service computes it.  `creation` is
\* listed without -p, so int() never parses it and "now" takes its place.
AgeRead(s) == 0

\* Strictly before the cutoff: a creation time is earlier than the `now` that
\* the cutoff is counted from, if only by microseconds.
Expired(age, days) == age \geq days

ListSnapshots(c) ==
  LET r       == req[c]
      free    == {n \in Names : Present(n) /\ ~snaps[n].cloned}
      expired == {n \in free : Expired(AgeRead(snaps[n]), r.days)}
      old     == {n \in free : Expired(day - snaps[n].day, r.days)}
  IN  /\ pc[c] = "list"
      /\ \/ /\ Answer(c, "failed")
            /\ UNCHANGED <<target, todo, due>>
         \/ /\ NextDeletion(c, IF r.dry THEN {} ELSE expired)
            /\ due' = [due EXCEPT ![c] = {snaps[n].id : n \in old}]
      /\ UNCHANGED <<zfsVars, day, req, claimed, effects>>

CallStep(c) ==
  \/ CheckBase(c) \/ CheckExists(c)
  \/ TakeSnapshot(c) \/ FetchCreated(c) \/ BookmarkBase(c)
  \/ DestroySnapshot(c) \/ Rollback(c)
  \/ ListSnapshots(c)

-----------------------------------------------------------------------------
NextDay ==
  /\ day < MaxDay
  /\ day' = day + 1
  /\ UNCHANGED <<zfsVars, pc, req, target, todo, claimed, answer, effects, due>>

\* Somebody clones a snapshot or destroys its clones.
CloneOrUnclone(n) ==
  /\ Present(n)
  /\ snaps' = [snaps EXCEPT ![n].cloned = ~@]
  /\ UNCHANGED <<marks, taken, day, pc, req, target, todo, claimed, answer, effects, due>>

Next ==
  \/ \E c \in Calls : CallStep(c) \/ \E r \in Requests : Invoke(c, r)
  \/ NextDay
  \/ \E n \in Names : CloneOrUnclone(n)

Spec == Init /\ [][Next]_vars

\* The executor kills a command after its timeout: every command ends.
FairSpec == Spec /\ \A c \in Calls : WF_vars(CallStep(c))

-----------------------------------------------------------------------------
(* Properties. *)

Promised(op) ==
  CASE op \in {"create", "incremental"} -> "created"
    [] op = "destroy"                   -> "destroyed"
    [] op = "rollback"                  -> "restored"

\* A successful answer means that this very call made, removed or restored one
\* snapshot, whatever the other calls did to the same name between its check,
\* its command and its fetch; a failed one did at most one thing, a dry run
\* none at all.  The bookmark of an incremental call is no part of it: that it may
\* be missing from a success is a known disagreement.
AnswersAreTrue ==
  \A c \in Calls : req[c] # NoRequest =>
    IF req[c].op = "retention"
    THEN req[c].dry => effects[c] = {}
    ELSE /\ \A e, f \in effects[c] : e = f
         /\ \A e \in effects[c] : e[1] = Promised(req[c].op)
         /\ answer[c] = "ok" => effects[c] # {}

\* In this step the snapshot named n goes away, or another one takes its name.
Lost(n) == Present(n) /\ (snaps'[n] = Absent \/ snaps'[n].id # snaps[n].id)

LossIsRequested(n) ==
  Lost(n) => /\ snaps'[n] = Absent /\ ~snaps[n].cloned
             /\ \E c \in Calls : /\ pc[c] = "destroy" /\ target[c] = n
                                /\ req[c].op = "retention" => ~req[c].dry

\* Snapshots are lost to a deletion that names them and to nothing else: not to
\* a rollback, not while they have clones, and never by replacement.
LostOnlyToDeletion == [][\A n \in Names : LossIsRequested(n)]_vars

\* A retention never deletes a snapshot younger than its days, even if the name
\* went to a new snapshot after the listing.
RetentionSparesRecent ==
  [][\A c \in Calls :
       /\ pc[c] = "destroy" /\ req[c].op = "retention" /\ pc'[c] # "destroy"
       /\ Lost(target[c])
       => day - snaps[target[c]].day \geq req[c].days]_vars

\* Every call is answered: the chain of commands has an end, for a retention
\* whose deletions fail too.
CallsAnswered == \A c \in Calls : pc[c] # "idle" ~> pc[c] = "answered"

-----------------------------------------------------------------------------
(* What all that is for. *)

Store == INSTANCE SnapshotStore

\* Between a check and the command it was made for anything may happen, and a
\* command that failed may have done its work.  To those who call it the
\* service is a store that carries out requests one at a time all the same, or
\* fails to (SnapshotStore).
StoreSpec == Store!Spec

-----------------------------------------------------------------------------
(* A statement of the repository that the code does not keep, the property  *)
(* of a run that is expected to violate it.                                 *)

Applied(c) == answer[c] = "ok" /\ req[c].op = "retention" /\ ~req[c].dry

\* "Number of days to retain snapshots" (snapshot_router.py): an answered
\* retention dealt with every snapshot without clones that was old enough.
RetentionIsApplied ==
  \A c \in Calls : Applied(c) => Cardinality(due[c]) \leq claimed[c]
===============================================================================
