----------------------------- MODULE SnapshotStore -----------------------------
(***************************************************************************)
(* What the callers of SnapshotService may rely on: a store that carries   *)
(* out each request at one moment between the call and its answer, or not  *)
(* at all, and says that it did only if it did.  There are no commands, no *)
(* checks before them and nothing to find out of date.                     *)
(***************************************************************************)
EXTENDS Integers

CONSTANTS Calls, Requests, Names, Existing, MaxDay, Absent, NoRequest

VARIABLES snaps, day, req, effects, answer

vars == <<snaps, day, req, effects, answer>>

Init ==
  /\ snaps = Existing
  /\ day = 0
  /\ req = [c \in Calls |-> NoRequest]
  /\ effects = [c \in Calls |-> {}]
  /\ answer = [c \in Calls |-> "none"]

Ask(c, r) ==
  /\ req[c] = NoRequest
  /\ req' = [req EXCEPT ![c] = r]
  /\ UNCHANGED <<snaps, day, effects, answer>>

Pending(c, ops) == req[c] # NoRequest /\ req[c].op \in ops /\ answer[c] = "none"

\* The answer may come with the work or at any time after it, and without it
\* only that of a failure.  A retention may find nothing to do.
Reply(c) ==
  \/ UNCHANGED answer
  \/ \E verdict \in {"ok", "failed"} :
       /\ answer' = [answer EXCEPT ![c] = verdict]
       /\ verdict = "ok" => req[c].op = "retention" \/ effects'[c] # {}

Did(c, what, id) ==
  /\ effects' = [effects EXCEPT ![c] = @ \cup {<<what, id>>}]
  /\ Reply(c)
  /\ UNCHANGED <<day, req>>

\* A name of the store that is free gets a snapshot that is new.
Create(c) ==
  LET n == req[c].name
  IN  /\ Pending(c, {"create", "incremental"}) /\ effects[c] = {}
      /\ snaps[n] = Absent
      /\ snaps'[n] # Absent /\ snaps'[n].day = day /\ ~snaps'[n].cloned
      /\ \A k \in Names : snaps[k] # Absent => snaps[k].id < snaps'[n].id
      /\ \A k \in Names \ {n} : snaps'[k] = snaps[k]
      /\ Did(c, "created", snaps'[n].id)

Remove(c, n) ==
  /\ snaps[n] # Absent /\ ~snaps[n].cloned
  /\ snaps' = [snaps EXCEPT ![n] = Absent]
  /\ Did(c, "destroyed", snaps[n].id)

Destroy(c) ==
  /\ Pending(c, {"destroy"}) /\ effects[c] = {}
  /\ Remove(c, req[c].name)

\* A retention removes snapshots one by one, and none before its time.
Retain(c) ==
  /\ Pending(c, {"retention"}) /\ ~req[c].dry
  /\ \E n \in Names : /\ snaps[n] # Absent
                      /\ snaps[n].day + req[c].days \leq day
                      /\ Remove(c, n)

\* Only to the latest, so that nothing is lost.
Rollback(c) ==
  LET n == req[c].name
  IN  /\ Pending(c, {"rollback"}) /\ effects[c] = {}
      /\ snaps[n] # Absent
      /\ \A k \in Names : snaps[k] # Absent => snaps[k].id \leq snaps[n].id
      /\ Did(c, "restored", snaps[n].id)
      /\ UNCHANGED snaps

Answer(c) ==
  /\ req[c] # NoRequest /\ answer[c] = "none"
  /\ Reply(c)
  /\ UNCHANGED <<snaps, day, req, effects>>

NextDay ==
  /\ day < MaxDay
  /\ day' = day + 1
  /\ UNCHANGED <<snaps, req, effects, answer>>

CloneOrUnclone(n) ==
  /\ snaps[n] # Absent
  /\ snaps' = [snaps EXCEPT ![n].cloned = ~@]
  /\ UNCHANGED <<day, req, effects, answer>>

Next ==
  \/ \E c \in Calls : \/ \E r \in Requests : Ask(c, r)
                      \/ Create(c) \/ Destroy(c) \/ Retain(c) \/ Rollback(c)
                      \/ Answer(c)
  \/ NextDay
  \/ \E n \in Names : CloneOrUnclone(n)

Spec == Init /\ [][Next]_vars
===============================================================================
