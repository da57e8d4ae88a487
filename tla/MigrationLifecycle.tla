-------------------------- MODULE MigrationLifecycle --------------------------
(***************************************************************************)
(* What clients of the migration API may rely on about the life of one     *)
(* migration id, whatever else the service is doing: an id is used once, a *)
(* completed or failed migration keeps its verdict until it is cleaned up, *)
(* and what was cleaned up never comes back.  A cancelled migration is NOT *)
(* final: the task behind it goes on and relabels it.                      *)
(***************************************************************************)
CONSTANT MigrationIds

VARIABLE life

States == {"unused", "running", "cancelled", "completed", "failed", "gone"}

Live == {"running", "cancelled"}

Init == life = [m \in MigrationIds |-> "unused"]

Becomes(m, state) == life' = [life EXCEPT ![m] = state]

Begin(m)  == life[m] = "unused" /\ Becomes(m, "running")

Reject(m) == life[m] = "unused" /\ Becomes(m, "gone")

Cancel(m) == life[m] = "running" /\ Becomes(m, "cancelled")

Resume(m) == life[m] = "cancelled" /\ Becomes(m, "running")

Conclude(m) == life[m] \in Live /\ \E s \in {"completed", "failed"} : Becomes(m, s)

Discard(m) == life[m] \notin {"unused", "gone"} /\ Becomes(m, "gone")

Next == \E m \in MigrationIds :
          \/ Begin(m) \/ Reject(m) \/ Cancel(m)
          \/ Resume(m) \/ Conclude(m) \/ Discard(m)

Spec == Init /\ [][Next]_life
===============================================================================
