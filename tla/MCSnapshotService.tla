--------------------------- MODULE MCSnapshotService ---------------------------
(* Instances of SnapshotService for TLC. *)
EXTENDS SnapshotService, TLC

CONSTANTS n1, n2, n3

\* n1 and n2 were there before, n3 is a free name.
TwoOldSnapshots ==
  (n1 :> [id |-> 1, day |-> 0, cloned |-> FALSE])
    @@ (n2 :> [id |-> 2, day |-> 0, cloned |-> FALSE])
    @@ (n3 :> Absent)

Ask(op, n) == [op |-> op, name |-> n, base |-> n, days |-> 0, dry |-> FALSE]

Retain(days, dry) == [Ask("retention", n1) EXCEPT !.days = days, !.dry = dry]

\* Everything that touches the names n1 and n2, n3 made incrementally from n2.
AllRequests ==
  {Ask("create", n2), Ask("destroy", n1), Ask("destroy", n2), Ask("rollback", n2),
   [Ask("incremental", n3) EXCEPT !.base = n2],
   Retain(-1, FALSE), Retain(0, FALSE), Retain(1, FALSE), Retain(0, TRUE)}

RetainOneDay == {Retain(1, FALSE)}
===============================================================================
