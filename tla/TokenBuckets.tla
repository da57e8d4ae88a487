----------------------------- MODULE TokenBuckets -----------------------------
(***************************************************************************)
(* The limiter that RateLimiter stands for: every client there could ever  *)
(* be has a bucket from the beginning, the buckets fill at every instant,  *)
(* and none is made, kept, swept or looked at only when somebody asks.     *)
(***************************************************************************)
EXTENDS Naturals

CONSTANTS Ids, Capacity, Cost, MaxTime

VARIABLES now, level, outcome

vars == <<now, level, outcome>>

Init ==
  /\ now = 0
  /\ level = [i \in Ids |-> Capacity]
  /\ outcome = [i \in Ids |-> "none"]

Tick ==
  /\ now < MaxTime
  /\ now' = now + 1
  /\ level' = [i \in Ids |-> IF level[i] < Capacity THEN level[i] + 1 ELSE level[i]]
  /\ UNCHANGED outcome

Grant(i) ==
  /\ level[i] \geq Cost
  /\ level' = [level EXCEPT ![i] = @ - Cost]
  /\ outcome' = [outcome EXCEPT ![i] = "allowed"]
  /\ UNCHANGED now

Deny(i) ==
  /\ level[i] < Cost
  /\ outcome' = [outcome EXCEPT ![i] = "refused"]
  /\ UNCHANGED <<now, level>>

Next == Tick \/ \E i \in Ids : Grant(i) \/ Deny(i)

Spec == Init /\ [][Next]_vars
===============================================================================
