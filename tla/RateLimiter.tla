------------------------------ MODULE RateLimiter ------------------------------
(***************************************************************************)
(* One RateLimiter and its TokenBuckets (backend/api/rate_limiting.py).    *)
(* is_allowed never suspends: both locks are free whenever it runs, so a   *)
(* call is one atomic step, cleanup of idle buckets included.              *)
(*                                                                         *)
(* Time and tokens are exact: the unit of time is the time in which the    *)
(* refill rate adds one unit of tokens, and a request costs Cost units     *)
(* ("auth", 10 requests a minute and a burst of 3: unit 1 s, Cost = 6,     *)
(* Capacity = 18).  The clock is taken to be monotonic and one call to     *)
(* read it once.                                                           *)
(***************************************************************************)
EXTENDS Naturals

CONSTANTS Ids,              \* client identifiers
          Capacity,         \* burst size, in units
          Cost,             \* units per request
          CleanupInterval, BucketTimeout,
          MaxTime,          \* bound on the clock
          NoBucket, Never

VARIABLES now,
          buckets,          \* identifier -> its bucket
          lastCleanup,
          lastCall,         \* history: time of the last is_allowed
          from, spent,      \* history: an observed window of each client, and
                            \* the units granted in it
          lastAsk, patient, outcome   \* history: the requests of each client

clientHistory == <<from, spent, lastAsk, patient, outcome>>

vars == <<now, buckets, lastCleanup, lastCall, clientHistory>>

\* The last conjunct holds for every entry of RATE_LIMIT_CONFIGS: the slowest
\* bucket, "auth", is full after 18 s and the timeout is 600 s.
ASSUME LimiterAssumption ==
  /\ Cost \in Nat \ {0}
  /\ Capacity \in Nat /\ Cost \leq Capacity
  /\ CleanupInterval \in Nat \ {0}
  /\ MaxTime \in Nat
  /\ BucketTimeout \in Nat /\ Capacity \leq BucketTimeout

Bucket == [tokens : 0..Capacity, last : 0..MaxTime]

ASSUME NoBucketAssumption == NoBucket \notin Bucket /\ Never \notin Nat

TypeOK ==
  /\ now \in 0..MaxTime
  /\ buckets \in [Ids -> Bucket \cup {NoBucket}]
  /\ lastCleanup \in 0..now
  /\ lastCall \in 0..now
  /\ from \in [Ids -> 0..now]
  /\ spent \in [Ids -> Nat]
  /\ lastAsk \in [Ids -> (0..now) \cup {Never}]
  /\ patient \in [Ids -> BOOLEAN]
  /\ outcome \in [Ids -> {"none", "allowed", "refused"}]

Init ==
  /\ now = 0
  /\ buckets = [i \in Ids |-> NoBucket]
  /\ lastCleanup = 0
  /\ lastCall = 0
  /\ from = [i \in Ids |-> 0]
  /\ spent = [i \in Ids |-> 0]
  /\ lastAsk = [i \in Ids |-> Never]
  /\ patient = [i \in Ids |-> TRUE]
  /\ outcome = [i \in Ids |-> "none"]

-----------------------------------------------------------------------------
(* TokenBucket. *)

\* Mutant: a bucket has to fill up first.
NewBucket_Empty == [tokens |-> 0, last |-> now]

NewBucket == [tokens |-> Capacity, last |-> now]

\* Mutant: tokens pile up beyond the burst size.
Refilled_Uncapped(b) == b.tokens + (now - b.last)

\* What consume finds in the bucket.
Refilled(b) ==
  IF b.tokens + (now - b.last) \leq Capacity THEN b.tokens + (now - b.last) ELSE Capacity

(* RateLimiter. *)

CleanupDue == now - lastCleanup \geq CleanupInterval

Idle(b) == b # NoBucket /\ now - b.last \geq BucketTimeout

\* Mutant: buckets are compared with the wrong of the two durations.
Swept_AfterInterval ==
  [i \in Ids |-> IF buckets[i] # NoBucket /\ now - buckets[i].last \geq CleanupInterval
                 THEN NoBucket ELSE buckets[i]]

Swept == [i \in Ids |-> IF Idle(buckets[i]) THEN NoBucket ELSE buckets[i]]

\* Mutant: every call counts as a cleanup.
CleanupTime_EveryCall == now

CleanupTime == IF CleanupDue THEN now ELSE lastCleanup

Kept == IF CleanupDue THEN Swept ELSE buckets

\* The bucket a request of i is charged to.
BucketOf(i) == IF Kept[i] = NoBucket THEN NewBucket ELSE Kept[i]

\* is_allowed leaves `tokens` in the bucket of i.
Charge(i, tokens) ==
  /\ buckets' = [Kept EXCEPT ![i] = [tokens |-> tokens, last |-> now]]
  /\ lastCleanup' = CleanupTime
  /\ lastCall' = now
  /\ patient' = [patient EXCEPT ![i] =
                   @ /\ (lastAsk[i] # Never => now - lastAsk[i] \geq Cost)]
  /\ lastAsk' = [lastAsk EXCEPT ![i] = now]
  /\ UNCHANGED <<now, from>>

Allow(i) ==
  LET tokens == Refilled(BucketOf(i))
  IN  /\ tokens \geq Cost
      /\ Charge(i, tokens - Cost)
      /\ spent' = [spent EXCEPT ![i] = @ + Cost]
      /\ outcome' = [outcome EXCEPT ![i] = "allowed"]

\* A refusal is paid with nothing, but it keeps the bucket alive.
Refuse(i) ==
  LET tokens == Refilled(BucketOf(i))
  IN  /\ tokens < Cost
      /\ Charge(i, tokens)
      /\ outcome' = [outcome EXCEPT ![i] = "refused"]
      /\ UNCHANGED spent

-----------------------------------------------------------------------------
Tick ==
  /\ now < MaxTime
  /\ now' = now + 1
  /\ UNCHANGED <<buckets, lastCleanup, lastCall, clientHistory>>

\* An observer starts to count the grants of i.
Observe(i) ==
  /\ from' = [from EXCEPT ![i] = now]
  /\ spent' = [spent EXCEPT ![i] = 0]
  /\ UNCHANGED <<now, buckets, lastCleanup, lastCall, lastAsk, patient, outcome>>

Next == Tick \/ \E i \in Ids : Allow(i) \/ Refuse(i) \/ Observe(i)

Spec == Init /\ [][Next]_vars

-----------------------------------------------------------------------------
(* Properties. *)

\* Whenever the counting starts, a client is granted no more than the burst
\* and what the rate adds in the meantime, although its bucket may have been
\* dropped as idle and created again, full.
WindowBound ==
  \A i \in Ids : spent[i] \leq Capacity + (now - from[i])

\* A client that never asks before the rate has earned it a token is never
\* refused, whoever else asks and whenever buckets are dropped.
PatientClientIsServed ==
  \A i \in Ids : patient[i] => outcome[i] # "refused"

\* The table does not keep idle buckets: as long as anybody asks, a bucket is
\* gone BucketTimeout + CleanupInterval after its last use.
IdleBucketsGo ==
  \A i \in Ids : buckets[i] # NoBucket =>
    lastCall < buckets[i].last + BucketTimeout + CleanupInterval

-----------------------------------------------------------------------------
(* What all that is for. *)

\* What a client would find in its bucket now; without one, a new one.
Level == [i \in Ids |-> IF buckets[i] = NoBucket THEN Capacity ELSE Refilled(buckets[i])]

Ideal == INSTANCE TokenBuckets WITH level <- Level

\* Nobody can tell that buckets are made when first used, refilled when looked
\* at and dropped when idle: every call is answered as by the limiter that
\* keeps a bucket for everybody (TokenBuckets).
IdealSpec == Ideal!Spec
===============================================================================
