--------------------------- MODULE RateLimiterProofs ---------------------------
(***************************************************************************)
(* Proofs about RateLimiter, for any clients, bucket sizes and durations   *)
(* that satisfy its assumption.                                            *)
(*                                                                         *)
(* The budget of a client, what it was granted plus what its bucket would  *)
(* hold now, never exceeds the burst plus the elapsed time.  A bucket that *)
(* is dropped was idle for BucketTimeout, hence full: dropping it loses    *)
(* nothing that creating it anew, full, does not give back.                *)
(***************************************************************************)
EXTENDS RateLimiter, TLAPS

\* What holds of the bucket of i while it is in the table.
BucketInv(i) ==
  LET b == buckets[i]
  IN  /\ lastAsk[i] = b.last
      /\ spent[i] + Refilled(b) \leq Capacity + (now - from[i])
      /\ patient[i] => b.tokens + Cost \geq Capacity
      /\ lastCleanup < b.last + BucketTimeout

\* Without a bucket the client has not used up the elapsed time.
ClientInv(i) ==
  IF buckets[i] = NoBucket THEN spent[i] \leq now - from[i] ELSE BucketInv(i)

IInv ==
  /\ TypeOK
  /\ lastCall < lastCleanup + CleanupInterval
  /\ \A i \in Ids : ClientInv(i) /\ (outcome[i] = "refused" => ~patient[i])

USE DEF clientHistory

-----------------------------------------------------------------------------
(* Facts about the buckets a call finds. *)

\* A bucket that was used at least Capacity ago is full.
LEMMA RefilledFacts ==
  ASSUME NEW b \in Bucket, now \in Nat, b.last \leq now
  PROVE  /\ Refilled(b) \in 0..Capacity
         /\ now - b.last \geq Capacity => Refilled(b) = Capacity
         /\ b.tokens + (now - b.last) \geq Capacity => Refilled(b) = Capacity
         /\ Refilled(b) \leq b.tokens + (now - b.last)
  BY LimiterAssumption DEF Refilled, Bucket

LEMMA NewBucketFacts ==
  ASSUME now \in 0..MaxTime
  PROVE  /\ NewBucket \in Bucket
         /\ NewBucket.last = now
         /\ Refilled(NewBucket) = Capacity
  BY LimiterAssumption DEF NewBucket, Bucket, Refilled

LEMMA InTable ==
  ASSUME TypeOK, NEW i \in Ids, ClientInv(i), buckets[i] # NoBucket
  PROVE  /\ buckets[i] \in Bucket
         /\ buckets[i].last \in 0..now
         /\ buckets[i].tokens \in 0..Capacity
         /\ lastAsk[i] # Never
<1>1. buckets[i] \in Bucket
  BY DEF TypeOK
<1>2. buckets[i].last \in Nat /\ buckets[i].tokens \in 0..Capacity
  BY <1>1, LimiterAssumption DEF Bucket
<1>3. lastAsk[i] = buckets[i].last /\ lastAsk[i] \in (0..now) \cup {Never}
  BY DEF ClientInv, BucketInv, TypeOK
<1>4. lastAsk[i] # Never
  BY <1>2, <1>3, NoBucketAssumption
<1> QED BY <1>1, <1>2, <1>3, <1>4

\* Cleaning up keeps what ClientInv says, for the new time of the cleanup.
LEMMA KeptFacts ==
  ASSUME IInv, NEW i \in Ids
  PROVE  /\ Kept \in [Ids -> Bucket \cup {NoBucket}]
         /\ Kept[i] = NoBucket => spent[i] \leq now - from[i]
         /\ Kept[i] # NoBucket => /\ Kept[i] = buckets[i]
                                  /\ CleanupTime < buckets[i].last + BucketTimeout
<1>1. CASE ~CleanupDue
  BY <1>1 DEF IInv, TypeOK, Kept, CleanupTime, ClientInv, BucketInv
<1>2. CASE CleanupDue
  <2>1. Kept = Swept /\ CleanupTime = now
    BY <1>2 DEF Kept, CleanupTime
  <2>2. Kept \in [Ids -> Bucket \cup {NoBucket}]
    BY <2>1 DEF Swept, IInv, TypeOK
  <2>3. Kept[i] = IF Idle(buckets[i]) THEN NoBucket ELSE buckets[i]
    BY <2>1 DEF Swept
  <2>4. CASE buckets[i] = NoBucket
    BY <2>2, <2>3, <2>4 DEF Idle, IInv, ClientInv
  <2>5. CASE buckets[i] # NoBucket
    <3>1. /\ buckets[i] \in Bucket
          /\ buckets[i].last \in 0..now
      BY <2>5, InTable DEF IInv
    <3>2. now \in Nat /\ BucketTimeout \in Nat /\ Capacity \in Nat /\ Capacity \leq BucketTimeout
      BY LimiterAssumption DEF IInv, TypeOK
    <3>3. CASE Idle(buckets[i])
      <4>1. now - buckets[i].last \geq Capacity
        BY <3>1, <3>2, <3>3 DEF Idle
      <4>2. Refilled(buckets[i]) = Capacity
        BY <3>1, <3>2, <4>1, RefilledFacts
      <4>3. spent[i] + Capacity \leq Capacity + (now - from[i])
        BY <2>5, <4>2 DEF IInv, ClientInv, BucketInv
      <4>4. spent[i] \in Nat /\ from[i] \in Nat
        BY DEF IInv, TypeOK
      <4> QED BY <2>2, <2>3, <3>2, <3>3, <4>3, <4>4
    <3>4. CASE ~Idle(buckets[i])
      <4>1. now < buckets[i].last + BucketTimeout
        BY <2>5, <3>1, <3>2, <3>4 DEF Idle
      <4> QED BY <2>1, <2>2, <2>3, <2>5, <3>4, <4>1
    <3> QED BY <3>3, <3>4
  <2> QED BY <2>4, <2>5
<1> QED BY <1>1, <1>2

\* The bucket a request is charged to, kept or new.
LEMMA BucketOfFacts ==
  ASSUME IInv, NEW i \in Ids
  PROVE  /\ BucketOf(i) \in Bucket
         /\ BucketOf(i).last \in 0..now
         /\ Refilled(BucketOf(i)) \in 0..Capacity
         /\ spent[i] + Refilled(BucketOf(i)) \leq Capacity + (now - from[i])
         /\ patient[i] /\ (lastAsk[i] # Never => now - lastAsk[i] \geq Cost)
              => Refilled(BucketOf(i)) = Capacity
<1>0. /\ now \in Nat /\ now \in 0..MaxTime /\ Capacity \in Nat /\ Cost \in Nat
      /\ spent[i] \in Nat /\ from[i] \in 0..now
  BY LimiterAssumption DEF IInv, TypeOK
<1>1. CASE Kept[i] = NoBucket
  <2>1. BucketOf(i) = NewBucket
    BY <1>1 DEF BucketOf
  <2>2. spent[i] \leq now - from[i]
    BY <1>1, KeptFacts
  <2> QED BY <1>0, <2>1, <2>2, NewBucketFacts
<1>2. CASE Kept[i] # NoBucket
  <2>1. BucketOf(i) = buckets[i] /\ buckets[i] # NoBucket
    BY <1>2, KeptFacts DEF BucketOf
  <2>2. ClientInv(i) /\ BucketInv(i)
    BY <2>1 DEF IInv, ClientInv
  <2>3. /\ buckets[i] \in Bucket
        /\ buckets[i].last \in 0..now
        /\ buckets[i].tokens \in 0..Capacity
        /\ lastAsk[i] # Never
    BY <2>1, <2>2, InTable DEF IInv
  <2>4. Refilled(buckets[i]) \in 0..Capacity
    BY <1>0, <2>3, RefilledFacts
  <2>5. ASSUME patient[i], now - lastAsk[i] \geq Cost
        PROVE  Refilled(buckets[i]) = Capacity
    <3>1. buckets[i].tokens + Cost \geq Capacity /\ lastAsk[i] = buckets[i].last
      BY <2>2, <2>5 DEF BucketInv
    <3>2. buckets[i].tokens + (now - buckets[i].last) \geq Capacity
      BY <1>0, <2>3, <2>5, <3>1
    <3> QED BY <1>0, <2>3, <3>2, RefilledFacts
  <2> QED BY <2>1, <2>2, <2>3, <2>4, <2>5 DEF BucketInv
<1> QED BY <1>1, <1>2

-----------------------------------------------------------------------------
(* One lemma per action. *)

LEMMA InitInv == Init => IInv
<1> SUFFICES ASSUME Init PROVE IInv
  OBVIOUS
<1>1. TypeOK
  BY LimiterAssumption DEF Init, TypeOK
<1>2. lastCall < lastCleanup + CleanupInterval
  BY LimiterAssumption DEF Init
<1>3. ASSUME NEW i \in Ids
      PROVE  ClientInv(i) /\ (outcome[i] = "refused" => ~patient[i])
  BY <1>3 DEF Init, ClientInv
<1> QED BY <1>1, <1>2, <1>3 DEF IInv

\* What Allow and Refuse have in common: a call that leaves `tokens`, no more
\* than it found, in the bucket of i and grants the difference.
LEMMA ChargeInv ==
  ASSUME IInv, NEW i \in Ids, NEW tokens \in 0..Capacity, Charge(i, tokens),
         tokens \leq Refilled(BucketOf(i)),
         patient'[i] => tokens + Cost \geq Capacity,
         spent' \in [Ids -> Nat],
         spent'[i] + tokens \leq spent[i] + Refilled(BucketOf(i)),
         \A j \in Ids \ {i} : spent'[j] = spent[j] /\ outcome'[j] = outcome[j],
         outcome' \in [Ids -> {"none", "allowed", "refused"}],
         outcome'[i] = "refused" => ~patient'[i]
  PROVE  IInv'
<1>0. /\ now \in Nat /\ now \in 0..MaxTime /\ now' = now /\ from' = from
      /\ Capacity \in Nat /\ Cost \in Nat /\ CleanupInterval \in Nat
      /\ BucketTimeout \in Nat /\ BucketTimeout > 0 /\ CleanupInterval > 0
      /\ lastCleanup \in 0..now
  BY LimiterAssumption DEF IInv, TypeOK, Charge
<1>1. CleanupTime \in 0..now
  BY <1>0 DEF CleanupTime
<1>2. [tokens |-> tokens, last |-> now] \in Bucket
  BY <1>0 DEF Bucket
<1>3. /\ buckets' = [Kept EXCEPT ![i] = [tokens |-> tokens, last |-> now]]
      /\ Kept \in [Ids -> Bucket \cup {NoBucket}]
  BY KeptFacts DEF Charge
<1>4. TypeOK'
  <2>1. buckets' \in [Ids -> Bucket \cup {NoBucket}]
    BY <1>2, <1>3
  <2>2. lastCleanup' \in 0..now' /\ lastCall' \in 0..now'
    BY <1>0, <1>1 DEF Charge
  <2>3. lastAsk' \in [Ids -> (0..now') \cup {Never}]
    BY <1>0 DEF Charge, IInv, TypeOK
  <2>4. patient' \in [Ids -> BOOLEAN]
    <3>1. patient' = [patient EXCEPT ![i] =
                        patient[i] /\ (lastAsk[i] # Never => now - lastAsk[i] \geq Cost)]
      BY DEF Charge
    <3>2. patient \in [Ids -> BOOLEAN]
      BY DEF IInv, TypeOK
    <3> QED BY <3>1, <3>2, Zenon
  <2> QED BY <1>0, <2>1, <2>2, <2>3, <2>4 DEF IInv, TypeOK
<1>5. lastCall' < lastCleanup' + CleanupInterval
  BY <1>0 DEF Charge, CleanupTime, CleanupDue
<1>6. ClientInv(i)'
  <2>1. buckets'[i] = [tokens |-> tokens, last |-> now] /\ buckets'[i] # NoBucket
    BY <1>2, <1>3, NoBucketAssumption
  <2>2. buckets'[i].last = now /\ buckets'[i].tokens = tokens
    BY <2>1
  <2>3. lastAsk'[i] = now /\ lastCleanup' = CleanupTime
    BY DEF Charge, IInv, TypeOK
  <2>4. Refilled(buckets[i])' = tokens
    BY <1>0, <2>2 DEF Refilled
  <2>5. spent[i] + Refilled(BucketOf(i)) \leq Capacity + (now - from[i])
    BY BucketOfFacts
  <2>6. spent'[i] \in Nat /\ spent[i] \in Nat /\ from[i] \in 0..now
        /\ Refilled(BucketOf(i)) \in 0..Capacity
    BY BucketOfFacts DEF IInv, TypeOK
  <2>7. spent'[i] + tokens \leq Capacity + (now - from[i])
    BY <1>0, <2>5, <2>6
  <2>8. CleanupTime < now + BucketTimeout
    BY <1>0, <1>1
  <2>9. BucketInv(i)'
    BY <1>0, <2>2, <2>3, <2>4, <2>7, <2>8 DEF BucketInv
  <2> QED BY <2>1, <2>9 DEF ClientInv
<1>7. ASSUME NEW j \in Ids \ {i}
      PROVE  ClientInv(j)'
  <2>1. /\ buckets'[j] = Kept[j] /\ lastAsk'[j] = lastAsk[j] /\ patient'[j] = patient[j]
        /\ lastCleanup' = CleanupTime
    BY <1>3 DEF Charge, IInv, TypeOK
  <2>2. CASE Kept[j] = NoBucket
    BY <1>0, <2>1, <2>2, KeptFacts DEF ClientInv
  <2>3. CASE Kept[j] # NoBucket
    <3>1. buckets'[j] = buckets[j] /\ CleanupTime < buckets[j].last + BucketTimeout
      BY <2>1, <2>3, KeptFacts
    <3>2. BucketInv(j)
      BY <2>1, <2>3, <3>1 DEF IInv, ClientInv
    <3>3. Refilled(buckets[j])' = Refilled(buckets[j])
      BY <1>0, <3>1 DEF Refilled
    <3>4. BucketInv(j)'
      BY <1>0, <2>1, <3>1, <3>2, <3>3 DEF BucketInv
    <3> QED BY <2>1, <2>3, <3>4 DEF ClientInv
  <2> QED BY <2>2, <2>3
<1>8. ASSUME NEW j \in Ids
      PROVE  outcome'[j] = "refused" => ~patient'[j]
  <2>1. CASE j = i
    BY <2>1
  <2>2. CASE j # i
    BY <2>2 DEF Charge, IInv, TypeOK
  <2> QED BY <2>1, <2>2
<1> QED BY <1>4, <1>5, <1>6, <1>7, <1>8 DEF IInv

\* The patience of i after a call implies that the call found a full bucket.
LEMMA PatientFindsFull ==
  ASSUME IInv, NEW i \in Ids, NEW tokens, Charge(i, tokens), patient'[i]
  PROVE  Refilled(BucketOf(i)) = Capacity
<1>1. patient'[i] = (patient[i] /\ (lastAsk[i] # Never => now - lastAsk[i] \geq Cost))
  BY DEF Charge, IInv, TypeOK
<1> QED BY <1>1, BucketOfFacts

LEMMA AllowInv ==
  ASSUME IInv, NEW i \in Ids, Allow(i)
  PROVE  IInv'
<1> DEFINE found == Refilled(BucketOf(i))
<1>1. /\ found \geq Cost
      /\ Charge(i, found - Cost)
      /\ spent' = [spent EXCEPT ![i] = @ + Cost]
      /\ outcome' = [outcome EXCEPT ![i] = "allowed"]
  BY DEF Allow
<1>2. found \in 0..Capacity /\ Capacity \in Nat /\ Cost \in Nat
  BY BucketOfFacts, LimiterAssumption
<1>3. spent \in [Ids -> Nat] /\ outcome \in [Ids -> {"none", "allowed", "refused"}]
  BY DEF IInv, TypeOK
<1> HIDE DEF found
<1>4. found - Cost \in 0..Capacity /\ found - Cost \leq found
  BY <1>1, <1>2
<1>5. patient'[i] => (found - Cost) + Cost \geq Capacity
  BY <1>1, <1>2, PatientFindsFull DEF found
<1>6. /\ spent' \in [Ids -> Nat]
      /\ spent'[i] + (found - Cost) \leq spent[i] + found
      /\ \A j \in Ids \ {i} : spent'[j] = spent[j] /\ outcome'[j] = outcome[j]
      /\ outcome' \in [Ids -> {"none", "allowed", "refused"}]
      /\ outcome'[i] # "refused"
  BY <1>1, <1>2, <1>3
<1> QED BY <1>1, <1>4, <1>5, <1>6, ChargeInv DEF found

LEMMA RefuseInv ==
  ASSUME IInv, NEW i \in Ids, Refuse(i)
  PROVE  IInv'
<1> DEFINE found == Refilled(BucketOf(i))
<1>1. /\ found < Cost
      /\ Charge(i, found)
      /\ spent' = spent
      /\ outcome' = [outcome EXCEPT ![i] = "refused"]
  BY DEF Refuse
<1>2. found \in 0..Capacity /\ Capacity \in Nat /\ Cost \in Nat /\ Cost \leq Capacity
  BY BucketOfFacts, LimiterAssumption
<1>3. spent \in [Ids -> Nat] /\ outcome \in [Ids -> {"none", "allowed", "refused"}]
  BY DEF IInv, TypeOK
<1>4. patient'[i] => found = Capacity
  BY <1>1, PatientFindsFull
<1> HIDE DEF found
<1>5. ~patient'[i]
  BY <1>1, <1>2, <1>4
<1>6. /\ spent' \in [Ids -> Nat]
      /\ spent'[i] + found \leq spent[i] + found
      /\ \A j \in Ids \ {i} : spent'[j] = spent[j] /\ outcome'[j] = outcome[j]
      /\ outcome' \in [Ids -> {"none", "allowed", "refused"}]
  BY <1>1, <1>2, <1>3
<1>7. found \leq found
  BY <1>2
<1> QED BY <1>1, <1>2, <1>5, <1>6, <1>7, ChargeInv DEF found

LEMMA TickInv ==
  ASSUME IInv, Tick
  PROVE  IInv'
<1>0. /\ now \in Nat /\ now' = now + 1 /\ now' \in 0..MaxTime
      /\ buckets' = buckets /\ lastCleanup' = lastCleanup /\ lastCall' = lastCall
      /\ from' = from /\ spent' = spent /\ lastAsk' = lastAsk
      /\ patient' = patient /\ outcome' = outcome
  BY LimiterAssumption DEF IInv, TypeOK, Tick
<1>1. TypeOK'
  <2>1. lastCleanup \in 0..now /\ lastCall \in 0..now /\ from \in [Ids -> 0..now]
        /\ lastAsk \in [Ids -> (0..now) \cup {Never}]
    BY DEF IInv, TypeOK
  <2>2. lastCleanup' \in 0..now' /\ lastCall' \in 0..now' /\ from' \in [Ids -> 0..now']
        /\ lastAsk' \in [Ids -> (0..now') \cup {Never}]
    BY <1>0, <2>1
  <2> QED BY <1>0, <2>2 DEF IInv, TypeOK
<1>2. ASSUME NEW i \in Ids
      PROVE  ClientInv(i)'
  <2>1. spent[i] \in Nat /\ from[i] \in 0..now /\ Capacity \in Nat
    BY LimiterAssumption DEF IInv, TypeOK
  <2>2. CASE buckets[i] = NoBucket
    BY <1>0, <2>1, <2>2 DEF IInv, ClientInv
  <2>3. CASE buckets[i] # NoBucket
    <3>1. BucketInv(i) /\ ClientInv(i)
      BY <2>3 DEF IInv, ClientInv
    <3>2. buckets[i].last \in 0..now /\ buckets[i].tokens \in 0..Capacity
      BY <2>3, <3>1, InTable DEF IInv
    <3>3. spent'[i] + Refilled(buckets[i])' \leq Capacity + (now' - from'[i])
      BY <1>0, <2>1, <3>1, <3>2 DEF BucketInv, Refilled
    <3>4. BucketInv(i)'
      BY <1>0, <3>1, <3>3 DEF BucketInv
    <3> QED BY <1>0, <2>3, <3>4 DEF ClientInv
  <2> QED BY <2>2, <2>3
<1> QED BY <1>0, <1>1, <1>2 DEF IInv

LEMMA ObserveInv ==
  ASSUME IInv, NEW i \in Ids, Observe(i)
  PROVE  IInv'
<1>0. /\ now \in Nat /\ now' = now /\ buckets' = buckets /\ lastCleanup' = lastCleanup
      /\ lastCall' = lastCall /\ lastAsk' = lastAsk /\ patient' = patient
      /\ outcome' = outcome
      /\ from' = [from EXCEPT ![i] = now] /\ spent' = [spent EXCEPT ![i] = 0]
  BY DEF IInv, TypeOK, Observe
<1>1. TypeOK'
  BY <1>0 DEF IInv, TypeOK
<1>2. ASSUME NEW j \in Ids, buckets[j] # NoBucket
      PROVE  BucketInv(j)'
  <2>1. BucketInv(j) /\ ClientInv(j)
    BY <1>2 DEF IInv, ClientInv
  <2>2. buckets[j] \in Bucket /\ buckets[j].last \in 0..now
    BY <1>2, <2>1, InTable DEF IInv
  <2>3. Refilled(buckets[j]) \in 0..Capacity /\ Capacity \in Nat
    BY <1>0, <2>2, RefilledFacts, LimiterAssumption
  <2>4. Refilled(buckets[j])' = Refilled(buckets[j])
    BY <1>0 DEF Refilled
  <2>5. spent'[j] + Refilled(buckets[j]) \leq Capacity + (now - from'[j])
    <3>1. CASE j = i
      <4>1. from'[j] = now /\ spent'[j] = 0
        BY <1>0, <3>1 DEF IInv, TypeOK
      <4> QED BY <1>0, <2>3, <4>1
    <3>2. CASE j # i
      BY <1>0, <2>1, <3>2 DEF BucketInv, IInv, TypeOK
    <3> QED BY <3>1, <3>2
  <2> QED BY <1>0, <2>1, <2>4, <2>5 DEF BucketInv
<1>3. ASSUME NEW j \in Ids, buckets[j] = NoBucket
      PROVE  spent'[j] \leq now - from'[j]
  BY <1>0, <1>3 DEF IInv, TypeOK, ClientInv
<1>4. \A j \in Ids : ClientInv(j)'
  BY <1>0, <1>2, <1>3 DEF ClientInv
<1> QED BY <1>0, <1>1, <1>4 DEF IInv

LEMMA StepInv == IInv /\ [Next]_vars => IInv'
<1> SUFFICES ASSUME IInv, [Next]_vars PROVE IInv'
  OBVIOUS
<1>1. CASE Tick
  BY <1>1, TickInv
<1>2. ASSUME NEW i \in Ids, Allow(i) PROVE IInv'
  BY <1>2, AllowInv
<1>3. ASSUME NEW i \in Ids, Refuse(i) PROVE IInv'
  BY <1>3, RefuseInv
<1>4. ASSUME NEW i \in Ids, Observe(i) PROVE IInv'
  BY <1>4, ObserveInv
<1>5. CASE UNCHANGED vars
  BY <1>5 DEF vars, IInv, TypeOK, ClientInv, BucketInv, Refilled
<1> QED BY <1>1, <1>2, <1>3, <1>4, <1>5 DEF Next

LEMMA Invariance == Spec => []IInv
<1> QED BY InitInv, StepInv, PTL DEF Spec

-----------------------------------------------------------------------------
(* The theorems. *)

\* The table holds well-formed buckets only (RateLimiter, TokenBucket).
THEOREM TypeCorrect == Spec => []TypeOK
<1>1. IInv => TypeOK
  BY DEF IInv
<1> QED BY <1>1, Invariance, PTL

\* Over any window a client is granted at most the burst plus the rate, idle
\* buckets being dropped or not (is_allowed, _cleanup_inactive_buckets).
THEOREM WindowCorrect == Spec => []WindowBound
<1>1. IInv => WindowBound
  <2> SUFFICES ASSUME IInv, NEW i \in Ids
               PROVE  spent[i] \leq Capacity + (now - from[i])
    BY DEF WindowBound
  <2>1. spent[i] \in Nat /\ from[i] \in 0..now /\ now \in Nat /\ Capacity \in Nat
    BY LimiterAssumption DEF IInv, TypeOK
  <2>2. spent[i] + Refilled(BucketOf(i)) \leq Capacity + (now - from[i])
        /\ Refilled(BucketOf(i)) \in 0..Capacity
    BY BucketOfFacts
  <2> QED BY <2>1, <2>2
<1> QED BY <1>1, Invariance, PTL

\* A client that keeps to the rate is never refused (is_allowed).
THEOREM PatientCorrect == Spec => []PatientClientIsServed
<1>1. IInv => PatientClientIsServed
  BY DEF IInv, PatientClientIsServed
<1> QED BY <1>1, Invariance, PTL

\* Idle buckets leave the table while anybody asks (_cleanup_inactive_buckets).
THEOREM IdleCorrect == Spec => []IdleBucketsGo
<1>1. IInv => IdleBucketsGo
  <2> SUFFICES ASSUME IInv, NEW i \in Ids, buckets[i] # NoBucket
               PROVE  lastCall < buckets[i].last + BucketTimeout + CleanupInterval
    BY DEF IdleBucketsGo
  <2>1. BucketInv(i) /\ ClientInv(i)
    BY DEF IInv, ClientInv
  <2>2. /\ buckets[i].last \in Nat /\ lastCall \in Nat /\ lastCleanup \in Nat
        /\ BucketTimeout \in Nat /\ CleanupInterval \in Nat
    BY <2>1, InTable, LimiterAssumption DEF IInv, TypeOK
  <2>3. lastCleanup < buckets[i].last + BucketTimeout
    BY <2>1 DEF BucketInv
  <2> QED BY <2>2, <2>3 DEF IInv
<1> QED BY <1>1, Invariance, PTL

-----------------------------------------------------------------------------
(* The limiter is as good as one that keeps a bucket for everybody.         *)

LEMMA LevelTyped ==
  ASSUME IInv, NEW i \in Ids
  PROVE  Level[i] \in 0..Capacity
<1>1. CASE buckets[i] = NoBucket
  BY <1>1, LimiterAssumption DEF Level
<1>2. CASE buckets[i] # NoBucket
  <2>1. buckets[i] \in Bucket /\ buckets[i].last \in 0..now
    BY <1>2, InTable DEF IInv
  <2> QED BY <1>2, <2>1, RefilledFacts DEF Level, IInv, TypeOK
<1> QED BY <1>1, <1>2

\* The sweep drops full buckets only, and a new bucket is full.
LEMMA FoundIsLevel ==
  ASSUME IInv, NEW i \in Ids
  PROVE  /\ Kept[i] = NoBucket => Level[i] = Capacity
         /\ Kept[i] # NoBucket => Kept[i] = buckets[i]
         /\ Refilled(BucketOf(i)) = Level[i]
<1>1. now \in Nat /\ now \in 0..MaxTime /\ Capacity \in Nat
  BY LimiterAssumption DEF IInv, TypeOK
<1>2. CASE Kept[i] # NoBucket
  <2>1. Kept[i] = buckets[i]
    BY <1>2, KeptFacts
  <2> QED BY <1>2, <2>1 DEF BucketOf, Level
<1>3. CASE Kept[i] = NoBucket
  <2>1. Level[i] = Capacity
    <3>1. CASE buckets[i] = NoBucket
      BY <3>1 DEF Level
    <3>2. CASE buckets[i] # NoBucket
      <4>1. Idle(buckets[i])
        BY <1>3, <3>2 DEF Kept, Swept
      <4>2. buckets[i] \in Bucket /\ buckets[i].last \in 0..now
        BY <3>2, InTable DEF IInv
      <4>3. now - buckets[i].last \geq Capacity
        BY <1>1, <4>1, <4>2, LimiterAssumption DEF Idle
      <4> QED BY <1>1, <3>2, <4>2, <4>3, RefilledFacts DEF Level
    <3> QED BY <3>1, <3>2
  <2> QED BY <1>1, <1>3, <2>1, NewBucketFacts DEF BucketOf
<1> QED BY <1>2, <1>3

LEMMA ChargeLevel ==
  ASSUME IInv, NEW i \in Ids, NEW tokens \in 0..Capacity, Charge(i, tokens)
  PROVE  Level' = [Level EXCEPT ![i] = tokens] /\ now' = now
<1>1. /\ buckets' = [Kept EXCEPT ![i] = [tokens |-> tokens, last |-> now]]
      /\ Kept \in [Ids -> Bucket \cup {NoBucket}]
      /\ now' = now /\ now \in 0..MaxTime /\ now \in Nat /\ Capacity \in Nat
  BY KeptFacts, LimiterAssumption DEF Charge, IInv, TypeOK
<1>2. ASSUME NEW j \in Ids
      PROVE  Level'[j] = [Level EXCEPT ![i] = tokens][j]
  <2>1. Level'[j] = IF buckets'[j] = NoBucket THEN Capacity ELSE Refilled(buckets[j])'
    BY DEF Level
  <2>2. CASE j = i
    <3>1. buckets'[i] = [tokens |-> tokens, last |-> now] /\ buckets'[i] \in Bucket
      BY <1>1 DEF Bucket
    <3>2. Refilled(buckets[i])' = tokens
      BY <1>1, <3>1 DEF Refilled
    <3> QED BY <2>1, <2>2, <3>1, <3>2, NoBucketAssumption DEF Level
  <2>3. CASE j # i
    <3>1. buckets'[j] = Kept[j]
      BY <1>1, <2>3
    <3>2. Kept[j] = NoBucket => Level[j] = Capacity
      BY FoundIsLevel
    <3>3. Kept[j] # NoBucket => Kept[j] = buckets[j]
      BY FoundIsLevel
    <3>4. buckets'[j] = buckets[j] => Refilled(buckets[j])' = Refilled(buckets[j])
      BY <1>1 DEF Refilled
    <3>5. buckets[j] # NoBucket => Level[j] = Refilled(buckets[j])
      BY DEF Level
    <3> QED BY <2>1, <2>3, <3>1, <3>2, <3>3, <3>4, <3>5 DEF Level
  <2> QED BY <2>2, <2>3
<1> QED BY <1>1, <1>2 DEF Level

LEMMA TickLevel ==
  ASSUME IInv, Tick
  PROVE  Ideal!Tick
<1>1. /\ now \in Nat /\ now' = now + 1 /\ now < MaxTime /\ buckets' = buckets
      /\ outcome' = outcome /\ Capacity \in Nat
  BY LimiterAssumption DEF Tick, IInv, TypeOK
<1>2. ASSUME NEW j \in Ids
      PROVE  Level'[j] = IF Level[j] < Capacity THEN Level[j] + 1 ELSE Level[j]
  <2>1. CASE buckets[j] = NoBucket
    BY <1>1, <2>1 DEF Level
  <2>2. CASE buckets[j] # NoBucket
    <3>1. buckets[j].last \in 0..now /\ buckets[j].tokens \in 0..Capacity
      BY <2>2, InTable DEF IInv
    <3>2. /\ Level[j] = Refilled(buckets[j])
          /\ Level'[j] = Refilled(buckets[j])'
      BY <1>1, <2>2 DEF Level
    <3> QED BY <1>1, <3>1, <3>2 DEF Refilled
  <2> QED BY <2>1, <2>2
<1>3. Level' = [j \in Ids |-> IF Level[j] < Capacity THEN Level[j] + 1 ELSE Level[j]]
  BY <1>2 DEF Level
<1> QED BY <1>1, <1>3 DEF Ideal!Tick

LEMMA IdealStep ==
  ASSUME IInv, [Next]_vars
  PROVE  [Ideal!Next]_(Ideal!vars)
<1>1. CASE Tick
  BY <1>1, TickLevel DEF Ideal!Next
<1>2. ASSUME NEW i \in Ids, Allow(i) PROVE Ideal!Next
  <2> DEFINE found == Refilled(BucketOf(i))
  <2>1. /\ found \geq Cost /\ Charge(i, found - Cost)
        /\ outcome' = [outcome EXCEPT ![i] = "allowed"]
    BY <1>2 DEF Allow
  <2>2. found = Level[i] /\ found \in 0..Capacity /\ Cost \in Nat /\ Capacity \in Nat
    BY FoundIsLevel, LevelTyped, LimiterAssumption
  <2> HIDE DEF found
  <2>3. found - Cost \in 0..Capacity
    BY <2>1, <2>2
  <2>4. Level' = [Level EXCEPT ![i] = found - Cost] /\ now' = now
    BY <2>1, <2>3, ChargeLevel
  <2> QED BY <2>1, <2>2, <2>4 DEF Ideal!Next, Ideal!Grant
<1>3. ASSUME NEW i \in Ids, Refuse(i) PROVE Ideal!Next
  <2> DEFINE found == Refilled(BucketOf(i))
  <2>1. /\ found < Cost /\ Charge(i, found)
        /\ outcome' = [outcome EXCEPT ![i] = "refused"]
    BY <1>3 DEF Refuse
  <2>2. found = Level[i] /\ found \in 0..Capacity
    BY FoundIsLevel, LevelTyped
  <2> HIDE DEF found
  <2>3. Level' = [Level EXCEPT ![i] = found] /\ now' = now
    BY <2>1, <2>2, ChargeLevel
  <2>4. Level' = Level
    BY <2>2, <2>3 DEF Level
  <2> QED BY <2>1, <2>2, <2>3, <2>4 DEF Ideal!Next, Ideal!Deny
<1>4. ASSUME UNCHANGED <<now, buckets, outcome>>
      PROVE  UNCHANGED Ideal!vars
  BY <1>4 DEF Ideal!vars, Level, Refilled
<1> QED BY <1>1, <1>2, <1>3, <1>4 DEF Next, Observe, vars

\* The table of buckets, made lazily and swept, answers every call as one bucket
\* for each client would (is_allowed, consume, _cleanup_inactive_buckets).
THEOREM IdealCorrect == Spec => IdealSpec
<1>1. Init => Ideal!Init
  BY DEF Init, Ideal!Init, Level
<1>2. IInv /\ [Next]_vars => [Ideal!Next]_(Ideal!vars)
  BY IdealStep
<1> QED BY <1>1, <1>2, Invariance, PTL DEF Spec, IdealSpec, Ideal!Spec
===============================================================================
