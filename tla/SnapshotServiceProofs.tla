------------------------- MODULE SnapshotServiceProofs -------------------------
(***************************************************************************)
(* Proofs about SnapshotService, for any calls, requests and names.        *)
(*                                                                         *)
(* What the properties need beyond themselves: a call has had no effect    *)
(* before the command that makes its effect, a deletion loop runs only for *)
(* a retention of 0 days or less that is no dry run (no other finds one    *)
(* that looks old), and what the loop has counted, is busy with and has    *)
(* left to do are different names.                                         *)
(***************************************************************************)
EXTENDS SnapshotService, FiniteSetTheorems, TLAPS

InLoop == {"exists", "destroy"}

\* A call that is not a retention.
SimpleShape(c) ==
  /\ todo[c] = {} /\ claimed[c] = 0 /\ pc[c] # "list"
  /\ pc[c] \in {"base", "exists", "snapshot", "destroy", "rollback"} => effects[c] = {}
  /\ pc[c] \in {"snapshot", "fetch", "bookmark"} => req[c].op \in {"create", "incremental"}
  /\ pc[c] = "base" => req[c].op = "incremental"
  /\ pc[c] = "destroy" => req[c].op = "destroy"
  /\ pc[c] = "rollback" => req[c].op = "rollback"
  /\ pc[c] \in {"fetch", "bookmark"} => effects[c] # {}
  /\ \A e, f \in effects[c] : e = f
  /\ \A e \in effects[c] : e[1] = Promised(req[c].op)
  /\ answer[c] = "ok" => effects[c] # {}

Pending(c) == IF pc[c] \in InLoop THEN 1 ELSE 0

RetentionShape(c) ==
  /\ pc[c] \in {"list", "answered"} \cup InLoop
  /\ pc[c] = "list" => todo[c] = {} /\ claimed[c] = 0 /\ effects[c] = {}
  /\ pc[c] = "answered" => todo[c] = {}
  /\ pc[c] \in InLoop => ~req[c].dry /\ req[c].days \leq 0
  /\ req[c].dry => effects[c] = {}
  /\ claimed[c] + Cardinality(todo[c]) + Pending(c) \leq Cardinality(Names)

CallShape(c) ==
  /\ req[c] = NoRequest <=> pc[c] = "idle"
  /\ pc[c] = "idle" => todo[c] = {} /\ claimed[c] = 0 /\ effects[c] = {}
  /\ pc[c] # "idle" => target[c] \in Names
  /\ pc[c] # "answered" => answer[c] = "none"
  /\ req[c] # NoRequest =>
       IF req[c].op = "retention" THEN RetentionShape(c) ELSE SimpleShape(c)

SnapShape == \A n \in Names : Present(n) => snaps[n].day \leq day

IInv == TypeOK /\ SnapShape /\ \A c \in Calls : CallShape(c)

callVars(c) == <<pc[c], req[c], target[c], todo[c], claimed[c], answer[c], effects[c]>>

-----------------------------------------------------------------------------
(* Facts about data. *)

LEMMA NamesFinite ==
  /\ IsFiniteSet(Names)
  /\ Cardinality(Names) \in Nat
  /\ \A S \in SUBSET Names : /\ IsFiniteSet(S) /\ Cardinality(S) \in Nat
                             /\ Cardinality(S) \leq Cardinality(Names)
<1>1. IsFiniteSet(Names)
  BY SnapshotAssumption
<1> QED BY <1>1, FS_Subset, FS_CardinalityType

LEMMA EmptyCardinality == Cardinality({}) = 0
  BY FS_EmptySet

LEMMA RequestFacts ==
  ASSUME TypeOK, NEW c \in Calls, req[c] # NoRequest
  PROVE  /\ req[c] \in Requests
         /\ req[c].op \in Ops
         /\ req[c].name \in Names /\ req[c].base \in Names
         /\ req[c].days \in Int /\ req[c].dry \in BOOLEAN
  BY SnapshotAssumption DEF TypeOK, Request

LEMMA SnapshotFacts ==
  ASSUME TypeOK, NEW n \in Names, Present(n)
  PROVE  /\ snaps[n] \in Snapshot
         /\ snaps[n].id \in Nat \ {0} /\ snaps[n].day \in 0..MaxDay
         /\ snaps[n].cloned \in BOOLEAN
  BY DEF TypeOK, Present, Snapshot

-----------------------------------------------------------------------------
(* The zfs commands keep the types, and have at most the one effect.       *)

ZfsTyped ==
  /\ snaps' \in [Names -> Snapshot \cup {Absent}]
  /\ marks' \in [Names -> Nat]
  /\ taken' \in Nat
  /\ effects' \in [Calls -> SUBSET ({"created", "destroyed", "restored"} \X Nat)]

\* The effects of c became those of one more command; the others' did not change.
OneEffect(c, what) ==
  /\ \E id : effects'[c] = effects[c] \cup {<<what, id>>}
  /\ \A d \in Calls \ {c} : effects'[d] = effects[d]

LEMMA DidTyped ==
  ASSUME TypeOK, NEW c \in Calls, NEW what \in {"created", "destroyed", "restored"},
         NEW id \in Nat, Did(c, what, id)
  PROVE  /\ effects' \in [Calls -> SUBSET ({"created", "destroyed", "restored"} \X Nat)]
         /\ OneEffect(c, what)
<1> DEFINE e == <<what, id>>
<1>1. e \in {"created", "destroyed", "restored"} \X Nat
  OBVIOUS
<1>2. /\ effects \in [Calls -> SUBSET ({"created", "destroyed", "restored"} \X Nat)]
      /\ effects' = [effects EXCEPT ![c] = effects[c] \cup {e}]
  BY DEF TypeOK, Did
<1> HIDE DEF e
<1>3. /\ effects' \in [Calls -> SUBSET ({"created", "destroyed", "restored"} \X Nat)]
      /\ effects'[c] = effects[c] \cup {e}
      /\ \A d \in Calls \ {c} : effects'[d] = effects[d]
  BY <1>1, <1>2
<1> QED BY <1>3 DEF OneEffect, e

LEMMA NothingDone ==
  ASSUME IInv, Nothing, day' = day
  PROVE  ZfsTyped /\ SnapShape' /\ effects' = effects
  BY DEF IInv, TypeOK, SnapShape, Nothing, zfsVars, ZfsTyped, Present

LEMMA SnapshotDone ==
  ASSUME IInv, NEW c \in Calls, NEW n \in Names, ZfsSnapshot(c, n), day' = day
  PROVE  ZfsTyped /\ SnapShape' /\ OneEffect(c, "created")
<1>1. [id |-> taken + 1, day |-> day, cloned |-> FALSE] \in Snapshot
  BY DEF IInv, TypeOK, Snapshot
<1>2. snaps' = [snaps EXCEPT ![n] = [id |-> taken + 1, day |-> day, cloned |-> FALSE]]
  BY DEF ZfsSnapshot
<1>3. snaps' \in [Names -> Snapshot \cup {Absent}]
  BY <1>1, <1>2 DEF IInv, TypeOK
<1>4. taken' \in Nat /\ taken + 1 \in Nat /\ marks' = marks
  BY DEF IInv, TypeOK, ZfsSnapshot
<1>5. OneEffect(c, "created")
      /\ effects' \in [Calls -> SUBSET ({"created", "destroyed", "restored"} \X Nat)]
  BY <1>4, DidTyped DEF IInv, ZfsSnapshot
<1>6. SnapShape'
  <2> SUFFICES ASSUME NEW k \in Names, snaps'[k] # Absent PROVE snaps'[k].day \leq day
    BY DEF SnapShape, Present
  <2>1. CASE k = n
    <3>1. snaps'[k] = [id |-> taken + 1, day |-> day, cloned |-> FALSE]
      BY <1>2, <2>1 DEF IInv, TypeOK
    <3>2. day \in Nat
      BY SnapshotAssumption DEF IInv, TypeOK
    <3> QED BY <3>1, <3>2
  <2>2. CASE k # n
    BY <1>2, <2>2 DEF IInv, TypeOK, SnapShape, Present
  <2> QED BY <2>1, <2>2
<1> QED BY <1>3, <1>4, <1>5, <1>6 DEF ZfsTyped, IInv, TypeOK

LEMMA DestroyDone ==
  ASSUME IInv, NEW c \in Calls, NEW n \in Names, ZfsDestroy(c, n), day' = day
  PROVE  ZfsTyped /\ SnapShape' /\ OneEffect(c, "destroyed")
<1>1. snaps' = [snaps EXCEPT ![n] = Absent] /\ marks' = marks /\ taken' = taken
  BY DEF ZfsDestroy
<1>2. snaps[n].id \in Nat
  BY SnapshotFacts DEF IInv, ZfsDestroy
<1>3. OneEffect(c, "destroyed")
      /\ effects' \in [Calls -> SUBSET ({"created", "destroyed", "restored"} \X Nat)]
  BY <1>2, DidTyped DEF IInv, ZfsDestroy
<1>4. SnapShape'
  BY <1>1 DEF IInv, TypeOK, SnapShape, Present
<1> QED BY <1>1, <1>3, <1>4 DEF ZfsTyped, IInv, TypeOK

LEMMA RollbackDone ==
  ASSUME IInv, NEW c \in Calls, NEW n \in Names, ZfsRollback(c, n), day' = day
  PROVE  ZfsTyped /\ SnapShape' /\ OneEffect(c, "restored")
<1>1. snaps' = snaps /\ marks' = marks /\ taken' = taken
  BY DEF ZfsRollback, zfsVars
<1>2. snaps[n].id \in Nat
  BY SnapshotFacts DEF IInv, ZfsRollback
<1>3. OneEffect(c, "restored")
      /\ effects' \in [Calls -> SUBSET ({"created", "destroyed", "restored"} \X Nat)]
  BY <1>2, DidTyped DEF IInv, ZfsRollback
<1>4. SnapShape'
  BY <1>1 DEF IInv, SnapShape, Present
<1> QED BY <1>1, <1>3, <1>4 DEF ZfsTyped, IInv, TypeOK

-----------------------------------------------------------------------------
(* Control. *)

\* A call that the step does not touch keeps its shape.
LEMMA Untouched ==
  ASSUME NEW d \in Calls, CallShape(d), UNCHANGED callVars(d)
  PROVE  CallShape(d)'
  BY DEF callVars, CallShape, RetentionShape, SimpleShape, Pending, InLoop

LEMMA GotoFacts ==
  ASSUME TypeOK, NEW c \in Calls, NEW command \in Commands, Goto(c, command)
  PROVE  /\ pc' \in [Calls -> Commands \cup {"idle", "answered"}]
         /\ answer' \in [Calls -> {"none", "ok", "failed"}]
         /\ pc'[c] = command /\ answer'[c] = answer[c]
         /\ \A d \in Calls \ {c} : pc'[d] = pc[d] /\ answer'[d] = answer[d]
  BY DEF TypeOK, Goto

LEMMA AnswerFacts ==
  ASSUME TypeOK, NEW c \in Calls, NEW verdict \in {"ok", "failed"}, Answer(c, verdict)
  PROVE  /\ pc' \in [Calls -> Commands \cup {"idle", "answered"}]
         /\ answer' \in [Calls -> {"none", "ok", "failed"}]
         /\ pc'[c] = "answered" /\ answer'[c] = verdict
         /\ \A d \in Calls \ {c} : pc'[d] = pc[d] /\ answer'[d] = answer[d]
  BY DEF TypeOK, Answer

\* The step of one call: only its own shape is left to prove.
LEMMA OneCall ==
  ASSUME IInv, NEW c \in Calls, TypeOK', SnapShape', CallShape(c)',
         \A d \in Calls \ {c} : UNCHANGED callVars(d)
  PROVE  IInv'
<1>1. ASSUME NEW d \in Calls PROVE CallShape(d)'
  <2>1. CASE d = c
    BY <2>1
  <2>2. CASE d # c
    BY <2>2, Untouched DEF IInv
  <2> QED BY <2>1, <2>2
<1> QED BY <1>1 DEF IInv

\* A step that leaves the pool alone.
LEMMA PoolUntouched ==
  ASSUME IInv, UNCHANGED <<zfsVars, day, effects>>
  PROVE  ZfsTyped /\ SnapShape' /\ day' \in 0..MaxDay
  BY DEF IInv, TypeOK, SnapShape, Present, zfsVars, ZfsTyped

LEMMA InvokeInv ==
  ASSUME IInv, NEW c \in Calls, NEW r \in Requests, Invoke(c, r)
  PROVE  IInv'
<1>1. /\ r.op \in Ops /\ r.name \in Names /\ r # NoRequest
      /\ r.days \in Int /\ r.dry \in BOOLEAN
  BY SnapshotAssumption DEF Request
<1>2. FirstCommand(r) \in Commands
      /\ FirstCommand(r) = IF r.op = "incremental" THEN "base"
                           ELSE IF r.op = "retention" THEN "list" ELSE "exists"
  BY <1>1 DEF FirstCommand, Commands, Ops
<1>3. TypeOK
  BY DEF IInv
<1>4. pc[c] = "idle" /\ CallShape(c) /\ answer[c] = "none"
  BY DEF Invoke, IInv, CallShape
<1>5. /\ pc' \in [Calls -> Commands \cup {"idle", "answered"}]
      /\ answer' \in [Calls -> {"none", "ok", "failed"}]
      /\ pc'[c] = FirstCommand(r) /\ answer'[c] = "none"
      /\ \A d \in Calls \ {c} : pc'[d] = pc[d] /\ answer'[d] = answer[d]
  BY <1>2, <1>3, <1>4, GotoFacts DEF Invoke
<1>6. /\ req' = [req EXCEPT ![c] = r] /\ target' = [target EXCEPT ![c] = r.name]
      /\ UNCHANGED <<zfsVars, day, todo, claimed, effects, due>>
  BY DEF Invoke
<1>7. ZfsTyped /\ SnapShape' /\ day' \in 0..MaxDay
  BY <1>6, PoolUntouched
<1>8. /\ req' \in [Calls -> Requests \cup {NoRequest}]
      /\ target' \in [Calls -> Names \cup {NoName}]
      /\ req'[c] = r /\ target'[c] = r.name
      /\ \A d \in Calls \ {c} : req'[d] = req[d] /\ target'[d] = target[d]
  BY <1>1, <1>3, <1>6 DEF TypeOK
<1>9. TypeOK'
  BY <1>3, <1>5, <1>6, <1>7, <1>8 DEF TypeOK, ZfsTyped
<1>10. todo'[c] = {} /\ claimed'[c] = 0 /\ effects'[c] = {}
  BY <1>4, <1>6 DEF CallShape
<1>11. CallShape(c)'
  <2>1. CASE r.op = "retention"
    <3>1. RetentionShape(c)'
      BY <1>2, <1>5, <1>8, <1>10, <2>1, NamesFinite, EmptyCardinality
         DEF RetentionShape, Pending, InLoop
    <3> QED BY <1>1, <1>2, <1>5, <1>8, <1>10, <2>1, <3>1 DEF CallShape
  <2>2. CASE r.op # "retention"
    <3>1. SimpleShape(c)'
      BY <1>2, <1>5, <1>8, <1>10, <2>2 DEF SimpleShape
    <3> QED BY <1>1, <1>2, <1>5, <1>8, <1>10, <2>2, <3>1 DEF CallShape
  <2> QED BY <2>1, <2>2
<1>12. \A d \in Calls \ {c} : UNCHANGED callVars(d)
  BY <1>5, <1>6, <1>8 DEF callVars
<1> QED BY <1>7, <1>9, <1>11, <1>12, OneCall

\* A simple call goes on to its next command or gives its answer.
LEMMA SimpleStep ==
  ASSUME IInv, NEW c \in Calls, pc[c] # "idle", pc[c] # "answered",
         req[c].op # "retention",
         UNCHANGED <<day, req, target, todo, claimed, due>>,
         ZfsTyped, SnapShape',
         \A d \in Calls \ {c} : effects'[d] = effects[d],
         \/ \E command \in Commands : Goto(c, command)
         \/ \E verdict \in {"ok", "failed"} : Answer(c, verdict),
         SimpleShape(c)'
  PROVE  IInv'
<1>1. TypeOK /\ CallShape(c)
  BY DEF IInv
<1>2. /\ pc' \in [Calls -> Commands \cup {"idle", "answered"}]
      /\ answer' \in [Calls -> {"none", "ok", "failed"}]
      /\ pc'[c] # "idle" /\ (pc'[c] # "answered" => answer'[c] = answer[c])
      /\ \A d \in Calls \ {c} : pc'[d] = pc[d] /\ answer'[d] = answer[d]
  BY <1>1, GotoFacts, AnswerFacts DEF Commands
<1>3. TypeOK'
  BY <1>1, <1>2 DEF TypeOK, ZfsTyped
<1>4. CallShape(c)'
  BY <1>1, <1>2 DEF CallShape
<1>5. \A d \in Calls \ {c} : UNCHANGED callVars(d)
  BY <1>2 DEF callVars
<1> QED BY <1>3, <1>4, <1>5, OneCall

LEMMA Asked ==
  ASSUME IInv, NEW c \in Calls, pc[c] # "idle"
  PROVE  /\ TypeOK /\ CallShape(c)
         /\ req[c] # NoRequest /\ req[c].op \in Ops
         /\ target[c] \in Names /\ req[c].base \in Names
         /\ pc[c] # "answered" => answer[c] = "none"
         /\ req[c].op = "retention" => RetentionShape(c)
         /\ req[c].op # "retention" => SimpleShape(c)
<1>1. TypeOK /\ CallShape(c) /\ req[c] # NoRequest
  BY DEF IInv, CallShape
<1> QED BY <1>1, RequestFacts DEF CallShape

LEMMA CheckBaseInv ==
  ASSUME IInv, NEW c \in Calls, CheckBase(c)
  PROVE  IInv'
<1>1. pc[c] = "base" /\ UNCHANGED <<zfsVars, day, req, target, todo, claimed, effects, due>>
  BY DEF CheckBase
<1>2. /\ TypeOK /\ answer[c] = "none"
      /\ req[c].op # "retention" /\ SimpleShape(c)
  BY <1>1, Asked DEF RetentionShape, InLoop
<1>3. Goto(c, "exists") \/ Answer(c, "failed")
  BY DEF CheckBase
<1>4. ZfsTyped /\ SnapShape'
  BY <1>1, PoolUntouched
<1>5. SimpleShape(c)'
  BY <1>1, <1>2, <1>3, GotoFacts, AnswerFacts DEF SimpleShape, Commands
<1> QED BY <1>1, <1>2, <1>3, <1>4, <1>5, SimpleStep DEF Commands

LEMMA TakeSnapshotInv ==
  ASSUME IInv, NEW c \in Calls, TakeSnapshot(c)
  PROVE  IInv'
<1>1. pc[c] = "snapshot" /\ UNCHANGED <<day, req, target, todo, claimed, due>>
  BY DEF TakeSnapshot
<1>2. /\ TypeOK /\ answer[c] = "none" /\ target[c] \in Names
      /\ req[c].op # "retention" /\ SimpleShape(c)
  BY <1>1, Asked DEF RetentionShape, InLoop
<1>3. PICK outcome \in Outcomes :
        /\ IF outcome = "failed" THEN Nothing ELSE ZfsSnapshot(c, target[c])
        /\ IF outcome = "ok" THEN Goto(c, "fetch") ELSE Answer(c, "failed")
  BY DEF TakeSnapshot
<1>4. req[c].op \in {"create", "incremental"} /\ effects[c] = {}
  BY <1>1, <1>2 DEF SimpleShape
<1>5. /\ ZfsTyped /\ SnapShape'
      /\ \A d \in Calls \ {c} : effects'[d] = effects[d]
      /\ \/ outcome = "failed" /\ effects'[c] = {}
         \/ \E id : effects'[c] = {<<"created", id>>}
  BY <1>1, <1>2, <1>3, <1>4, NothingDone, SnapshotDone DEF OneEffect
<1>6. /\ \A e, f \in effects'[c] : e = f
      /\ \A e \in effects'[c] : e[1] = Promised(req[c].op)
      /\ outcome = "ok" => effects'[c] # {}
  <2>1. Promised(req[c].op) = "created"
    BY <1>4 DEF Promised
  <2>2. CASE effects'[c] = {}
    BY <1>5, <2>2
  <2>3. ASSUME NEW id, effects'[c] = {<<"created", id>>}
        PROVE  /\ \A e, f \in effects'[c] : e = f
               /\ \A e \in effects'[c] : e[1] = "created"
               /\ effects'[c] # {}
    BY <2>3
  <2> QED BY <1>5, <2>1, <2>2, <2>3
<1>7. /\ outcome = "ok" => pc'[c] = "fetch" /\ answer'[c] = "none"
      /\ outcome # "ok" => pc'[c] = "answered" /\ answer'[c] = "failed"
  BY <1>2, <1>3, GotoFacts, AnswerFacts DEF Commands
<1>8. SimpleShape(c)'
  BY <1>1, <1>2, <1>4, <1>6, <1>7 DEF SimpleShape
<1> QED BY <1>1, <1>2, <1>3, <1>5, <1>8, SimpleStep DEF Commands

LEMMA FetchCreatedInv ==
  ASSUME IInv, NEW c \in Calls, FetchCreated(c)
  PROVE  IInv'
<1>1. pc[c] = "fetch" /\ UNCHANGED <<zfsVars, day, req, target, todo, claimed, effects, due>>
  BY DEF FetchCreated
<1>2. /\ TypeOK /\ answer[c] = "none"
      /\ req[c].op # "retention" /\ SimpleShape(c)
  BY <1>1, Asked DEF RetentionShape, InLoop
<1>3. Answer(c, "failed") \/ Goto(c, "bookmark") \/ Answer(c, "ok")
  BY DEF FetchCreated
<1>4. ZfsTyped /\ SnapShape'
  BY <1>1, PoolUntouched
<1>5. SimpleShape(c)'
  BY <1>1, <1>2, <1>3, GotoFacts, AnswerFacts DEF SimpleShape, Commands
<1> QED BY <1>1, <1>2, <1>3, <1>4, <1>5, SimpleStep DEF Commands

LEMMA BookmarkBaseInv ==
  ASSUME IInv, NEW c \in Calls, BookmarkBase(c)
  PROVE  IInv'
<1>1. pc[c] = "bookmark" /\ UNCHANGED <<day, req, target, todo, claimed, due>>
  BY DEF BookmarkBase
<1>2. /\ TypeOK /\ answer[c] = "none" /\ req[c].base \in Names
      /\ req[c].op # "retention" /\ SimpleShape(c)
  BY <1>1, Asked DEF RetentionShape, InLoop
<1>3. Answer(c, "ok") /\ (ZfsBookmark(req[c].base) \/ Nothing)
  BY DEF BookmarkBase
<1>4. ZfsTyped /\ SnapShape' /\ effects' = effects
  <2>1. CASE ZfsBookmark(req[c].base)
    <3>1. snaps[req[c].base].id \in Nat
      BY <1>2, <2>1, SnapshotFacts DEF ZfsBookmark
    <3>2. marks' \in [Names -> Nat]
      BY <1>2, <2>1, <3>1 DEF ZfsBookmark, TypeOK
    <3> QED BY <1>1, <1>2, <2>1, <3>2
            DEF ZfsBookmark, ZfsTyped, TypeOK, IInv, SnapShape, Present
  <2>2. CASE Nothing
    BY <1>1, <2>2, NothingDone
  <2> QED BY <1>3, <2>1, <2>2
<1>5. SimpleShape(c)'
  BY <1>1, <1>2, <1>3, <1>4, AnswerFacts DEF SimpleShape
<1> QED BY <1>1, <1>2, <1>3, <1>4, <1>5, SimpleStep

LEMMA RollbackInv ==
  ASSUME IInv, NEW c \in Calls, Rollback(c)
  PROVE  IInv'
<1>1. pc[c] = "rollback" /\ UNCHANGED <<day, req, target, todo, claimed, due>>
  BY DEF Rollback
<1>2. /\ TypeOK /\ answer[c] = "none" /\ target[c] \in Names
      /\ req[c].op # "retention" /\ SimpleShape(c)
  BY <1>1, Asked DEF RetentionShape, InLoop
<1>3. PICK outcome \in Outcomes :
        /\ IF outcome = "failed" THEN Nothing ELSE ZfsRollback(c, target[c])
        /\ Answer(c, IF outcome = "ok" THEN "ok" ELSE "failed")
  BY DEF Rollback
<1>4. req[c].op = "rollback" /\ effects[c] = {}
  BY <1>1, <1>2 DEF SimpleShape
<1>5. /\ ZfsTyped /\ SnapShape'
      /\ \A d \in Calls \ {c} : effects'[d] = effects[d]
      /\ \/ outcome = "failed" /\ effects'[c] = {}
         \/ \E id : effects'[c] = {<<"restored", id>>}
  BY <1>1, <1>2, <1>3, <1>4, NothingDone, RollbackDone DEF OneEffect
<1>6. /\ \A e, f \in effects'[c] : e = f
      /\ \A e \in effects'[c] : e[1] = Promised(req[c].op)
      /\ outcome = "ok" => effects'[c] # {}
  <2>1. Promised(req[c].op) = "restored"
    BY <1>4 DEF Promised
  <2>2. CASE effects'[c] = {}
    BY <1>5, <2>2
  <2>3. ASSUME NEW id, effects'[c] = {<<"restored", id>>}
        PROVE  /\ \A e, f \in effects'[c] : e = f
               /\ \A e \in effects'[c] : e[1] = "restored"
               /\ effects'[c] # {}
    BY <2>3
  <2> QED BY <1>5, <2>1, <2>2, <2>3
<1>7. pc'[c] = "answered" /\ (answer'[c] = "ok" => outcome = "ok")
  BY <1>2, <1>3, AnswerFacts
<1>8. SimpleShape(c)'
  BY <1>1, <1>2, <1>4, <1>6, <1>7 DEF SimpleShape
<1> QED BY <1>1, <1>2, <1>3, <1>5, <1>8, SimpleStep

-----------------------------------------------------------------------------
(* Deletions, in a call of their own and in the loop of a retention.       *)

\* Taking the next name moves one unit from what is left to what is pending.
LEMMA NextDeletionFacts ==
  ASSUME TypeOK, NEW c \in Calls, NEW left \in SUBSET Names, NextDeletion(c, left)
  PROVE  /\ pc' \in [Calls -> Commands \cup {"idle", "answered"}]
         /\ answer' \in [Calls -> {"none", "ok", "failed"}]
         /\ todo' \in [Calls -> SUBSET Names]
         /\ target' \in [Calls -> Names \cup {NoName}]
         /\ \A d \in Calls \ {c} : /\ pc'[d] = pc[d] /\ answer'[d] = answer[d]
                                   /\ todo'[d] = todo[d] /\ target'[d] = target[d]
         /\ \/ pc'[c] = "answered" /\ todo'[c] = {} /\ target'[c] = target[c]
            \/ /\ pc'[c] = "exists" /\ answer'[c] = answer[c]
               /\ target'[c] \in Names /\ left # {}
         /\ Cardinality(todo'[c]) + Pending(c)' = Cardinality(left)
<1>1. CASE /\ left = {} /\ Answer(c, "ok")
           /\ todo' = [todo EXCEPT ![c] = {}] /\ UNCHANGED target
  <2>1. todo'[c] = {} /\ pc'[c] = "answered"
    BY <1>1, AnswerFacts DEF TypeOK
  <2> QED BY <1>1, <2>1, AnswerFacts, EmptyCardinality DEF TypeOK, Pending, InLoop
<1>2. ASSUME NEW n \in left,
             todo' = [todo EXCEPT ![c] = left \ {n}],
             target' = [target EXCEPT ![c] = n],
             Goto(c, "exists")
      PROVE  /\ pc' \in [Calls -> Commands \cup {"idle", "answered"}]
             /\ answer' \in [Calls -> {"none", "ok", "failed"}]
             /\ todo' \in [Calls -> SUBSET Names]
             /\ target' \in [Calls -> Names \cup {NoName}]
             /\ \A d \in Calls \ {c} : /\ pc'[d] = pc[d] /\ answer'[d] = answer[d]
                                       /\ todo'[d] = todo[d] /\ target'[d] = target[d]
             /\ pc'[c] = "exists" /\ answer'[c] = answer[c]
             /\ target'[c] \in Names /\ left # {}
             /\ Cardinality(todo'[c]) + Pending(c)' = Cardinality(left)
  <2>1. todo'[c] = left \ {n} /\ target'[c] = n /\ pc'[c] = "exists"
    BY <1>2, GotoFacts DEF TypeOK, Commands
  <2>2. Cardinality(left \ {n}) = Cardinality(left) - 1 /\ Cardinality(left) \in Nat
    BY NamesFinite, FS_RemoveElement
  <2>3. Cardinality(todo'[c]) + Pending(c)' = Cardinality(left)
    BY <2>1, <2>2 DEF Pending, InLoop
  <2>4. /\ todo' \in [Calls -> SUBSET Names]
        /\ target' \in [Calls -> Names \cup {NoName}]
        /\ \A d \in Calls \ {c} : todo'[d] = todo[d] /\ target'[d] = target[d]
    BY <1>2 DEF TypeOK
  <2> QED BY <1>2, <2>1, <2>3, <2>4, GotoFacts DEF Commands
<1> QED BY <1>1, <1>2 DEF NextDeletion

\* A turn of the loop, or the listing, of a retention call.
LEMMA RetentionStep ==
  ASSUME IInv, NEW c \in Calls, NEW left \in SUBSET Names, NextDeletion(c, left),
         pc[c] # "idle", pc[c] # "answered", req[c].op = "retention",
         UNCHANGED <<day, req>>, ZfsTyped, SnapShape',
         due' \in [Calls -> SUBSET Nat],
         claimed' \in [Calls -> 0..Cardinality(Names)],
         claimed'[c] + Cardinality(left) \leq Cardinality(Names),
         \A d \in Calls \ {c} : claimed'[d] = claimed[d] /\ effects'[d] = effects[d],
         left # {} => ~req[c].dry /\ req[c].days \leq 0,
         req[c].dry => effects'[c] = {}
  PROVE  IInv'
<1>1. /\ TypeOK /\ CallShape(c) /\ answer[c] = "none" /\ req[c] # NoRequest
      /\ target[c] \in Names
  BY Asked
<1>2. TypeOK'
  BY <1>1, NextDeletionFacts DEF TypeOK, ZfsTyped
<1>3. RetentionShape(c)'
  <2>1. claimed'[c] \in Nat /\ Cardinality(left) \in Nat
        /\ Cardinality(todo'[c]) \in Nat /\ Cardinality(Names) \in Nat
        /\ Pending(c)' \in Nat
    BY <1>1, NamesFinite, NextDeletionFacts DEF Pending
  <2>2. claimed'[c] + Cardinality(todo'[c]) + Pending(c)' \leq Cardinality(Names)
    BY <1>1, <2>1, NextDeletionFacts
  <2>3. \/ pc'[c] = "answered" /\ todo'[c] = {}
        \/ pc'[c] = "exists" /\ left # {}
    BY <1>1, NextDeletionFacts
  <2> QED BY <2>2, <2>3 DEF RetentionShape, InLoop
<1>4. CallShape(c)'
  <2>1. /\ pc'[c] # "idle" /\ target'[c] \in Names
        /\ pc'[c] # "answered" => answer'[c] = "none"
    BY <1>1, NextDeletionFacts
  <2> QED BY <1>1, <1>3, <2>1 DEF CallShape
<1>5. \A d \in Calls \ {c} : UNCHANGED callVars(d)
  BY <1>1, NextDeletionFacts DEF callVars
<1> QED BY <1>2, <1>4, <1>5, OneCall

LEMMA DestroyEndsInv ==
  ASSUME IInv, NEW c \in Calls, pc[c] \in InLoop,
         NEW verdict \in {"ok", "failed"}, DestroyEnds(c, verdict),
         req[c].op \in {"destroy", "retention"},
         UNCHANGED <<day, req, due>>, ZfsTyped, SnapShape',
         \A d \in Calls \ {c} : effects'[d] = effects[d],
         \/ effects'[c] = effects[c] /\ verdict = "failed"
         \/ \E id : effects'[c] = effects[c] \cup {<<"destroyed", id>>}
  PROVE  IInv'
<1>1. TypeOK /\ pc[c] # "idle" /\ pc[c] # "answered" /\ answer[c] = "none"
  BY Asked DEF InLoop
<1>2. CASE req[c].op = "retention"
  <2>1. RetentionShape(c)
    BY <1>1, <1>2, Asked
  <2>2. NextDeletion(c, todo[c]) /\ claimed' = [claimed EXCEPT ![c] = claimed[c] + 1]
    BY <1>2 DEF DestroyEnds
  <2>3. /\ claimed[c] + Cardinality(todo[c]) + 1 \leq Cardinality(Names)
        /\ ~req[c].dry /\ req[c].days \leq 0
    BY <2>1 DEF RetentionShape, Pending
  <2>4. /\ claimed \in [Calls -> 0..Cardinality(Names)] /\ todo[c] \in SUBSET Names
        /\ Cardinality(todo[c]) \in Nat /\ Cardinality(Names) \in Nat
    BY <1>1, NamesFinite DEF TypeOK
  <2>5. /\ claimed' \in [Calls -> 0..Cardinality(Names)]
        /\ claimed'[c] + Cardinality(todo[c]) \leq Cardinality(Names)
        /\ \A d \in Calls \ {c} : claimed'[d] = claimed[d]
    BY <2>2, <2>3, <2>4
  <2>6. due' \in [Calls -> SUBSET Nat]
    BY <1>1 DEF TypeOK
  <2> QED BY <1>1, <1>2, <2>2, <2>3, <2>4, <2>5, <2>6, RetentionStep
<1>3. CASE req[c].op = "destroy"
  <2>1. SimpleShape(c) /\ effects[c] = {}
    BY <1>1, <1>3, Asked DEF SimpleShape, InLoop
  <2>2. Answer(c, verdict) /\ UNCHANGED <<claimed, todo, target>>
    BY <1>3 DEF DestroyEnds
  <2>3. pc'[c] = "answered" /\ answer'[c] = verdict
    BY <1>1, <2>2, AnswerFacts
  <2>4. /\ \A e, f \in effects'[c] : e = f
        /\ \A e \in effects'[c] : e[1] = Promised(req[c].op)
        /\ verdict = "ok" => effects'[c] # {}
    <3>1. Promised(req[c].op) = "destroyed"
      BY <1>3 DEF Promised
    <3>2. CASE effects'[c] = {} /\ verdict = "failed"
      BY <3>2
    <3>3. ASSUME NEW id, effects'[c] = {<<"destroyed", id>>}
          PROVE  /\ \A e, f \in effects'[c] : e = f
                 /\ \A e \in effects'[c] : e[1] = "destroyed"
                 /\ effects'[c] # {}
      BY <3>3
    <3> QED BY <2>1, <3>1, <3>2, <3>3
  <2>5. SimpleShape(c)'
    BY <1>3, <2>1, <2>2, <2>3, <2>4 DEF SimpleShape
  <2> QED BY <1>1, <1>3, <2>2, <2>5, SimpleStep
<1> QED BY <1>2, <1>3

LEMMA CheckExistsInv ==
  ASSUME IInv, NEW c \in Calls, CheckExists(c)
  PROVE  IInv'
<1>1. pc[c] = "exists" /\ UNCHANGED <<zfsVars, day, req, effects, due>>
  BY DEF CheckExists
<1>2. /\ TypeOK /\ answer[c] = "none" /\ req[c].op \in Ops
      /\ req[c].op = "retention" => RetentionShape(c)
      /\ req[c].op # "retention" => SimpleShape(c)
  BY <1>1, Asked
<1>3. ZfsTyped /\ SnapShape'
  BY <1>1, PoolUntouched
<1>4. ASSUME req[c].op \in {"create", "incremental"}
      PROVE  IInv'
  <2>1. (Answer(c, "failed") \/ Goto(c, "snapshot")) /\ UNCHANGED <<target, todo, claimed>>
    BY <1>4 DEF CheckExists
  <2>2. SimpleShape(c)'
    BY <1>1, <1>2, <1>4, <2>1, GotoFacts, AnswerFacts DEF SimpleShape, Commands
  <2> QED BY <1>1, <1>3, <1>4, <2>1, <2>2, SimpleStep DEF Commands
<1>5. ASSUME req[c].op = "rollback"
      PROVE  IInv'
  <2>1. (Answer(c, "failed") \/ Goto(c, "rollback")) /\ UNCHANGED <<target, todo, claimed>>
    BY <1>5 DEF CheckExists
  <2>2. SimpleShape(c)'
    BY <1>1, <1>2, <1>5, <2>1, GotoFacts, AnswerFacts DEF SimpleShape, Commands
  <2> QED BY <1>1, <1>3, <1>5, <2>1, <2>2, SimpleStep DEF Commands
<1>6. ASSUME req[c].op \in {"destroy", "retention"}
      PROVE  IInv'
  <2>1. \/ Goto(c, "destroy") /\ UNCHANGED <<target, todo, claimed>>
        \/ DestroyEnds(c, "failed")
    BY <1>6 DEF CheckExists
  <2>2. CASE DestroyEnds(c, "failed")
    BY <1>1, <1>3, <1>6, <2>2, DestroyEndsInv DEF InLoop
  <2>3. CASE Goto(c, "destroy") /\ UNCHANGED <<target, todo, claimed>>
    <3>1. CASE req[c].op = "destroy"
      <4>1. SimpleShape(c)'
        BY <1>1, <1>2, <2>3, <3>1, GotoFacts DEF SimpleShape, Commands
      <4> QED BY <1>1, <1>3, <2>3, <3>1, <4>1, SimpleStep DEF Commands
    <3>2. CASE req[c].op = "retention"
      <4>1. /\ pc' \in [Calls -> Commands \cup {"idle", "answered"}]
            /\ answer' \in [Calls -> {"none", "ok", "failed"}]
            /\ pc'[c] = "destroy" /\ answer'[c] = "none"
            /\ \A d \in Calls \ {c} : pc'[d] = pc[d] /\ answer'[d] = answer[d]
        BY <1>2, <2>3, GotoFacts DEF Commands
      <4>2. TypeOK'
        BY <1>1, <1>2, <1>3, <2>3, <4>1 DEF TypeOK, ZfsTyped
      <4>3. RetentionShape(c)'
        BY <1>1, <1>2, <2>3, <3>2, <4>1 DEF RetentionShape, Pending, InLoop
      <4>4. CallShape(c)'
        BY <1>1, <2>3, <3>2, <4>1, <4>3, Asked DEF CallShape
      <4>5. \A d \in Calls \ {c} : UNCHANGED callVars(d)
        BY <1>1, <2>3, <4>1 DEF callVars
      <4> QED BY <1>3, <4>2, <4>4, <4>5, OneCall
    <3> QED BY <1>6, <3>1, <3>2
  <2> QED BY <2>1, <2>2, <2>3
<1> QED BY <1>2, <1>4, <1>5, <1>6 DEF Ops

LEMMA DestroySnapshotInv ==
  ASSUME IInv, NEW c \in Calls, DestroySnapshot(c)
  PROVE  IInv'
<1>1. pc[c] = "destroy" /\ UNCHANGED <<day, req, due>>
  BY DEF DestroySnapshot
<1>2. /\ TypeOK /\ target[c] \in Names /\ req[c].op \in {"destroy", "retention"}
  BY <1>1, Asked DEF SimpleShape
<1>3. PICK outcome \in Outcomes :
        /\ IF outcome = "failed" THEN Nothing ELSE ZfsDestroy(c, target[c])
        /\ DestroyEnds(c, IF outcome = "ok" THEN "ok" ELSE "failed")
  BY DEF DestroySnapshot
<1>4. /\ ZfsTyped /\ SnapShape'
      /\ \A d \in Calls \ {c} : effects'[d] = effects[d]
      /\ \/ outcome = "failed" /\ effects'[c] = effects[c]
         \/ \E id : effects'[c] = effects[c] \cup {<<"destroyed", id>>}
  BY <1>1, <1>2, <1>3, NothingDone, DestroyDone DEF OneEffect
<1>5. CASE outcome = "failed"
  BY <1>1, <1>2, <1>3, <1>4, <1>5, DestroyEndsInv DEF InLoop
<1>6. CASE outcome # "failed"
  BY <1>1, <1>2, <1>3, <1>4, <1>6, DestroyEndsInv DEF InLoop
<1> QED BY <1>5, <1>6

LEMMA ListSnapshotsInv ==
  ASSUME IInv, NEW c \in Calls, ListSnapshots(c)
  PROVE  IInv'
<1> DEFINE free    == {n \in Names : Present(n) /\ ~snaps[n].cloned}
           expired == {n \in free : Expired(AgeRead(snaps[n]), req[c].days)}
           old     == {n \in free : Expired(day - snaps[n].day, req[c].days)}
<1>1. pc[c] = "list" /\ UNCHANGED <<zfsVars, day, req, claimed, effects>>
  BY DEF ListSnapshots
<1>2. /\ TypeOK /\ CallShape(c) /\ answer[c] = "none" /\ req[c] # NoRequest
      /\ target[c] \in Names /\ req[c].op = "retention" /\ RetentionShape(c)
      /\ req[c].days \in Int
  BY <1>1, Asked, RequestFacts DEF SimpleShape
<1>3. ZfsTyped /\ SnapShape'
  BY <1>1, PoolUntouched
<1>4. todo[c] = {} /\ claimed[c] = 0 /\ effects[c] = {}
  BY <1>1, <1>2 DEF RetentionShape
<1>5. CASE Answer(c, "failed") /\ UNCHANGED <<target, todo, due>>
  <2>1. /\ pc' \in [Calls -> Commands \cup {"idle", "answered"}]
        /\ answer' \in [Calls -> {"none", "ok", "failed"}]
        /\ pc'[c] = "answered"
        /\ \A d \in Calls \ {c} : pc'[d] = pc[d] /\ answer'[d] = answer[d]
    BY <1>2, <1>5, AnswerFacts
  <2>2. TypeOK'
    BY <1>1, <1>2, <1>3, <1>5, <2>1 DEF TypeOK, ZfsTyped
  <2>3. RetentionShape(c)'
    BY <1>1, <1>2, <1>4, <1>5, <2>1, NamesFinite, EmptyCardinality
       DEF RetentionShape, Pending, InLoop
  <2>4. CallShape(c)'
    BY <1>1, <1>2, <1>5, <2>1, <2>3 DEF CallShape
  <2>5. \A d \in Calls \ {c} : UNCHANGED callVars(d)
    BY <1>1, <1>5, <2>1 DEF callVars
  <2> QED BY <1>3, <2>2, <2>4, <2>5, OneCall
<1>6. CASE /\ NextDeletion(c, IF req[c].dry THEN {} ELSE expired)
           /\ due' = [due EXCEPT ![c] = {snaps[n].id : n \in old}]
  <2> DEFINE left == IF req[c].dry THEN {} ELSE expired
  <2>1. left \in SUBSET Names /\ Cardinality(left) \in Nat
        /\ Cardinality(left) \leq Cardinality(Names)
    <3>1. expired \in SUBSET Names
      OBVIOUS
    <3> HIDE DEF expired
    <3>2. left \in SUBSET Names
      BY <3>1
    <3> QED BY <3>2, NamesFinite
  <2>2. left # {} => ~req[c].dry /\ req[c].days \leq 0
    BY <1>2 DEF Expired, AgeRead
  <2>3. due' \in [Calls -> SUBSET Nat]
    <3>1. \A n \in old : snaps[n].id \in Nat
      BY <1>2, SnapshotFacts
    <3>2. {snaps[n].id : n \in old} \in SUBSET Nat
      BY <3>1
    <3> QED BY <1>2, <1>6, <3>2 DEF TypeOK
  <2> HIDE DEF left
  <2>4. /\ claimed' \in [Calls -> 0..Cardinality(Names)]
        /\ claimed'[c] + Cardinality(left) \leq Cardinality(Names)
    BY <1>1, <1>2, <1>4, <2>1 DEF TypeOK
  <2>5. NextDeletion(c, left)
    BY <1>6 DEF left
  <2> QED BY <1>1, <1>2, <1>3, <1>4, <2>1, <2>2, <2>3, <2>4, <2>5, RetentionStep
<1> QED BY <1>5, <1>6 DEF ListSnapshots

-----------------------------------------------------------------------------
(* The environment, and the induction.                                     *)

LEMMA NextDayInv ==
  ASSUME IInv, NextDay
  PROVE  IInv'
<1>1. /\ day' = day + 1 /\ day \in Nat /\ MaxDay \in Nat /\ day' \in 0..MaxDay
      /\ UNCHANGED <<zfsVars, pc, req, target, todo, claimed, answer, effects, due>>
  BY SnapshotAssumption DEF NextDay, IInv, TypeOK
<1>2. TypeOK'
  BY <1>1 DEF IInv, TypeOK, zfsVars
<1>3. SnapShape'
  <2> SUFFICES ASSUME NEW n \in Names, Present(n) PROVE snaps[n].day \leq day + 1
    BY <1>1 DEF SnapShape, Present, zfsVars
  <2> QED BY <1>1, SnapshotFacts DEF IInv, SnapShape
<1>4. \A c \in Calls : CallShape(c)'
  BY <1>1, Untouched DEF IInv, callVars
<1> QED BY <1>2, <1>3, <1>4 DEF IInv

LEMMA CloneInv ==
  ASSUME IInv, NEW n \in Names, CloneOrUnclone(n)
  PROVE  IInv'
<1>1. /\ Present(n) /\ snaps' = [snaps EXCEPT ![n].cloned = ~snaps[n].cloned]
      /\ UNCHANGED <<marks, taken, day, pc, req, target, todo, claimed, answer, effects, due>>
  BY DEF CloneOrUnclone
<1>2. /\ snaps[n] \in Snapshot
      /\ snaps \in [Names -> Snapshot \cup {Absent}]
  BY <1>1, SnapshotFacts DEF IInv, TypeOK
<1>3. [snaps[n] EXCEPT !.cloned = ~snaps[n].cloned] \in Snapshot
  BY <1>2 DEF Snapshot
<1>4. snaps' = [snaps EXCEPT ![n] = [snaps[n] EXCEPT !.cloned = ~snaps[n].cloned]]
  BY <1>1
<1>5. snaps' \in [Names -> Snapshot \cup {Absent}]
  BY <1>2, <1>3, <1>4
<1>6. TypeOK'
  BY <1>1, <1>5 DEF IInv, TypeOK
<1>7. SnapShape'
  <2> SUFFICES ASSUME NEW k \in Names, snaps'[k] # Absent PROVE snaps'[k].day \leq day
    BY <1>1 DEF SnapShape, Present
  <2>1. CASE k = n
    <3>1. snaps'[k].day = snaps[n].day
      BY <1>2, <1>4, <2>1 DEF Snapshot
    <3> QED BY <1>1, <3>1 DEF IInv, SnapShape
  <2>2. CASE k # n
    BY <1>2, <1>4, <2>2 DEF IInv, SnapShape, Present
  <2> QED BY <2>1, <2>2
<1>8. \A c \in Calls : CallShape(c)'
  BY <1>1, Untouched DEF IInv, callVars
<1> QED BY <1>6, <1>7, <1>8 DEF IInv

LEMMA InitInv == Init => IInv
<1> SUFFICES ASSUME Init PROVE IInv
  OBVIOUS
<1>1. taken \in Nat
  <2>1. \A n \in Names : LastId(Existing[n]) \in Nat
    BY SnapshotAssumption DEF LastId, Snapshot
  <2> QED BY <2>1 DEF Init
<1>2. Cardinality(Names) \in Nat /\ 0 \in 0..MaxDay
  BY NamesFinite, SnapshotAssumption
<1>3. TypeOK
  BY <1>1, <1>2, SnapshotAssumption DEF Init, TypeOK
<1>4. SnapShape
  BY SnapshotAssumption DEF Init, SnapShape, Present
<1>5. ASSUME NEW c \in Calls PROVE CallShape(c)
  BY <1>5 DEF Init, CallShape
<1> QED BY <1>3, <1>4, <1>5 DEF IInv

LEMMA StepInv == IInv /\ [Next]_vars => IInv'
<1> SUFFICES ASSUME IInv, [Next]_vars PROVE IInv'
  OBVIOUS
<1>1. ASSUME NEW c \in Calls, NEW r \in Requests, Invoke(c, r) PROVE IInv'
  BY <1>1, InvokeInv
<1>2. ASSUME NEW c \in Calls, CallStep(c) PROVE IInv'
  BY <1>2, CheckBaseInv, CheckExistsInv, TakeSnapshotInv, FetchCreatedInv,
     BookmarkBaseInv, DestroySnapshotInv, RollbackInv, ListSnapshotsInv DEF CallStep
<1>3. CASE NextDay
  BY <1>3, NextDayInv
<1>4. ASSUME NEW n \in Names, CloneOrUnclone(n) PROVE IInv'
  BY <1>4, CloneInv
<1>5. CASE UNCHANGED vars
  <2>1. TypeOK' /\ SnapShape'
    BY <1>5 DEF vars, zfsVars, IInv, TypeOK, SnapShape, Present
  <2>2. \A c \in Calls : CallShape(c)'
    BY <1>5, Untouched DEF IInv, vars, callVars
  <2> QED BY <2>1, <2>2 DEF IInv
<1> QED BY <1>1, <1>2, <1>3, <1>4, <1>5 DEF Next

LEMMA Invariance == Spec => []IInv
<1> QED BY InitInv, StepInv, PTL DEF Spec

-----------------------------------------------------------------------------
(* Losses.                                                                 *)

\* A snapshot goes away only in the destroy step of a call that is busy with
\* its name.
LEMMA LossIsDeletion ==
  ASSUME IInv, [Next]_vars, NEW n \in Names, Lost(n)
  PROVE  /\ snaps'[n] = Absent /\ ~snaps[n].cloned
         /\ \E c \in Calls : pc[c] = "destroy" /\ target[c] = n
<1>0. TypeOK /\ Present(n) /\ (snaps'[n] = Absent \/ snaps'[n].id # snaps[n].id)
  BY DEF IInv, Lost
<1>1. snaps' # snaps
  BY <1>0 DEF Present
<1>2. ASSUME NEW k \in Names, CloneOrUnclone(k) PROVE FALSE
  <2>1. /\ snaps[k] \in Snapshot
        /\ snaps' = [snaps EXCEPT ![k] = [snaps[k] EXCEPT !.cloned = ~snaps[k].cloned]]
    BY <1>0, <1>2, SnapshotFacts DEF CloneOrUnclone
  <2>2. [snaps[k] EXCEPT !.cloned = ~snaps[k].cloned] \in Snapshot
        /\ [snaps[k] EXCEPT !.cloned = ~snaps[k].cloned].id = snaps[k].id
    BY <2>1 DEF Snapshot
  <2> QED BY <1>0, <2>1, <2>2, SnapshotAssumption DEF TypeOK, Present
<1>3. ASSUME NEW c \in Calls, NEW k \in Names, ZfsSnapshot(c, k) PROVE FALSE
  BY <1>0, <1>3 DEF ZfsSnapshot, TypeOK, Present
<1>4. ASSUME NEW c \in Calls, ZfsDestroy(c, target[c]), target[c] \in Names
      PROVE  n = target[c] /\ snaps'[n] = Absent /\ ~snaps[n].cloned
  BY <1>0, <1>4 DEF ZfsDestroy, TypeOK, Present
<1>5. PICK c \in Calls : CallStep(c)
  BY <1>1, <1>2 DEF Next, vars, zfsVars, Invoke, NextDay
<1>6. pc[c] # "idle" => target[c] \in Names
  BY Asked
<1>7. CASE DestroySnapshot(c)
  <2>1. ZfsDestroy(c, target[c]) /\ pc[c] = "destroy"
    BY <1>1, <1>7 DEF DestroySnapshot, Nothing, zfsVars
  <2> QED BY <1>4, <1>6, <2>1
<1>8. CASE TakeSnapshot(c)
  <2>1. ZfsSnapshot(c, target[c]) /\ pc[c] = "snapshot"
    BY <1>1, <1>8 DEF TakeSnapshot, Nothing, zfsVars
  <2> QED BY <1>3, <1>6, <2>1
<1>9. CASE Rollback(c)
  BY <1>1, <1>9 DEF Rollback, ZfsRollback, Nothing, zfsVars
<1>10. CASE BookmarkBase(c)
  BY <1>1, <1>10 DEF BookmarkBase, ZfsBookmark, Nothing, zfsVars
<1>11. CASE CheckBase(c) \/ CheckExists(c) \/ FetchCreated(c) \/ ListSnapshots(c)
  BY <1>1, <1>11 DEF CheckBase, CheckExists, FetchCreated, ListSnapshots, zfsVars
<1> QED BY <1>5, <1>7, <1>8, <1>9, <1>10, <1>11 DEF CallStep

\* A call in its destroy step is a plain deletion, or the loop of a retention
\* of 0 days or less that is no dry run.
LEMMA Destroyer ==
  ASSUME IInv, NEW c \in Calls, pc[c] = "destroy", req[c].op = "retention"
  PROVE  ~req[c].dry /\ req[c].days \in Int /\ req[c].days \leq 0 /\ target[c] \in Names
  BY Asked, RequestFacts DEF RetentionShape, InLoop

-----------------------------------------------------------------------------
(* The theorems.                                                           *)

\* Every variable keeps its type; deleted_count never exceeds the number of
\* names (apply_retention_policy).
THEOREM TypeCorrect == Spec => []TypeOK
<1>1. IInv => TypeOK
  BY DEF IInv
<1> QED BY <1>1, Invariance, PTL

\* A successful create, destroy or rollback did what it says, itself and once
\* (create_snapshot, destroy_snapshot, rollback_to_snapshot,
\* create_incremental_snapshot); a dry run does nothing.
THEOREM AnswersCorrect == Spec => []AnswersAreTrue
<1>1. IInv => AnswersAreTrue
  BY DEF IInv, CallShape, RetentionShape, SimpleShape, AnswersAreTrue
<1> QED BY <1>1, Invariance, PTL

\* Only deletions that name a snapshot lose it (destroy_snapshot,
\* rollback_to_snapshot, apply_retention_policy).
THEOREM LossesCorrect == Spec => LostOnlyToDeletion
<1>1. IInv /\ [Next]_vars => [\A n \in Names : LossIsRequested(n)]_vars
  BY LossIsDeletion, Destroyer DEF LossIsRequested
<1> QED BY <1>1, Invariance, PTL DEF Spec, LostOnlyToDeletion

\* A retention deletes nothing younger than its days (apply_retention_policy,
\* _parse_snapshot_list).
THEOREM RetentionCorrect == Spec => RetentionSparesRecent
<1>1. IInv /\ [Next]_vars =>
        [\A c \in Calls :
           /\ pc[c] = "destroy" /\ req[c].op = "retention" /\ pc'[c] # "destroy"
           /\ Lost(target[c])
           => day - snaps[target[c]].day \geq req[c].days]_vars
  <2> SUFFICES ASSUME IInv, [Next]_vars, NEW c \in Calls,
                      pc[c] = "destroy", req[c].op = "retention", Lost(target[c])
               PROVE  day - snaps[target[c]].day \geq req[c].days
    OBVIOUS
  <2>1. req[c].days \in Int /\ req[c].days \leq 0 /\ target[c] \in Names /\ Present(target[c]) /\ TypeOK
    BY Destroyer DEF Lost, IInv
  <2>2. /\ snaps[target[c]].day \in Nat /\ day \in Nat
        /\ snaps[target[c]].day \leq day
    BY <2>1, SnapshotFacts, SnapshotAssumption DEF IInv, SnapShape, TypeOK
  <2> QED BY <2>1, <2>2
<1> QED BY <1>1, Invariance, PTL DEF Spec, RetentionSparesRecent

-----------------------------------------------------------------------------
(* Every call comes to an end.  A command is followed by one of the same   *)
(* snapshot that comes later in the chain, or by the first one of the next *)
(* snapshot; what the other calls do cannot send a call back.              *)

\* How many commands the call c can still make.
CommandsLeft(c) ==
  CASE pc[c] = "list"     -> 2 * Cardinality(Names) + 3
    [] pc[c] = "exists"   -> 2 * Cardinality(todo[c]) + 4
    [] pc[c] = "destroy"  -> 2 * Cardinality(todo[c]) + 3
    [] pc[c] = "base"     -> 5
    [] pc[c] = "snapshot" -> 3
    [] pc[c] = "fetch"    -> 2
    [] pc[c] \in {"bookmark", "rollback"} -> 1
    [] OTHER              -> 0

NearerTheAnswer(c) ==
  /\ CommandsLeft(c) \in 0..(2 * Cardinality(Names) + 5)
  /\ CallStep(c) => CommandsLeft(c)' < CommandsLeft(c)
  /\ pc[c] # "idle" => CommandsLeft(c)' \leq CommandsLeft(c)

\* Every command brings its call nearer to the answer, a failed deletion in the
\* loop of a retention too, and no step of another call takes it away from there.
CallComesToAnEnd == [][\A c \in Calls : NearerTheAnswer(c)]_vars

LEMMA LeftFacts ==
  ASSUME IInv, NEW c \in Calls
  PROVE  /\ todo[c] \in SUBSET Names
         /\ Cardinality(todo[c]) \in Nat /\ Cardinality(Names) \in Nat
         /\ Cardinality(todo[c]) \leq Cardinality(Names)
         /\ CommandsLeft(c) \in 0..(2 * Cardinality(Names) + 5)
<1>1. todo[c] \in SUBSET Names
  BY DEF IInv, TypeOK
<1>2. /\ Cardinality(todo[c]) \in Nat /\ Cardinality(Names) \in Nat
      /\ Cardinality(todo[c]) \leq Cardinality(Names)
  BY <1>1, NamesFinite
<1> QED BY <1>1, <1>2 DEF CommandsLeft

\* The loop goes on with one name fewer, or is over.
LEMMA LoopCountsDown ==
  ASSUME IInv, NEW c \in Calls, NEW left \in SUBSET Names, NextDeletion(c, left),
         NEW n \in Nat, Cardinality(left) \leq n
  PROVE  CommandsLeft(c)' \in 0..(2 * n + 2)
<1>1. /\ pc'[c] = "answered" \/ pc'[c] = "exists"
      /\ Cardinality(todo'[c]) + Pending(c)' = Cardinality(left)
      /\ todo'[c] \in SUBSET Names
  BY NextDeletionFacts DEF IInv
<1>2. Cardinality(todo'[c]) \in Nat /\ Cardinality(left) \in Nat
  BY <1>1, NamesFinite
<1>3. CASE pc'[c] = "answered"
  <2>1. CommandsLeft(c)' = 0
    BY <1>3 DEF CommandsLeft
  <2> QED BY <2>1
<1>4. CASE pc'[c] = "exists"
  <2>1. Cardinality(todo'[c]) + 1 = Cardinality(left)
    BY <1>1, <1>4 DEF Pending, InLoop
  <2>2. CommandsLeft(c)' = 2 * Cardinality(todo'[c]) + 4
    BY <1>4 DEF CommandsLeft
  <2> QED BY <1>2, <2>1, <2>2
<1> QED BY <1>1, <1>3, <1>4

LEMMA EndCountsDown ==
  ASSUME IInv, NEW c \in Calls, NEW verdict \in {"ok", "failed"}, DestroyEnds(c, verdict)
  PROVE  CommandsLeft(c)' \in 0..(2 * Cardinality(todo[c]) + 2)
<1>1. todo[c] \in SUBSET Names /\ Cardinality(todo[c]) \in Nat
  BY LeftFacts
<1>2. CASE NextDeletion(c, todo[c])
  BY <1>1, <1>2, LoopCountsDown
<1>3. CASE Answer(c, verdict)
  <2>1. pc'[c] = "answered"
    BY <1>3, AnswerFacts DEF IInv
  <2>2. CommandsLeft(c)' = 0
    BY <2>1 DEF CommandsLeft
  <2> QED BY <1>1, <2>2
<1> QED BY <1>2, <1>3 DEF DestroyEnds

\* Where a command of a single snapshot leads to.
LEMMA SimpleCountsDown ==
  ASSUME IInv, NEW c \in Calls,
         \/ CheckBase(c) \/ TakeSnapshot(c) \/ FetchCreated(c)
         \/ BookmarkBase(c) \/ Rollback(c)
  PROVE  /\ todo'[c] = todo[c] /\ todo[c] = {}
         /\ \/ pc[c] = "base" /\ pc'[c] \in {"exists", "answered"}
            \/ pc[c] = "snapshot" /\ pc'[c] \in {"fetch", "answered"}
            \/ pc[c] = "fetch" /\ pc'[c] \in {"bookmark", "answered"}
            \/ pc[c] \in {"bookmark", "rollback"} /\ pc'[c] = "answered"
<1>1. pc[c] \in {"base", "snapshot", "fetch", "bookmark", "rollback"} /\ todo' = todo
  BY DEF CheckBase, TakeSnapshot, FetchCreated, BookmarkBase, Rollback
<1>2. TypeOK /\ todo[c] = {}
  BY <1>1, Asked DEF RetentionShape, SimpleShape, InLoop
<1>3. \/ pc[c] = "base" /\ (Goto(c, "exists") \/ Answer(c, "failed"))
      \/ pc[c] = "snapshot" /\ (Goto(c, "fetch") \/ Answer(c, "failed"))
      \/ pc[c] = "fetch" /\ (Goto(c, "bookmark") \/ Answer(c, "failed") \/ Answer(c, "ok"))
      \/ pc[c] = "bookmark" /\ Answer(c, "ok")
      \/ pc[c] = "rollback" /\ (Answer(c, "ok") \/ Answer(c, "failed"))
  BY DEF CheckBase, TakeSnapshot, FetchCreated, BookmarkBase, Rollback
<1> QED BY <1>1, <1>2, <1>3, GotoFacts, AnswerFacts DEF Commands

LEMMA CallCountsDown ==
  ASSUME IInv, NEW c \in Calls, CallStep(c)
  PROVE  CommandsLeft(c)' < CommandsLeft(c) /\ CommandsLeft(c)' \leq CommandsLeft(c)
<1> DEFINE n == Cardinality(todo[c])
<1>1. /\ n \in Nat /\ todo[c] \in SUBSET Names /\ Cardinality(Names) \in Nat
      /\ TypeOK
  BY LeftFacts DEF IInv
<1> HIDE DEF n
<1>2. CASE \/ CheckBase(c) \/ TakeSnapshot(c) \/ FetchCreated(c)
           \/ BookmarkBase(c) \/ Rollback(c)
  BY <1>2, SimpleCountsDown, EmptyCardinality DEF CommandsLeft
<1>3. CASE CheckExists(c)
  <2>1. pc[c] = "exists" /\ CommandsLeft(c) = 2 * n + 4
    BY <1>3 DEF CheckExists, CommandsLeft, n
  <2>2. CASE DestroyEnds(c, "failed")
    BY <1>1, <2>1, <2>2, EndCountsDown DEF n
  <2>3. CASE UNCHANGED todo /\ pc'[c] \in {"snapshot", "rollback", "destroy", "answered"}
    BY <1>1, <2>1, <2>3 DEF CommandsLeft, n
  <2>4. \/ DestroyEnds(c, "failed")
        \/ /\ UNCHANGED todo
           /\ \/ Answer(c, "failed") \/ Goto(c, "snapshot")
              \/ Goto(c, "rollback") \/ Goto(c, "destroy")
    <3>1. req[c].op \in Ops
      BY <2>1, Asked
    <3> QED BY <1>3, <3>1 DEF CheckExists, Ops
  <2> QED BY <1>1, <2>2, <2>3, <2>4, GotoFacts, AnswerFacts DEF Commands
<1>4. CASE DestroySnapshot(c)
  <2>1. pc[c] = "destroy" /\ CommandsLeft(c) = 2 * n + 3
    BY <1>4 DEF DestroySnapshot, CommandsLeft, n
  <2>2. CommandsLeft(c)' \in 0..(2 * n + 2)
    BY <1>4, EndCountsDown DEF DestroySnapshot, n
  <2> QED BY <1>1, <2>1, <2>2
<1>5. CASE ListSnapshots(c)
  <2>1. pc[c] = "list" /\ CommandsLeft(c) = 2 * Cardinality(Names) + 3
    BY <1>5 DEF ListSnapshots, CommandsLeft
  <2>2. CASE Answer(c, "failed")
    <3>1. CommandsLeft(c)' = 0
      BY <1>1, <2>2, AnswerFacts DEF CommandsLeft
    <3> QED BY <1>1, <2>1, <3>1
  <2>3. ASSUME NEW left \in SUBSET Names, NextDeletion(c, left)
        PROVE  CommandsLeft(c)' < CommandsLeft(c) /\ CommandsLeft(c)' \leq CommandsLeft(c)
    <3>1. Cardinality(left) \leq Cardinality(Names)
      BY NamesFinite
    <3> QED BY <1>1, <2>1, <2>3, <3>1, LoopCountsDown
  <2>4. Answer(c, "failed") \/ \E left \in SUBSET Names : NextDeletion(c, left)
    BY <1>5 DEF ListSnapshots
  <2> QED BY <2>2, <2>3, <2>4
<1> QED BY <1>2, <1>3, <1>4, <1>5 DEF CallStep

\* Whatever another call does, this one stays where it is.
LEMMA OthersWait ==
  ASSUME IInv, NEW c \in Calls, NEW d \in Calls \ {c},
         CallStep(d) \/ \E r \in Requests : Invoke(d, r)
  PROVE  pc'[c] = pc[c] /\ todo'[c] = todo[c]
<1>1. TypeOK
  BY DEF IInv
<1>2. \A x : Goto(d, x) \/ Answer(d, x) => pc'[c] = pc[c]
  BY <1>1 DEF Goto, Answer, TypeOK
<1>3. \A left : NextDeletion(d, left) => pc'[c] = pc[c] /\ todo'[c] = todo[c]
  BY <1>1, <1>2 DEF NextDeletion, TypeOK
<1>4. \A v : DestroyEnds(d, v) => pc'[c] = pc[c] /\ todo'[c] = todo[c]
  BY <1>2, <1>3 DEF DestroyEnds
<1>5. CASE CheckBase(d) \/ TakeSnapshot(d) \/ FetchCreated(d) \/ BookmarkBase(d) \/ Rollback(d)
  BY <1>2, <1>5 DEF CheckBase, TakeSnapshot, FetchCreated, BookmarkBase, Rollback
<1>6. CASE CheckExists(d)
  <2>1. pc[d] = "exists"
    BY <1>6 DEF CheckExists
  <2>2. req[d].op \in Ops
    BY <2>1, Asked
  <2>3. \/ DestroyEnds(d, "failed")
        \/ UNCHANGED todo /\ \E x : Goto(d, x) \/ Answer(d, x)
    BY <1>6, <2>2 DEF CheckExists, Ops
  <2> QED BY <1>2, <1>4, <2>3
<1>7. CASE DestroySnapshot(d)
  BY <1>4, <1>7 DEF DestroySnapshot
<1>8. CASE ListSnapshots(d)
  BY <1>2, <1>3, <1>8 DEF ListSnapshots
<1>9. CASE \E r \in Requests : Invoke(d, r)
  BY <1>2, <1>9 DEF Invoke
<1> QED BY <1>5, <1>6, <1>7, <1>8, <1>9 DEF CallStep

\* No call makes more commands than its snapshots have names for, twice, and a
\* few: none waits for another, tries again or starts over.
THEOREM CallEnds == Spec => CallComesToAnEnd
<1>1. ASSUME IInv, [Next]_vars, NEW c \in Calls
      PROVE  NearerTheAnswer(c)
  <2>1. CommandsLeft(c) \in 0..(2 * Cardinality(Names) + 5) /\ Cardinality(Names) \in Nat
    BY <1>1, LeftFacts
  <2>2. ASSUME pc[c] # "idle" PROVE CommandsLeft(c)' \leq CommandsLeft(c)
    <3>1. CASE pc'[c] = pc[c] /\ todo'[c] = todo[c]
      <4>1. CommandsLeft(c)' = CommandsLeft(c)
        BY <3>1 DEF CommandsLeft
      <4> QED BY <2>1, <4>1
    <3>2. CASE CallStep(c)
      BY <3>2, CallCountsDown, <1>1
    <3>3. CASE \E d \in Calls \ {c} : CallStep(d) \/ \E r \in Requests : Invoke(d, r)
      BY <1>1, <3>1, <3>3, OthersWait
    <3>4. CASE NextDay \/ (\E n \in Names : CloneOrUnclone(n)) \/ UNCHANGED vars
      BY <3>1, <3>4 DEF NextDay, CloneOrUnclone, vars
    <3>5. ~ \E r \in Requests : Invoke(c, r)
      BY <2>2 DEF Invoke
    <3> QED BY <1>1, <3>2, <3>3, <3>4, <3>5 DEF Next
  <2> QED BY <1>1, <2>1, <2>2, CallCountsDown DEF NearerTheAnswer
<1>2. IInv /\ [Next]_vars => [\A c \in Calls : NearerTheAnswer(c)]_vars
  BY <1>1
<1> QED BY <1>2, Invariance, PTL DEF Spec, CallComesToAnEnd

-----------------------------------------------------------------------------
(* The service implements the store (SnapshotStore).                       *)

\* A call but for a retention is busy with the name it was given, and every
\* snapshot has a number that was given out.
StoreInv ==
  /\ \A c \in Calls : req[c] # NoRequest /\ req[c].op # "retention" => target[c] = req[c].name
  /\ \A n \in Names : Present(n) => snaps[n].id \leq taken

\* What every command of a call has in common.
LEMMA StepFrame ==
  ASSUME IInv, NEW c \in Calls, CallStep(c)
  PROVE  /\ pc[c] \in Commands /\ req[c] # NoRequest /\ answer[c] = "none"
         /\ target[c] \in Names /\ req[c].op \in Ops
         /\ UNCHANGED <<day, req>>
         /\ \/ UNCHANGED answer
            \/ \E verdict \in {"ok", "failed"} : answer' = [answer EXCEPT ![c] = verdict]
         /\ \A d \in Calls \ {c} : target'[d] = target[d]
         /\ req[c].op # "retention" => UNCHANGED target
<1>1. pc[c] \in Commands /\ UNCHANGED <<day, req>>
  BY DEF CallStep, CheckBase, CheckExists, TakeSnapshot, FetchCreated, BookmarkBase,
         DestroySnapshot, Rollback, ListSnapshots, Commands
<1>2. /\ req[c] # NoRequest /\ req[c].op \in Ops /\ answer[c] = "none"
      /\ target[c] \in Names /\ TypeOK
      /\ req[c].op # "retention" => SimpleShape(c)
  BY <1>1, Asked DEF Commands
<1> DEFINE Said == \/ UNCHANGED answer
                   \/ \E verdict \in {"ok", "failed"} :
                        answer' = [answer EXCEPT ![c] = verdict]
           Aimed == \A d \in Calls \ {c} : target'[d] = target[d]
<1>3. \A x : Goto(c, x) => Said
  BY DEF Goto
<1>4. \A v \in {"ok", "failed"} : Answer(c, v) => Said
  BY DEF Answer
<1>5. \A left : NextDeletion(c, left) => Said /\ Aimed
  BY <1>2, <1>3, <1>4 DEF NextDeletion, TypeOK
<1>6. \A v \in {"ok", "failed"} :
        DestroyEnds(c, v) => Said /\ Aimed /\ (req[c].op # "retention" => UNCHANGED target)
  BY <1>4, <1>5 DEF DestroyEnds
<1> HIDE DEF Said, Aimed
<1>7. UNCHANGED target => Aimed
  BY DEF Aimed
<1>8. Said /\ Aimed /\ (req[c].op # "retention" => UNCHANGED target)
  <2>1. CASE CheckBase(c) \/ TakeSnapshot(c) \/ FetchCreated(c) \/ BookmarkBase(c) \/ Rollback(c)
    BY <1>3, <1>4, <1>7, <2>1
    DEF CheckBase, TakeSnapshot, FetchCreated, BookmarkBase, Rollback
  <2>2. CASE CheckExists(c)
    BY <1>2, <1>3, <1>4, <1>6, <1>7, <2>2 DEF CheckExists, Ops
  <2>3. CASE DestroySnapshot(c)
    BY <1>6, <2>3 DEF DestroySnapshot
  <2>4. CASE ListSnapshots(c)
    <3>1. pc[c] = "list"
      BY <2>4 DEF ListSnapshots
    <3>2. req[c].op = "retention"
      BY <1>2, <3>1 DEF SimpleShape
    <3>3. (Answer(c, "failed") /\ UNCHANGED target) \/ \E left : NextDeletion(c, left)
      BY <2>4 DEF ListSnapshots
    <3> QED BY <1>4, <1>5, <1>7, <3>2, <3>3
  <2> QED BY <2>1, <2>2, <2>3, <2>4 DEF CallStep
<1> QED BY <1>1, <1>2, <1>8 DEF Said, Aimed

\* What it says it did.
LEMMA ReplyIsTrue ==
  ASSUME IInv, IInv', NEW c \in Calls, CallStep(c)
  PROVE  Store!Reply(c)
<1>1. /\ req[c] # NoRequest /\ req' = req
      /\ \/ UNCHANGED answer
         \/ \E verdict \in {"ok", "failed"} : answer' = [answer EXCEPT ![c] = verdict]
  BY StepFrame
<1>2. SUFFICES ASSUME answer' = [answer EXCEPT ![c] = "ok"], req[c].op # "retention"
               PROVE  effects'[c] # {}
  BY <1>1 DEF Store!Reply
<1>3. answer'[c] = "ok"
  BY <1>2 DEF IInv, TypeOK
<1>4. SimpleShape(c)'
  BY <1>1, <1>2 DEF IInv, CallShape
<1> QED BY <1>3, <1>4 DEF SimpleShape

\* The four commands that do something, and who makes them.
LEMMA Doings ==
  ASSUME IInv, NEW c \in Calls, CallStep(c)
  PROVE  \/ UNCHANGED <<snaps, taken, effects>>
         \/ pc[c] = "snapshot" /\ ZfsSnapshot(c, target[c])
         \/ pc[c] = "destroy" /\ ZfsDestroy(c, target[c])
         \/ pc[c] = "rollback" /\ ZfsRollback(c, target[c])
<1>1. CASE \/ CheckBase(c) \/ CheckExists(c) \/ FetchCreated(c) \/ BookmarkBase(c)
           \/ ListSnapshots(c)
  BY <1>1 DEF CheckBase, CheckExists, FetchCreated, BookmarkBase, ListSnapshots,
              ZfsBookmark, Nothing, zfsVars
<1>2. CASE TakeSnapshot(c) \/ DestroySnapshot(c) \/ Rollback(c)
  BY <1>2 DEF TakeSnapshot, DestroySnapshot, Rollback, Nothing, zfsVars
<1> QED BY <1>1, <1>2 DEF CallStep

LEMMA StoreInvStep ==
  ASSUME IInv, StoreInv, [Next]_vars
  PROVE  StoreInv'
<1> USE DEF StoreInv
<1>t. TypeOK
  BY DEF IInv
<1>1. CASE UNCHANGED <<snaps, taken, req, target>>
  BY <1>1 DEF Present
<1>2. ASSUME NEW c \in Calls, NEW r \in Requests, Invoke(c, r) PROVE StoreInv'
  <2>1. /\ req' = [req EXCEPT ![c] = r] /\ target' = [target EXCEPT ![c] = r.name]
        /\ UNCHANGED <<snaps, taken>>
    BY <1>2 DEF Invoke, zfsVars
  <2> QED BY <1>t, <2>1 DEF Present, TypeOK
<1>3. ASSUME NEW c \in Calls, CallStep(c) PROVE StoreInv'
  <2>1. \A d \in Calls : req'[d] # NoRequest /\ req'[d].op # "retention"
                           => target'[d] = req'[d].name
    BY <1>3, StepFrame
  <2>2. target[c] \in Names
    BY <1>3, StepFrame
  <2>3. CASE UNCHANGED <<snaps, taken, effects>>
    BY <2>1, <2>3 DEF Present
  <2>4. CASE ZfsSnapshot(c, target[c])
    <3>1. taken \in Nat /\ taken' = taken + 1
      BY <1>t, <2>4 DEF ZfsSnapshot, TypeOK
    <3>2. ASSUME NEW n \in Names, snaps'[n] # Absent PROVE snaps'[n].id \leq taken'
      <4>1. CASE n = target[c]
        <5>1. snaps'[n].id = taken + 1
          BY <1>t, <2>2, <2>4, <4>1 DEF ZfsSnapshot, TypeOK
        <5> QED BY <3>1, <5>1
      <4>2. CASE n # target[c]
        <5>1. snaps'[n] = snaps[n] /\ Present(n)
          BY <1>t, <2>2, <2>4, <3>2, <4>2 DEF ZfsSnapshot, TypeOK, Present
        <5>2. snaps[n].id \in Nat
          BY <1>t, <5>1, SnapshotFacts
        <5> QED BY <3>1, <5>1, <5>2
      <4> QED BY <4>1, <4>2
    <3> QED BY <2>1, <3>2 DEF Present
  <2>5. CASE ZfsDestroy(c, target[c])
    <3>1. \A n \in Names : snaps'[n] \in {snaps[n], Absent}
      BY <1>t, <2>2, <2>5 DEF ZfsDestroy, TypeOK
    <3> QED BY <2>1, <2>5, <3>1 DEF ZfsDestroy, Present
  <2>6. CASE ZfsRollback(c, target[c])
    BY <2>1, <2>6 DEF ZfsRollback, zfsVars, Present
  <2> QED BY <1>3, <2>3, <2>4, <2>5, <2>6, Doings
<1>4. CASE NextDay \/ UNCHANGED vars
  BY <1>1, <1>4 DEF NextDay, vars, zfsVars
<1>5. ASSUME NEW n \in Names, CloneOrUnclone(n) PROVE StoreInv'
  <2>1. /\ snaps[n] \in Snapshot /\ Present(n)
        /\ snaps' = [snaps EXCEPT ![n] = [snaps[n] EXCEPT !.cloned = ~snaps[n].cloned]]
        /\ UNCHANGED <<taken, req, target>>
    BY <1>t, <1>5, SnapshotFacts DEF CloneOrUnclone
  <2>2. [snaps[n] EXCEPT !.cloned = ~snaps[n].cloned].id = snaps[n].id
    BY <2>1 DEF Snapshot
  <2>3. \A k \in Names : \/ snaps'[k] = snaps[k]
                         \/ Present(k) /\ snaps'[k].id = snaps[k].id
    BY <1>t, <2>1, <2>2 DEF TypeOK
  <2> QED BY <2>1, <2>3 DEF Present
<1> QED BY <1>2, <1>3, <1>4, <1>5 DEF Next

\* A snapshot that is taken is the store's next one.
LEMMA TakesOne ==
  ASSUME IInv, StoreInv, NEW c \in Calls, pc[c] = "snapshot", ZfsSnapshot(c, target[c]),
         UNCHANGED <<day, req>>, Store!Reply(c)
  PROVE  Store!Create(c)
<1> DEFINE n == target[c]
<1>1. /\ req[c] # NoRequest /\ answer[c] = "none" /\ n \in Names /\ TypeOK
      /\ req[c].op \in {"create", "incremental"} /\ effects[c] = {} /\ n = req[c].name
  BY Asked DEF RetentionShape, SimpleShape, InLoop, StoreInv
<1>2. /\ snaps' = [snaps EXCEPT ![n] = [id |-> taken + 1, day |-> day, cloned |-> FALSE]]
      /\ snaps[n] = Absent /\ taken \in Nat
      /\ effects' = [effects EXCEPT ![c] = @ \cup {<<"created", taken + 1>>}]
  BY <1>1 DEF ZfsSnapshot, Did, Present, TypeOK
<1>3. snaps'[n] = [id |-> taken + 1, day |-> day, cloned |-> FALSE]
  BY <1>1, <1>2 DEF TypeOK
<1>4. /\ snaps'[n] # Absent
      /\ snaps'[n].id = taken + 1 /\ snaps'[n].day = day /\ ~snaps'[n].cloned
  <2>1. [id |-> taken + 1, day |-> day, cloned |-> FALSE] \in Snapshot
    BY <1>1, <1>2 DEF Snapshot, TypeOK
  <2>2. snaps'[n] # Absent
    BY <1>3, <2>1, SnapshotAssumption
  <2>3. snaps'[n].id = taken + 1 /\ snaps'[n].day = day /\ snaps'[n].cloned = FALSE
    BY <1>3
  <2> QED BY <2>2, <2>3
<1>5. \A k \in Names \ {n} : snaps'[k] = snaps[k]
  BY <1>1, <1>2 DEF TypeOK
<1>6. ASSUME NEW k \in Names, snaps[k] # Absent PROVE snaps[k].id < taken + 1
  <2>1. snaps[k].id \in Nat /\ snaps[k].id \leq taken
    BY <1>1, <1>6, SnapshotFacts DEF StoreInv, Present
  <2> QED BY <1>2, <2>1
<1>7. Store!Did(c, "created", snaps'[n].id)
  BY <1>2, <1>4 DEF Store!Did
<1> QED BY <1>1, <1>2, <1>4, <1>5, <1>6, <1>7 DEF Store!Create, Store!Pending

\* A snapshot that is destroyed was asked for, or old enough.
LEMMA DestroysOne ==
  ASSUME IInv, StoreInv, NEW c \in Calls, pc[c] = "destroy", ZfsDestroy(c, target[c]),
         UNCHANGED <<day, req>>, Store!Reply(c)
  PROVE  Store!Destroy(c) \/ Store!Retain(c)
<1> DEFINE n == target[c]
<1>1. /\ req[c] # NoRequest /\ answer[c] = "none" /\ n \in Names /\ TypeOK
      /\ req[c].op = "retention" \/ SimpleShape(c)
  BY Asked
<1>2. Store!Remove(c, n) /\ snaps[n] # Absent
  BY DEF ZfsDestroy, Did, Present, Store!Remove, Store!Did
<1>3. CASE req[c].op = "retention"
  <2>1. ~req[c].dry /\ req[c].days \in Int /\ req[c].days \leq 0
    BY <1>3, Destroyer
  <2>2. snaps[n].day \in Nat /\ snaps[n].day \leq day /\ day \in Nat
    BY <1>1, <1>2, SnapshotFacts, SnapshotAssumption DEF IInv, SnapShape, Present, TypeOK
  <2>3. snaps[n].day + req[c].days \leq day
    BY <2>1, <2>2
  <2> QED BY <1>1, <1>2, <1>3, <2>1, <2>3 DEF Store!Retain, Store!Pending
<1>4. CASE req[c].op # "retention"
  <2>1. req[c].op = "destroy" /\ effects[c] = {} /\ n = req[c].name
    BY <1>1, <1>4 DEF SimpleShape, StoreInv
  <2> QED BY <1>1, <1>2, <2>1 DEF Store!Destroy, Store!Pending
<1> QED BY <1>3, <1>4

\* What a rollback restores is the latest.
LEMMA RestoresOne ==
  ASSUME IInv, StoreInv, NEW c \in Calls, pc[c] = "rollback", ZfsRollback(c, target[c]),
         UNCHANGED <<day, req>>, Store!Reply(c)
  PROVE  Store!Rollback(c)
<1>1. /\ req[c] # NoRequest /\ answer[c] = "none"
      /\ req[c].op = "rollback" /\ effects[c] = {} /\ target[c] = req[c].name
  BY Asked DEF RetentionShape, SimpleShape, InLoop, StoreInv
<1>2. Store!Did(c, "restored", snaps[target[c]].id)
  BY DEF ZfsRollback, Did, Store!Did
<1> QED BY <1>1, <1>2 DEF ZfsRollback, Present, zfsVars, Store!Rollback, Store!Pending

LEMMA StoreStep ==
  ASSUME IInv, IInv', StoreInv, [Next]_vars
  PROVE  [Store!Next]_(Store!vars)
<1>1. ASSUME NEW c \in Calls, CallStep(c) PROVE Store!Next
  <2>1. Store!Reply(c) /\ UNCHANGED <<day, req>> /\ req[c] # NoRequest /\ answer[c] = "none"
    BY <1>1, ReplyIsTrue, StepFrame
  <2>2. CASE UNCHANGED <<snaps, taken, effects>>
    BY <2>1, <2>2 DEF Store!Answer, Store!Next
  <2>3. CASE pc[c] = "snapshot" /\ ZfsSnapshot(c, target[c])
    BY <2>1, <2>3, TakesOne DEF Store!Next
  <2>4. CASE pc[c] = "destroy" /\ ZfsDestroy(c, target[c])
    BY <2>1, <2>4, DestroysOne DEF Store!Next
  <2>5. CASE pc[c] = "rollback" /\ ZfsRollback(c, target[c])
    BY <2>1, <2>5, RestoresOne DEF Store!Next
  <2> QED BY <1>1, <2>2, <2>3, <2>4, <2>5, Doings
<1>2. ASSUME NEW c \in Calls, NEW r \in Requests, Invoke(c, r) PROVE Store!Next
  <2>1. req[c] = NoRequest
    BY <1>2 DEF Invoke, IInv, CallShape
  <2>2. Store!Ask(c, r)
    BY <1>2, <2>1 DEF Invoke, Goto, zfsVars, Store!Ask
  <2> QED BY <2>2 DEF Store!Next
<1>3. CASE NextDay
  BY <1>3 DEF NextDay, zfsVars, Store!NextDay, Store!Next
<1>4. ASSUME NEW n \in Names, CloneOrUnclone(n) PROVE Store!Next
  BY <1>4 DEF CloneOrUnclone, Present, Store!CloneOrUnclone, Store!Next
<1>5. CASE UNCHANGED vars
  BY <1>5 DEF vars, zfsVars, Store!vars
<1> QED BY <1>1, <1>2, <1>3, <1>4, <1>5 DEF Next

\* To its callers the snapshot service is a store that carries out requests one
\* at a time or fails to, whatever happens between its commands (SnapshotService,
\* CommandExecutor).
THEOREM StoreCorrect == Spec => StoreSpec
<1>1. Init => StoreInv
  <2> SUFFICES ASSUME Init PROVE StoreInv
    OBVIOUS
  <2>1. ASSUME NEW n \in Names, Present(n) PROVE snaps[n].id \leq taken
    BY <2>1 DEF Init, LastId, Present
  <2> QED BY <2>1 DEF StoreInv, Init
<1>2. Init => Store!Init
  BY DEF Init, Store!Init
<1>3. IInv /\ StoreInv /\ [Next]_vars => StoreInv'
  BY StoreInvStep
<1>4. IInv /\ IInv' /\ StoreInv /\ [Next]_vars => [Store!Next]_(Store!vars)
  BY StoreStep
<1> QED BY <1>1, <1>2, <1>3, <1>4, Invariance, PTL DEF Spec, StoreSpec, Store!Spec
===============================================================================
