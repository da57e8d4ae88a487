----------------------------- MODULE ZfsHostProofs -----------------------------
(***************************************************************************)
(* Proofs about ZfsHost, for any calls, requests, names and bounds.        *)
(*                                                                         *)
(* The invariant says which operations each command serves: a command that *)
(* changes something is reached only by the one operation that promises    *)
(* it, and a create reads its dataset back only after it made it.          *)
(***************************************************************************)
EXTENDS ZfsHost, FiniteSetTheorems, TLAPS

Commands == PoolCommands \cup DatasetCommands

Fits(command, op) ==
  \/ command = "answered"
  \/ command \in {"status", "properties", "capacity"} /\ op \in {"get_pool", "start", "export"}
  \/ command \in {"detail", "errors"} /\ op = "health"
  \/ command = "scan" /\ op \in {"health", "start", "stop", "scrub_status"}
  \/ command = "pools" /\ op = "list_pools"
  \/ command = "report" /\ op \in {"iostat", "history", "performance"}
  \/ command = "scrub" /\ op = "start"
  \/ command = "unscrub" /\ op = "stop"
  \/ command \in {"export", "import", "create", "destroy", "set", "mount", "unmount", "list"}
     /\ op = command
  \/ command = "exists" /\ op \in {"create", "destroy"}
  \/ command \in {"info", "properties_of"} /\ op \in {"create", "get"}
  \/ command = "usage" /\ op \in {"usage", "monitor"}
  \/ command \in {"objset", "pool_iostat", "wait"} /\ op = "monitor"

Changes(op) == op \in DOMAIN Promise

CallInv(c) ==
  /\ pc[c] = "idle" => effects[c] = {}
  /\ pc[c] # "idle" => req[c] \in Requests /\ Fits(pc[c], Op(c))
  /\ pc[c] # "answered" => answer[c] = "none"
  /\ \A e \in effects[c] : Changes(Op(c)) /\ e[1] = Promise[Op(c)]
  /\ pc[c] \in {"info", "properties_of"} /\ Changes(Op(c)) => effects[c] # {}
  /\ answer[c] = "ok" /\ Changes(Op(c)) => effects[c] # {}

IInv == TypeOK /\ \A c \in Calls : CallInv(c)

Control(c) == <<pc[c], req[c], answer[c], effects[c]>>

-----------------------------------------------------------------------------
(* Control. *)

\* The step of one call: only what it does itself is left to prove.
LEMMA OneCall ==
  ASSUME IInv, NEW c \in Calls, TypeOK', CallInv(c)',
         \A d \in Calls \ {c} : UNCHANGED Control(d)
  PROVE  IInv'
<1>1. ASSUME NEW d \in Calls, d # c PROVE CallInv(d)'
  BY <1>1 DEF IInv, CallInv, Control, Op, Changes, Promise, Fits
<1> QED BY <1>1 DEF IInv

LEMMA Asked ==
  ASSUME IInv, NEW c \in Calls, pc[c] \notin {"idle", "answered"}
  PROVE  /\ TypeOK /\ CallInv(c) /\ answer[c] = "none"
         /\ req[c] \in Requests /\ Fits(pc[c], Op(c))
         /\ Op(c) \in DatasetOps \ {"list"} => Name(c) \in Names
  BY DatasetAssumption DEF IInv, CallInv, Op, Name

LEMMA GotoFacts ==
  ASSUME TypeOK, NEW c \in Calls, NEW command \in Commands, Goto(c, command)
  PROVE  /\ pc' \in [Calls -> Commands \cup {"idle", "answered"}]
         /\ pc'[c] = command /\ answer' = answer /\ req' = req
         /\ \A d \in Calls \ {c} : pc'[d] = pc[d]
  BY DEF TypeOK, CallTypeOK, Goto, Commands

LEMMA AnswerFacts ==
  ASSUME TypeOK, NEW c \in Calls, NEW verdict \in {"ok", "error", "failed"},
         Answer(c, verdict)
  PROVE  /\ pc' \in [Calls -> Commands \cup {"idle", "answered"}]
         /\ answer' \in [Calls -> {"none", "ok", "error", "failed"}]
         /\ pc'[c] = "answered" /\ answer'[c] = verdict /\ req' = req
         /\ \A d \in Calls \ {c} : pc'[d] = pc[d] /\ answer'[d] = answer[d]
  BY DEF TypeOK, CallTypeOK, Answer, Commands

DataTyped ==
  /\ PoolTypeOK'
  /\ stateSeen' \in [Calls -> States \cup {"UNKNOWN"}]
  /\ DatasetTypeOK'

\* A command that only reads, and what its call does next.
LEMMA ReadStep ==
  ASSUME IInv, NEW c \in Calls, pc[c] \notin {"idle", "answered"},
         DataTyped, UNCHANGED <<effects, before>>,
         \/ \E command \in Commands :
              /\ Goto(c, command) /\ Fits(command, Op(c))
              /\ command \in {"info", "properties_of"} /\ Changes(Op(c)) => effects[c] # {}
         \/ \E verdict \in {"ok", "error", "failed"} :
              /\ Answer(c, verdict)
              /\ verdict = "ok" /\ Changes(Op(c)) => effects[c] # {}
  PROVE  IInv'
<1>1. /\ TypeOK /\ CallInv(c) /\ answer[c] = "none" /\ req[c] \in Requests
  BY Asked
<1>2. CASE \E command \in Commands :
              /\ Goto(c, command) /\ Fits(command, Op(c))
              /\ command \in {"info", "properties_of"} /\ Changes(Op(c)) => effects[c] # {}
  <2>1. PICK command \in Commands :
              /\ Goto(c, command) /\ Fits(command, Op(c))
              /\ command \in {"info", "properties_of"} /\ Changes(Op(c)) => effects[c] # {}
    BY <1>2
  <2>2. /\ pc' \in [Calls -> Commands \cup {"idle", "answered"}]
        /\ pc'[c] = command /\ answer' = answer /\ req' = req
        /\ \A d \in Calls \ {c} : pc'[d] = pc[d]
    BY <1>1, <2>1, GotoFacts
  <2>3. command \notin {"idle", "answered"}
    BY DEF Commands, PoolCommands, DatasetCommands
  <2>4. TypeOK'
    BY <1>1, <2>2 DEF TypeOK, CallTypeOK, DataTyped, Commands
  <2>5. CallInv(c)'
    BY <1>1, <2>1, <2>2, <2>3 DEF CallInv, Op, Changes
  <2> QED BY <2>2, <2>4, <2>5, OneCall DEF Control
<1>3. CASE \E verdict \in {"ok", "error", "failed"} :
              /\ Answer(c, verdict)
              /\ verdict = "ok" /\ Changes(Op(c)) => effects[c] # {}
  <2>1. PICK verdict \in {"ok", "error", "failed"} :
              /\ Answer(c, verdict)
              /\ verdict = "ok" /\ Changes(Op(c)) => effects[c] # {}
    BY <1>3
  <2>2. /\ pc' \in [Calls -> Commands \cup {"idle", "answered"}]
        /\ answer' \in [Calls -> {"none", "ok", "error", "failed"}]
        /\ pc'[c] = "answered" /\ answer'[c] = verdict /\ req' = req
        /\ \A d \in Calls \ {c} : pc'[d] = pc[d] /\ answer'[d] = answer[d]
    BY <1>1, <2>1, AnswerFacts
  <2>4. TypeOK'
    BY <1>1, <2>2 DEF TypeOK, CallTypeOK, DataTyped, Commands
  <2>5. CallInv(c)'
    BY <1>1, <2>1, <2>2 DEF CallInv, Op, Changes, Fits
  <2> QED BY <2>2, <2>4, <2>5, OneCall DEF Control
<1> QED BY <1>2, <1>3

\* A command that changes something, and what its call does next.
LEMMA ChangeStep ==
  ASSUME IInv, NEW c \in Calls, pc[c] \notin {"idle", "answered"},
         DataTyped, UNCHANGED before, Changes(Op(c)),
         NEW things \in SUBSET (Effect \X Nat \X Nat),
         \A e \in things : e[1] = Promise[Op(c)],
         effects' = [effects EXCEPT ![c] = @ \cup things],
         \/ Goto(c, "info") /\ Op(c) = "create" /\ things # {}
         \/ Answer(c, "ok") /\ things # {}
         \/ Answer(c, "failed")
  PROVE  IInv'
<1>1. /\ TypeOK /\ CallInv(c) /\ answer[c] = "none" /\ req[c] \in Requests
  BY Asked
<1>2. /\ effects' \in [Calls -> SUBSET (Effect \X Nat \X Nat)]
      /\ effects'[c] = effects[c] \cup things
      /\ \A d \in Calls \ {c} : effects'[d] = effects[d]
  <2>1. effects \in [Calls -> SUBSET (Effect \X Nat \X Nat)]
    BY <1>1 DEF TypeOK, CallTypeOK
  <2> DEFINE T == Effect \X Nat \X Nat
  <2>2. effects \in [Calls -> SUBSET T] /\ things \in SUBSET T
    BY <2>1
  <2> HIDE DEF T
  <2>3. /\ effects' \in [Calls -> SUBSET T]
        /\ effects'[c] = effects[c] \cup things
        /\ \A d \in Calls \ {c} : effects'[d] = effects[d]
    BY <2>2
  <2> QED BY <2>3 DEF T
<1>3. /\ req' = req
      /\ pc' \in [Calls -> Commands \cup {"idle", "answered"}]
      /\ answer' \in [Calls -> {"none", "ok", "error", "failed"}]
      /\ \A d \in Calls \ {c} : pc'[d] = pc[d] /\ answer'[d] = answer[d]
      /\ \/ pc'[c] = "info" /\ Op(c) = "create" /\ answer'[c] = "none" /\ things # {}
         \/ pc'[c] = "answered" /\ answer'[c] = "ok" /\ things # {}
         \/ pc'[c] = "answered" /\ answer'[c] = "failed"
  <2>1. "info" \in Commands
    BY DEF Commands, DatasetCommands
  <2>2. CASE Goto(c, "info") /\ Op(c) = "create" /\ things # {}
    BY <1>1, <2>1, <2>2, GotoFacts DEF TypeOK, CallTypeOK
  <2>3. CASE Answer(c, "ok") /\ things # {}
    BY <1>1, <2>3, AnswerFacts
  <2>4. CASE Answer(c, "failed")
    BY <1>1, <2>4, AnswerFacts
  <2> QED BY <2>2, <2>3, <2>4
<1>4. TypeOK'
  BY <1>1, <1>2, <1>3 DEF TypeOK, CallTypeOK, DataTyped, Commands
<1>5. \A e \in effects'[c] : Changes(Op(c)) /\ e[1] = Promise[Op(c)]
  BY <1>1, <1>2 DEF CallInv
<1>6. CallInv(c)'
  <2>1. Op(c)' = Op(c)
    BY <1>3 DEF Op
  <2>2. Fits(pc'[c], Op(c))
    BY <1>3 DEF Fits
  <2> QED BY <1>1, <1>2, <1>3, <1>5, <2>1, <2>2 DEF CallInv, Changes
<1> QED BY <1>2, <1>3, <1>4, <1>6, OneCall DEF Control

\* A step that leaves what the types are about alone.
LEMMA DataStays ==
  ASSUME IInv, UNCHANGED <<poolVars, stateSeen, datasetVars>>
  PROVE  DataTyped
  BY DEF IInv, TypeOK, DataTyped, PoolTypeOK, DatasetTypeOK, poolVars, datasetVars

LEMMA BeginInv ==
  ASSUME IInv, NEW c \in Calls, NEW r \in Asks[c], NEW command \in Commands,
         Begin(c, r, command), Fits(command, r.op), command \notin {"info", "properties_of"}
           \/ r.op \notin DOMAIN Promise,
         UNCHANGED <<poolVars, stateSeen, datasetVars>>
  PROVE  IInv'
<1>1. r \in Requests
  BY CallAssumption
<1>2. /\ TypeOK /\ CallInv(c) /\ pc[c] = "idle"
  BY DEF IInv, Begin
<1>3. command \notin {"idle", "answered"}
  BY DEF Commands, PoolCommands, DatasetCommands
<1>4. /\ req' = [req EXCEPT ![c] = r] /\ pc' = [pc EXCEPT ![c] = command]
      /\ answer' = answer /\ effects' = effects
      /\ before' \in [Calls -> SUBSET Calls]
  BY <1>2 DEF Begin, TypeOK, CallTypeOK
<1>5. /\ req' \in [Calls -> Requests \cup {NoRequest}]
      /\ pc' \in [Calls -> Commands \cup {"idle", "answered"}]
      /\ req'[c] = r /\ pc'[c] = command
      /\ \A d \in Calls \ {c} : req'[d] = req[d] /\ pc'[d] = pc[d]
  BY <1>1, <1>2, <1>4 DEF TypeOK, CallTypeOK, Commands
<1>6. TypeOK'
  BY <1>2, <1>4, <1>5, DataStays DEF TypeOK, CallTypeOK, DataTyped, Commands
<1>7. CallInv(c)'
  BY <1>1, <1>2, <1>3, <1>4, <1>5 DEF CallInv, Op, Changes
<1> QED BY <1>4, <1>5, <1>6, <1>7, OneCall DEF Control

LEMMA ArcInv ==
  ASSUME IInv, NEW c \in Calls, NEW r \in Asks[c], ArcRequest(c, r), UNCHANGED datasetVars
  PROVE  IInv'
<1>1. r \in Requests
  BY CallAssumption
<1>2. /\ TypeOK /\ CallInv(c) /\ pc[c] = "idle" /\ effects[c] = {}
  BY DEF IInv, CallInv, ArcRequest
<1>3. /\ req' \in [Calls -> Requests \cup {NoRequest}]
      /\ pc' \in [Calls -> Commands \cup {"idle", "answered"}]
      /\ answer' \in [Calls -> {"none", "ok", "error", "failed"}]
      /\ effects' = effects /\ before' = before
      /\ req'[c] = r /\ pc'[c] = "answered" /\ answer'[c] = "error"
      /\ \A d \in Calls \ {c} : req'[d] = req[d] /\ pc'[d] = pc[d] /\ answer'[d] = answer[d]
  BY <1>1, <1>2 DEF ArcRequest, TypeOK, CallTypeOK, Commands
<1>4. TypeOK'
  BY <1>2, <1>3, DataStays DEF ArcRequest, TypeOK, CallTypeOK, DataTyped, Commands
<1>5. CallInv(c)'
  BY <1>1, <1>2, <1>3 DEF CallInv, Fits
<1> QED BY <1>3, <1>4, <1>5, OneCall DEF Control

LEMMA PoolEndpointInv ==
  ASSUME IInv, NEW c \in Calls, NEW r \in Asks[c], PoolEndpoint(c, r),
         UNCHANGED datasetVars
  PROVE  IInv'
<1>1. CASE ArcRequest(c, r)
  BY <1>1, ArcInv
<1>2. ASSUME NEW op, NEW command \in Commands, PoolRequest(c, r, op, command),
             Fits(command, op), command \notin {"info", "properties_of"}
      PROVE  IInv'
  BY <1>2, BeginInv DEF PoolRequest
<1> USE <1>2 DEF Fits, Commands, PoolCommands
<1>3. CASE GetPoolRequest(c, r)
  BY <1>3 DEF GetPoolRequest
<1>4. CASE HealthRequest(c, r)
  BY <1>4 DEF HealthRequest
<1>5. CASE ListRequest(c, r)
  BY <1>5 DEF ListRequest
<1>6. CASE IostatRequest(c, r)
  BY <1>6 DEF IostatRequest
<1>7. CASE HistoryRequest(c, r)
  BY <1>7 DEF HistoryRequest
<1>8. CASE StartRequest(c, r)
  BY <1>8 DEF StartRequest
<1>9. CASE StopRequest(c, r)
  BY <1>9 DEF StopRequest
<1>10. CASE ExportRequest(c, r)
  BY <1>10 DEF ExportRequest
<1>11. CASE ImportRequest(c, r)
  BY <1>11 DEF ImportRequest
<1>12. CASE ScrubStatusRequest(c, r)
  BY <1>12 DEF ScrubStatusRequest
<1>13. CASE PerformanceRequest(c, r)
  BY <1>13 DEF PerformanceRequest
<1> QED BY <1>1, <1>3, <1>4, <1>5, <1>6, <1>7, <1>8, <1>9, <1>10, <1>11, <1>12, <1>13
        DEF PoolEndpoint

LEMMA DatasetEndpointInv ==
  ASSUME IInv, NEW c \in Calls, NEW r \in Asks[c], DatasetEndpoint(c, r),
         UNCHANGED stateSeen
  PROVE  IInv'
<1>1. ASSUME NEW op, NEW command \in Commands, DatasetRequest(c, r, op, command),
             Fits(command, op),
             command \notin {"info", "properties_of"} \/ op \notin DOMAIN Promise
      PROVE  IInv'
  BY <1>1, BeginInv DEF DatasetRequest
<1> USE <1>1 DEF Fits, Commands, DatasetCommands, Promise
<1>2. CASE CreateRequest(c, r)
  BY <1>2 DEF CreateRequest
<1>3. CASE ListAllRequest(c, r)
  BY <1>3 DEF ListAllRequest
<1>4. CASE GetRequest(c, r)
  BY <1>4 DEF GetRequest
<1>5. CASE DeleteRequest(c, r)
  BY <1>5 DEF DeleteRequest
<1>6. CASE SetRequest(c, r)
  BY <1>6 DEF SetRequest
<1>7. CASE UsageRequest(c, r)
  BY <1>7 DEF UsageRequest
<1>8. CASE MountRequest(c, r)
  BY <1>8 DEF MountRequest
<1>9. CASE UnmountRequest(c, r)
  BY <1>9 DEF UnmountRequest
<1>10. CASE MonitorRequest(c, r)
  BY <1>10 DEF MonitorRequest
<1> QED BY <1>2, <1>3, <1>4, <1>5, <1>6, <1>7, <1>8, <1>9, <1>10 DEF DatasetEndpoint

-----------------------------------------------------------------------------
(* The pool service reads. *)

PoolReading(c) ==
  \/ PoolStatus(c) \/ PoolProperties(c) \/ PoolCapacity(c) \/ DetailedStatus(c)
  \/ PoolErrors(c) \/ ListPools(c) \/ PoolReport(c) \/ ScrubStatus(c)

\* Where a read of the pool may lead.
LEMMA PoolReadingNext ==
  ASSUME IInv, NEW c \in Calls, PoolReading(c)
  PROVE  /\ pc[c] \notin {"idle", "answered"}
         /\ NoEffect
         /\ stateSeen' \in [Calls -> States \cup {"UNKNOWN"}]
         /\ \/ \E command \in PoolCommands : Goto(c, command) /\ Fits(command, Op(c))
            \/ \E verdict \in {"error", "failed"} : Answer(c, verdict)
            \/ Answer(c, "ok") /\ ~Changes(Op(c))
<1>0. /\ stateSeen \in [Calls -> States \cup {"UNKNOWN"}] /\ state \in States
      /\ "ONLINE" \in States
  BY CallAssumption DEF IInv, TypeOK, PoolTypeOK
<1>1. pc[c] # "idle" => Fits(pc[c], Op(c))
  BY DEF IInv, CallInv
<1> USE <1>0, <1>1 DEF Fits, PoolCommands, ReadThen
<1>2. CASE PoolStatus(c)
  BY <1>2 DEF PoolStatus
<1>3. CASE PoolProperties(c)
  BY <1>3 DEF PoolProperties
<1>4. CASE PoolCapacity(c)
  BY <1>4 DEF PoolCapacity, Changes, Promise
<1>5. CASE DetailedStatus(c)
  BY <1>5 DEF DetailedStatus
<1>6. CASE PoolErrors(c)
  BY <1>6 DEF PoolErrors
<1>7. CASE ListPools(c)
  BY <1>7 DEF ListPools, Changes, Promise
<1>8. CASE PoolReport(c)
  BY <1>8 DEF PoolReport, Changes, Promise
<1>9. CASE ScrubStatus(c)
  BY <1>9 DEF ScrubStatus, Changes, Promise
<1> QED BY <1>2, <1>3, <1>4, <1>5, <1>6, <1>7, <1>8, <1>9 DEF PoolReading

LEMMA PoolReadingInv ==
  ASSUME IInv, NEW c \in Calls, PoolReading(c), PoolMoves
  PROVE  IInv'
<1>1. /\ pc[c] \notin {"idle", "answered"}
      /\ NoEffect
      /\ stateSeen' \in [Calls -> States \cup {"UNKNOWN"}]
      /\ \/ \E command \in PoolCommands : Goto(c, command) /\ Fits(command, Op(c))
         \/ \E verdict \in {"error", "failed"} : Answer(c, verdict)
         \/ Answer(c, "ok") /\ ~Changes(Op(c))
  BY PoolReadingNext
<1>2. UNCHANGED <<poolVars, effects, before, datasetVars>>
  BY <1>1 DEF NoEffect, poolVars, PoolMoves, datasetVars
<1>3. DataTyped
  BY <1>1, <1>2 DEF IInv, TypeOK, DataTyped, PoolTypeOK, DatasetTypeOK, poolVars, datasetVars
<1>4. \A command \in PoolCommands : command \in Commands
                                    /\ command \notin {"info", "properties_of"}
  BY DEF Commands, PoolCommands
<1> QED BY <1>1, <1>2, <1>3, <1>4, ReadStep

-----------------------------------------------------------------------------
(* The pool service changes the pool. *)

PoolChanging(c) == StartScrub(c) \/ StopScrub(c) \/ ExportPool(c) \/ ImportPool(c)

LEMMA PoolMovesTyped ==
  ASSUME TypeOK, PoolMoves, imported' \in BOOLEAN
  PROVE  DatasetTypeOK'
<1>1. ASSUME NEW n \in Names, ds[n] # Absent
      PROVE  [ds[n] EXCEPT !.mounted = imported'] \in Dataset
  BY <1>1 DEF TypeOK, DatasetTypeOK, Dataset
<1>2. ds' \in [Names -> Dataset \cup {Absent}]
  BY <1>1 DEF TypeOK, DatasetTypeOK, PoolMoves
<1> QED BY <1>2 DEF TypeOK, DatasetTypeOK, PoolMoves

\* The end of a call that changes the pool.
LEMMA ConcludesInv ==
  ASSUME IInv, NEW c \in Calls, pc[c] \notin {"idle", "answered"}, Changes(Op(c)),
         PoolMoves, UNCHANGED stateSeen,
         NEW outcome \in Outcomes,
         Answer(c, IF outcome = "ok" THEN "ok" ELSE "failed"),
         \/ outcome = "failed" /\ NoEffect
         \/ PoolTypeOK' /\ \E id \in Nat : Did(c, {<<Promise[Op(c)], id, 0>>})
  PROVE  IInv'
<1>1. TypeOK
  BY DEF IInv
<1>2. CASE outcome = "failed" /\ NoEffect
  <2>1. DataTyped
    BY <1>1, <1>2 DEF NoEffect, poolVars, PoolMoves, TypeOK, DataTyped, PoolTypeOK,
                      DatasetTypeOK
  <2>2. Answer(c, "failed") /\ UNCHANGED <<effects, before>>
    BY <1>2 DEF NoEffect
  <2> QED BY <2>1, <2>2, ReadStep
<1>3. CASE PoolTypeOK' /\ \E id \in Nat : Did(c, {<<Promise[Op(c)], id, 0>>})
  <2>1. PICK id \in Nat : Did(c, {<<Promise[Op(c)], id, 0>>})
    BY <1>3
  <2> DEFINE things == {<<Promise[Op(c)], id, 0>>}
  <2>2. Promise[Op(c)] \in Effect
    BY DEF Changes, Promise, Effect
  <2>3. /\ things \in SUBSET (Effect \X Nat \X Nat) /\ things # {}
        /\ \A e \in things : e[1] = Promise[Op(c)]
    BY <2>2
  <2>4. effects' = [effects EXCEPT ![c] = @ \cup things] /\ before' = before
    BY <2>1 DEF Did
  <2>5. DataTyped
    BY <1>1, <1>3, PoolMovesTyped DEF DataTyped, TypeOK, PoolTypeOK
  <2> HIDE DEF things
  <2> QED BY <2>3, <2>4, <2>5, ChangeStep
<1> QED BY <1>2, <1>3

LEMMA PoolChangingInv ==
  ASSUME IInv, NEW c \in Calls, PoolChanging(c), PoolMoves
  PROVE  IInv'
<1>1. /\ TypeOK /\ PoolTypeOK /\ MaxScrubs \in Nat
      /\ pc[c] # "idle" => Fits(pc[c], Op(c))
  BY CallAssumption DEF IInv, CallInv, TypeOK
<1>2. CASE StartScrub(c)
  <2>1. PICK outcome \in Outcomes :
          Concludes(c, outcome,
            /\ imported /\ scrub = 0 /\ scrubs < MaxScrubs
            /\ scrub' = scrubs + 1
            /\ scrubs' = scrubs + 1
            /\ Did(c, {<<"started", scrubs + 1, 0>>})
            /\ UNCHANGED <<imported, state>>)
    BY <1>2 DEF StartScrub
  <2>2. Op(c) = "start" /\ Promise[Op(c)] = "started" /\ Changes(Op(c))
    BY <1>1, <1>2 DEF StartScrub, Fits, Changes, Promise
  <2>3. \/ outcome = "failed" /\ NoEffect
        \/ PoolTypeOK' /\ \E id \in Nat : Did(c, {<<"started", id, 0>>})
    <3>1. CASE outcome = "failed"
      BY <2>1, <3>1 DEF Concludes
    <3>2. CASE outcome # "failed"
      <4>1. /\ imported /\ scrubs < MaxScrubs
            /\ scrub' = scrubs + 1 /\ scrubs' = scrubs + 1
            /\ Did(c, {<<"started", scrubs + 1, 0>>})
            /\ UNCHANGED <<imported, state>>
        BY <2>1, <3>2 DEF Concludes
      <4>2. scrubs + 1 \in Nat /\ PoolTypeOK'
        BY <1>1, <4>1 DEF PoolTypeOK
      <4> QED BY <4>1, <4>2
    <3> QED BY <3>1, <3>2
  <2> QED BY <1>2, <2>1, <2>2, <2>3, ConcludesInv DEF Concludes, StartScrub
<1>3. CASE StopScrub(c)
  <2>1. PICK outcome \in Outcomes :
          Concludes(c, outcome,
            /\ imported /\ scrub # 0
            /\ scrub' = 0
            /\ Did(c, {<<"stopped", scrub, 0>>})
            /\ UNCHANGED <<imported, state, scrubs>>)
    BY <1>3 DEF StopScrub
  <2>2. Op(c) = "stop" /\ Promise[Op(c)] = "stopped" /\ Changes(Op(c))
    BY <1>1, <1>3 DEF StopScrub, Fits, Changes, Promise
  <2>3. \/ outcome = "failed" /\ NoEffect
        \/ PoolTypeOK' /\ \E id \in Nat : Did(c, {<<"stopped", id, 0>>})
    BY <1>1, <2>1 DEF Concludes, PoolTypeOK
  <2> QED BY <1>3, <2>1, <2>2, <2>3, ConcludesInv DEF Concludes, StopScrub
<1>4. CASE ExportPool(c)
  <2>1. PICK outcome \in Outcomes :
          Concludes(c, outcome,
            /\ imported
            /\ imported' = FALSE
            /\ Did(c, {<<"exported", 0, 0>>})
            /\ UNCHANGED <<state, scrub, scrubs>>)
    BY <1>4 DEF ExportPool
  <2>2. Op(c) = "export" /\ Promise[Op(c)] = "exported" /\ Changes(Op(c))
    BY <1>1, <1>4 DEF ExportPool, Fits, Changes, Promise
  <2>3. \/ outcome = "failed" /\ NoEffect
        \/ PoolTypeOK' /\ \E id \in Nat : Did(c, {<<"exported", id, 0>>})
    BY <1>1, <2>1 DEF Concludes, PoolTypeOK
  <2> QED BY <1>4, <2>1, <2>2, <2>3, ConcludesInv DEF Concludes, ExportPool
<1>5. CASE ImportPool(c)
  <2>1. PICK outcome \in Outcomes :
          Concludes(c, outcome,
            /\ ~imported
            /\ imported' = TRUE
            /\ Did(c, {<<"imported", 0, 0>>})
            /\ UNCHANGED <<state, scrub, scrubs>>)
    BY <1>5 DEF ImportPool
  <2>2. Op(c) = "import" /\ Promise[Op(c)] = "imported" /\ Changes(Op(c))
    BY <1>1, <1>5 DEF ImportPool, Fits, Changes, Promise
  <2>3. \/ outcome = "failed" /\ NoEffect
        \/ PoolTypeOK' /\ \E id \in Nat : Did(c, {<<"imported", id, 0>>})
    BY <1>1, <2>1 DEF Concludes, PoolTypeOK
  <2> QED BY <1>5, <2>1, <2>2, <2>3, ConcludesInv DEF Concludes, ImportPool
<1> QED BY <1>2, <1>3, <1>4, <1>5 DEF PoolChanging

-----------------------------------------------------------------------------
(* The dataset service reads. *)

DatasetReading(c) ==
  \/ DatasetExists(c) \/ DatasetInfo(c) \/ DatasetProperties(c) \/ ListDatasets(c)
  \/ DatasetUsage(c) \/ DatasetIostats(c) \/ PoolIostats(c) \/ MonitorWaits(c)

Views == [Calls -> [first : 0..MaxIds, second : 0..MaxIds, version : 0..MaxWrites]]

LEMMA PresentFacts ==
  ASSUME TypeOK, NEW n \in Names, Present(n)
  PROVE  /\ ds[n] \in Dataset /\ ds[n].id \in 1..MaxIds /\ ds[n].id \in Nat
         /\ ds[n].version \in 0..MaxWrites /\ ds[n].version \in Nat
         /\ ds[n].mounted \in BOOLEAN
<1>1. ds[n] \in Dataset
  BY DEF TypeOK, DatasetTypeOK, Present
<1> QED BY <1>1, DatasetAssumption DEF Dataset

LEMMA SeesTyped ==
  ASSUME TypeOK, NEW c \in Calls, Name(c) \in Names,
         NEW field \in {"first", "second"}, Sees(c, field)
  PROVE  view' \in Views
<1>1. ds[Name(c)].id \in 0..MaxIds
  BY PresentFacts, DatasetAssumption DEF Sees
<1>2. view \in Views /\ view' = [view EXCEPT ![c][field] = ds[Name(c)].id]
  BY DEF TypeOK, DatasetTypeOK, Views, Sees
<1>3. [view[c] EXCEPT ![field] = ds[Name(c)].id]
        \in [first : 0..MaxIds, second : 0..MaxIds, version : 0..MaxWrites]
  BY <1>1, <1>2 DEF Views
<1> QED BY <1>2, <1>3 DEF Views

LEMMA PropertiesTyped ==
  ASSUME TypeOK, NEW c \in Calls, Name(c) \in Names, Present(Name(c)),
         view' = [view EXCEPT ![c].second = ds[Name(c)].id,
                              ![c].version = ds[Name(c)].version]
  PROVE  view' \in Views
<1>1. ds[Name(c)].id \in 0..MaxIds /\ ds[Name(c)].version \in 0..MaxWrites
  BY PresentFacts, DatasetAssumption
<1>2. view \in Views
  BY DEF TypeOK, DatasetTypeOK, Views
<1> QED BY <1>1, <1>2 DEF Views

\* Where a read of a dataset may lead.
LEMMA DatasetReadingNext ==
  ASSUME IInv, NEW c \in Calls, DatasetReading(c)
  PROVE  /\ pc[c] \notin {"idle", "answered"}
         /\ NoEffect /\ UNCHANGED <<ds, ids>>
         /\ view' \in Views
         /\ \/ \E command \in DatasetCommands :
                 /\ Goto(c, command) /\ Fits(command, Op(c))
                 /\ command \in {"info", "properties_of"} /\ Changes(Op(c)) =>
                      effects[c] # {}
            \/ Answer(c, "failed")
            \/ Answer(c, "ok") /\ (Changes(Op(c)) => effects[c] # {})
<1>1. /\ TypeOK /\ view \in Views
      /\ pc[c] # "idle" => CallInv(c) /\ Fits(pc[c], Op(c))
  BY DEF IInv, TypeOK, DatasetTypeOK, CallInv, Views
<1>2. pc[c] \notin {"idle", "answered"} /\ Op(c) \in DatasetOps \ {"list"} => Name(c) \in Names
  BY Asked
<1>3. CASE DatasetExists(c)
  BY <1>1, <1>3 DEF DatasetExists, Fits, DatasetCommands, datasetVars
<1>4. CASE DatasetInfo(c)
  <2>1. /\ pc[c] = "info" /\ Op(c) \in {"create", "get"} /\ Name(c) \in Names
        /\ Changes(Op(c)) => effects[c] # {}
        /\ NoEffect /\ UNCHANGED <<ds, ids>>
    BY <1>1, <1>2, <1>4 DEF DatasetInfo, CallInv, Fits, DatasetOps
  <2>2. CASE Sees(c, "first") /\ Goto(c, "properties_of")
    BY <1>1, <2>1, <2>2, SeesTyped DEF Fits, DatasetCommands
  <2>3. CASE ReadFails(c)
    BY <1>1, <2>1, <2>3 DEF ReadFails
  <2> QED BY <1>4, <2>2, <2>3 DEF DatasetInfo
<1>5. CASE DatasetProperties(c)
  <2>1. /\ pc[c] = "properties_of" /\ Op(c) \in {"create", "get"} /\ Name(c) \in Names
        /\ Changes(Op(c)) => effects[c] # {}
        /\ NoEffect /\ UNCHANGED <<ds, ids>>
    BY <1>1, <1>2, <1>5 DEF DatasetProperties, CallInv, Fits, DatasetOps
  <2>2. CASE /\ Present(Name(c))
             /\ view' = [view EXCEPT ![c].second = ds[Name(c)].id,
                                     ![c].version = ds[Name(c)].version]
             /\ Answer(c, "ok")
    BY <1>1, <2>1, <2>2, PropertiesTyped
  <2>3. CASE ReadFails(c)
    BY <1>1, <2>1, <2>3 DEF ReadFails
  <2> QED BY <1>5, <2>2, <2>3 DEF DatasetProperties
<1>6. CASE ListDatasets(c)
  BY <1>1, <1>6 DEF ListDatasets, Fits, Changes, Promise, datasetVars
<1>7. CASE DatasetUsage(c)
  <2>1. /\ pc[c] = "usage" /\ Op(c) \in {"usage", "monitor"} /\ Name(c) \in Names
        /\ ~Changes(Op(c)) /\ NoEffect /\ UNCHANGED <<ds, ids>>
    BY <1>1, <1>2, <1>7 DEF DatasetUsage, CallInv, Fits, DatasetOps, Changes, Promise
  <2>2. CASE Sees(c, "first") /\ Op(c) = "usage" /\ Answer(c, "ok")
    BY <1>1, <2>1, <2>2, SeesTyped
  <2>3. CASE /\ Op(c) = "monitor"
             /\ Sees(c, IF view[c].first = 0 THEN "first" ELSE "second")
             /\ Goto(c, "objset")
    BY <1>1, <2>1, <2>3, SeesTyped DEF Fits, DatasetCommands
  <2>4. CASE ReadFails(c)
    BY <1>1, <2>1, <2>4 DEF ReadFails
  <2> QED BY <1>7, <2>2, <2>3, <2>4 DEF DatasetUsage
<1>8. CASE DatasetIostats(c)
  BY <1>1, <1>8 DEF DatasetIostats, Fits, DatasetCommands, datasetVars
<1>9. CASE PoolIostats(c)
  BY <1>1, <1>9 DEF PoolIostats, Fits, DatasetCommands, Changes, Promise, datasetVars
<1>10. CASE MonitorWaits(c)
  BY <1>1, <1>10 DEF MonitorWaits, Fits, DatasetCommands, datasetVars
<1> QED BY <1>3, <1>4, <1>5, <1>6, <1>7, <1>8, <1>9, <1>10 DEF DatasetReading

LEMMA DatasetReadingInv ==
  ASSUME IInv, NEW c \in Calls, DatasetReading(c), UNCHANGED stateSeen
  PROVE  IInv'
<1>1. /\ pc[c] \notin {"idle", "answered"}
      /\ NoEffect /\ UNCHANGED <<ds, ids>>
      /\ view' \in Views
      /\ \/ \E command \in DatasetCommands :
              /\ Goto(c, command) /\ Fits(command, Op(c))
              /\ command \in {"info", "properties_of"} /\ Changes(Op(c)) =>
                   effects[c] # {}
         \/ Answer(c, "failed")
         \/ Answer(c, "ok") /\ (Changes(Op(c)) => effects[c] # {})
  BY DatasetReadingNext
<1>2. DataTyped /\ UNCHANGED <<effects, before>>
  BY <1>1 DEF NoEffect, poolVars, IInv, TypeOK, DataTyped, PoolTypeOK, DatasetTypeOK, Views
<1>3. DatasetCommands \subseteq Commands
  BY DEF Commands
<1> QED BY <1>1, <1>2, <1>3, ReadStep

-----------------------------------------------------------------------------
(* The dataset service changes datasets. *)

DatasetChanging(c) ==
  \/ CreateDataset(c) \/ DestroyDataset(c) \/ SetProperty(c)
  \/ MountDataset(c) \/ UnmountDataset(c)

\* A command that does its work or does nothing, and what its call does next.
LEMMA WorksInv ==
  ASSUME IInv, NEW c \in Calls, pc[c] \notin {"idle", "answered"}, Changes(Op(c)),
         UNCHANGED <<poolVars, stateSeen, view>>,
         \/ NoEffect /\ UNCHANGED <<ds, ids>> /\ Answer(c, "failed")
         \/ /\ ds' \in [Names -> Dataset \cup {Absent}] /\ ids' \in 0..MaxIds
            /\ \E things \in SUBSET (Effect \X Nat \X Nat) :
                 /\ \A e \in things : e[1] = Promise[Op(c)]
                 /\ Did(c, things)
                 /\ \/ Goto(c, "info") /\ Op(c) = "create" /\ things # {}
                    \/ Answer(c, "ok") /\ things # {}
                    \/ Answer(c, "failed")
  PROVE  IInv'
<1>1. TypeOK
  BY DEF IInv
<1>2. CASE NoEffect /\ UNCHANGED <<ds, ids>> /\ Answer(c, "failed")
  <2>1. DataTyped
    BY <1>2, DataStays DEF datasetVars
  <2>2. UNCHANGED <<effects, before>>
    BY <1>2 DEF NoEffect
  <2> QED BY <1>2, <2>1, <2>2, ReadStep
<1>3. CASE /\ ds' \in [Names -> Dataset \cup {Absent}] /\ ids' \in 0..MaxIds
           /\ \E things \in SUBSET (Effect \X Nat \X Nat) :
                /\ \A e \in things : e[1] = Promise[Op(c)]
                /\ Did(c, things)
                /\ \/ Goto(c, "info") /\ Op(c) = "create" /\ things # {}
                   \/ Answer(c, "ok") /\ things # {}
                   \/ Answer(c, "failed")
  <2>1. DataTyped
    BY <1>1, <1>3 DEF poolVars, TypeOK, DataTyped, PoolTypeOK, DatasetTypeOK
  <2> QED BY <1>3, <2>1, ChangeStep DEF Did
<1> QED BY <1>2, <1>3

LEMMA CreateInv ==
  ASSUME IInv, NEW c \in Calls, CreateDataset(c), UNCHANGED stateSeen
  PROVE  IInv'
<1>1. /\ TypeOK /\ pc[c] = "create" /\ Op(c) = "create" /\ Changes(Op(c))
      /\ Name(c) \in Names /\ Promise[Op(c)] = "created"
  BY Asked DEF CreateDataset, Fits, Changes, Promise, DatasetOps
<1>2. PICK outcome \in Outcomes :
        Works(c, outcome,
          /\ imported /\ ds[Name(c)] = Absent /\ ids < MaxIds
          /\ \A n \in Names : Name(c) \in Under[n] => ds[n] # Absent
          /\ ids' = ids + 1
          /\ ds' = [ds EXCEPT ![Name(c)] = [id |-> ids + 1, version |-> 0, mounted |-> TRUE]]
          /\ Did(c, {<<"created", ids + 1, 0>>}),
          Goto(c, "info"))
  BY DEF CreateDataset
<1>3. UNCHANGED <<poolVars, view>> /\ (outcome # "ok" => Answer(c, "failed"))
      /\ (outcome = "ok" => Goto(c, "info"))
  BY <1>2 DEF Works
<1>4. CASE outcome = "failed"
  BY <1>1, <1>2, <1>3, <1>4, WorksInv DEF Works
<1>5. CASE outcome # "failed"
  <2>1. /\ ids < MaxIds /\ ids' = ids + 1
        /\ ds' = [ds EXCEPT ![Name(c)] = [id |-> ids + 1, version |-> 0, mounted |-> TRUE]]
        /\ Did(c, {<<"created", ids + 1, 0>>})
    BY <1>2, <1>5 DEF Works
  <2>2. /\ ids \in 0..MaxIds /\ ids + 1 \in 1..MaxIds /\ ids + 1 \in Nat
        /\ 0 \in 0..MaxWrites
    BY <1>1, <2>1, DatasetAssumption DEF TypeOK, DatasetTypeOK
  <2>3. [id |-> ids + 1, version |-> 0, mounted |-> TRUE] \in Dataset
    BY <2>2 DEF Dataset
  <2>4. ds' \in [Names -> Dataset \cup {Absent}] /\ ids' \in 0..MaxIds
    BY <1>1, <2>1, <2>2, <2>3 DEF TypeOK, DatasetTypeOK
  <2> DEFINE things == {<<"created", ids + 1, 0>>}
  <2>5. /\ things \in SUBSET (Effect \X Nat \X Nat) /\ things # {}
        /\ \A e \in things : e[1] = Promise[Op(c)]
    BY <1>1, <2>2 DEF Effect
  <2> HIDE DEF things
  <2>6. Did(c, things)
    BY <2>1 DEF things
  <2> QED BY <1>1, <1>3, <2>4, <2>5, <2>6, WorksInv
<1> QED BY <1>4, <1>5

LEMMA DestroyInv ==
  ASSUME IInv, NEW c \in Calls, DestroyDataset(c), UNCHANGED stateSeen
  PROVE  IInv'
<1>1. /\ TypeOK /\ pc[c] = "destroy" /\ Op(c) = "destroy" /\ Changes(Op(c))
      /\ Name(c) \in Names /\ Promise[Op(c)] = "destroyed"
  BY Asked DEF DestroyDataset, Fits, Changes, Promise, DatasetOps
<1> DEFINE below   == {n \in Under[Name(c)] : ds[n] # Absent}
           victims == {Name(c)} \cup below
<1>2. PICK outcome \in Outcomes, gone \in SUBSET Names :
        /\ gone \subseteq victims
        /\ outcome = "ok" => gone = victims
        /\ Works(c, outcome,
             /\ Present(Name(c))
             /\ req[c].recursive \/ below = {}
             /\ ds' = [n \in Names |-> IF n \in gone THEN Absent ELSE ds[n]]
             /\ Did(c, {<<"destroyed", ds[n].id, 0>> : n \in gone})
             /\ UNCHANGED ids,
             Answer(c, "ok"))
  BY DEF DestroyDataset
<1>3. UNCHANGED <<poolVars, view>> /\ (outcome # "ok" => Answer(c, "failed"))
      /\ (outcome = "ok" => Answer(c, "ok"))
  BY <1>2 DEF Works
<1>4. CASE outcome = "failed"
  BY <1>1, <1>2, <1>3, <1>4, WorksInv DEF Works
<1>5. CASE outcome # "failed"
  <2>1. /\ Present(Name(c))
        /\ ds' = [n \in Names |-> IF n \in gone THEN Absent ELSE ds[n]]
        /\ Did(c, {<<"destroyed", ds[n].id, 0>> : n \in gone})
        /\ UNCHANGED ids
    BY <1>2, <1>5 DEF Works
  <2>2. ds' \in [Names -> Dataset \cup {Absent}] /\ ids' \in 0..MaxIds
    BY <1>1, <2>1 DEF TypeOK, DatasetTypeOK
  <2> DEFINE things == {<<"destroyed", ds[n].id, 0>> : n \in gone}
  <2>3. \A n \in gone : ds[n].id \in Nat
    BY <1>1, <1>2, <2>1, PresentFacts DEF Present
  <2>4. things \in SUBSET (Effect \X Nat \X Nat)
    BY <2>3 DEF Effect
  <2>5. \A e \in things : e[1] = Promise[Op(c)]
    BY <1>1
  <2>6. outcome = "ok" => things # {}
    BY <1>2
  <2> HIDE DEF things
  <2>7. Did(c, things)
    BY <2>1 DEF things
  <2> QED BY <1>1, <1>3, <2>2, <2>4, <2>5, <2>6, <2>7, WorksInv
<1> QED BY <1>4, <1>5

\* A command that changes the dataset its call names.
LEMMA OneDatasetInv ==
  ASSUME IInv, NEW c \in Calls, pc[c] \notin {"idle", "answered"}, Changes(Op(c)),
         Name(c) \in Names, UNCHANGED stateSeen, NEW outcome \in Outcomes,
         NEW new, NEW version \in Nat,
         Present(Name(c)) => new \in Dataset,
         Works(c, outcome,
           /\ Present(Name(c))
           /\ ds' = [ds EXCEPT ![Name(c)] = new]
           /\ Did(c, {<<Promise[Op(c)], ds[Name(c)].id, version>>})
           /\ UNCHANGED ids,
           Answer(c, "ok"))
  PROVE  IInv'
<1>1. UNCHANGED <<poolVars, view>> /\ (outcome # "ok" => Answer(c, "failed"))
      /\ (outcome = "ok" => Answer(c, "ok"))
  BY DEF Works
<1>2. CASE outcome = "failed"
  BY <1>1, <1>2, WorksInv DEF Works
<1>3. CASE outcome # "failed"
  <2>1. /\ Present(Name(c))
        /\ ds' = [ds EXCEPT ![Name(c)] = new]
        /\ Did(c, {<<Promise[Op(c)], ds[Name(c)].id, version>>})
        /\ UNCHANGED ids
    BY <1>3 DEF Works
  <2>2. ds' \in [Names -> Dataset \cup {Absent}] /\ ids' \in 0..MaxIds
    BY <2>1 DEF IInv, TypeOK, DatasetTypeOK
  <2> DEFINE things == {<<Promise[Op(c)], ds[Name(c)].id, version>>}
  <2>3. ds[Name(c)].id \in Nat /\ Promise[Op(c)] \in Effect
    BY <2>1, PresentFacts DEF IInv, Changes, Promise, Effect
  <2>4. /\ things \in SUBSET (Effect \X Nat \X Nat) /\ things # {}
        /\ \A e \in things : e[1] = Promise[Op(c)]
    BY <2>3
  <2> HIDE DEF things
  <2>5. Did(c, things)
    BY <2>1 DEF things
  <2> QED BY <1>1, <2>2, <2>4, <2>5, WorksInv
<1> QED BY <1>2, <1>3

LEMMA SetInv ==
  ASSUME IInv, NEW c \in Calls, SetProperty(c), UNCHANGED stateSeen
  PROVE  IInv'
<1>1. /\ TypeOK /\ pc[c] = "set" /\ Op(c) = "set" /\ Changes(Op(c))
      /\ Name(c) \in Names /\ Promise[Op(c)] = "set"
  BY Asked DEF SetProperty, Fits, Changes, Promise, DatasetOps
<1>2. PICK outcome \in Outcomes :
        Works(c, outcome,
          /\ Present(Name(c)) /\ ds[Name(c)].version < MaxWrites
          /\ ds' = [ds EXCEPT ![Name(c)].version = @ + 1]
          /\ Did(c, {<<"set", ds[Name(c)].id, ds[Name(c)].version + 1>>})
          /\ UNCHANGED ids,
          Answer(c, "ok"))
  BY DEF SetProperty
<1> DEFINE new == [ds[Name(c)] EXCEPT !.version = @ + 1]
           version == ds[Name(c)].version + 1
<1>3. CASE outcome = "failed"
  BY <1>1, <1>2, <1>3, WorksInv DEF Works
<1>4. CASE outcome # "failed"
  <2>1. Present(Name(c)) /\ ds[Name(c)].version < MaxWrites
    BY <1>2, <1>4 DEF Works
  <2>2. /\ ds[Name(c)] \in Dataset /\ version \in 0..MaxWrites /\ version \in Nat
    BY <1>1, <2>1, PresentFacts, DatasetAssumption
  <2>3. new \in Dataset
    BY <2>2 DEF Dataset
  <2>4. Works(c, outcome,
          /\ Present(Name(c))
          /\ ds' = [ds EXCEPT ![Name(c)] = new]
          /\ Did(c, {<<Promise[Op(c)], ds[Name(c)].id, version>>})
          /\ UNCHANGED ids,
          Answer(c, "ok"))
    BY <1>1, <1>2, <1>4 DEF Works
  <2> HIDE DEF new, version
  <2> QED BY <1>1, <2>2, <2>3, <2>4, OneDatasetInv
<1> QED BY <1>3, <1>4

LEMMA MountingInv ==
  ASSUME IInv, NEW c \in Calls, pc[c] \notin {"idle", "answered"}, Changes(Op(c)),
         Name(c) \in Names, UNCHANGED stateSeen, NEW outcome \in Outcomes,
         NEW on \in BOOLEAN, Mounting(c, outcome, on, Promise[Op(c)])
  PROVE  IInv'
<1> DEFINE new == [ds[Name(c)] EXCEPT !.mounted = on]
<1>1. Present(Name(c)) => new \in Dataset
  BY PresentFacts DEF IInv, Dataset
<1>2. Works(c, outcome,
        /\ Present(Name(c))
        /\ ds' = [ds EXCEPT ![Name(c)] = new]
        /\ Did(c, {<<Promise[Op(c)], ds[Name(c)].id, 0>>})
        /\ UNCHANGED ids,
        Answer(c, "ok"))
  BY DEF Mounting, Works
<1> HIDE DEF new
<1> QED BY <1>1, <1>2, OneDatasetInv

LEMMA DatasetChangingInv ==
  ASSUME IInv, NEW c \in Calls, DatasetChanging(c), UNCHANGED stateSeen
  PROVE  IInv'
<1>1. CASE MountDataset(c)
  <2>1. /\ pc[c] = "mount" /\ Changes(Op(c))
        /\ Name(c) \in Names /\ Promise[Op(c)] = "mounted"
    BY <1>1, Asked DEF MountDataset, Fits, Changes, Promise, DatasetOps
  <2> QED BY <1>1, <2>1, MountingInv DEF MountDataset
<1>2. CASE UnmountDataset(c)
  <2>1. /\ pc[c] = "unmount" /\ Changes(Op(c))
        /\ Name(c) \in Names /\ Promise[Op(c)] = "unmounted"
    BY <1>2, Asked DEF UnmountDataset, Fits, Changes, Promise, DatasetOps
  <2> QED BY <1>2, <2>1, MountingInv DEF UnmountDataset
<1> QED BY <1>1, <1>2, CreateInv, DestroyInv, SetInv DEF DatasetChanging

-----------------------------------------------------------------------------
(* The theorems. *)

LEMMA PoolItselfInv ==
  ASSUME IInv, PoolChanges \/ ScrubEnds, UNCHANGED datasetVars
  PROVE  IInv'
<1>1. UNCHANGED <<callVars, stateSeen, datasetVars>> /\ PoolTypeOK'
  BY CallAssumption DEF IInv, TypeOK, PoolTypeOK, PoolChanges, ScrubEnds
<1>2. TypeOK'
  BY <1>1 DEF IInv, TypeOK, callVars, datasetVars, CallTypeOK, DatasetTypeOK
<1>3. \A c \in Calls : CallInv(c)'
  BY <1>1 DEF IInv, callVars, CallInv, Op, Changes
<1> QED BY <1>2, <1>3 DEF IInv

LEMMA StutterInv ==
  ASSUME IInv, UNCHANGED vars
  PROVE  IInv'
<1>1. TypeOK'
  BY DEF IInv, TypeOK, vars, poolVars, callVars, datasetVars, PoolTypeOK, CallTypeOK,
         DatasetTypeOK
<1>2. \A c \in Calls : CallInv(c)'
  BY DEF IInv, vars, callVars, CallInv, Op, Changes
<1> QED BY <1>1, <1>2 DEF IInv

LEMMA InitInv == Init => IInv
<1> SUFFICES ASSUME Init PROVE IInv
  OBVIOUS
<1> DEFINE first == {n \in Names : FirstId[n] # 0}
<1>1. PoolTypeOK /\ CallTypeOK(Commands)
  BY CallAssumption DEF Init, InitCalls, PoolTypeOK, CallTypeOK
<1>2. stateSeen \in [Calls -> States \cup {"UNKNOWN"}]
  BY DEF Init, InitPool
<1>3. ids \in 0..MaxIds /\ FirstId \in [Names -> 0..MaxIds]
      /\ 0 \in 0..MaxIds /\ 0 \in 0..MaxWrites
  BY DatasetAssumption DEF Init, InitDataset
<1>4. ds \in [Names -> Dataset \cup {Absent}]
  <2>1. ASSUME NEW n \in Names, FirstId[n] # 0
        PROVE  [id |-> FirstId[n], version |-> 0, mounted |-> TRUE] \in Dataset
    BY <1>3, <2>1, DatasetAssumption DEF Dataset
  <2> QED BY <2>1 DEF Init, InitDataset
<1>5. view \in Views
  BY <1>3 DEF Init, InitDataset, Views
<1>6. TypeOK
  BY <1>1, <1>2, <1>3, <1>4, <1>5 DEF TypeOK, DatasetTypeOK, Views, Commands
<1>7. \A c \in Calls : CallInv(c)
  BY DEF Init, InitCalls, CallInv
<1> QED BY <1>6, <1>7 DEF IInv

LEMMA NextInv == IInv /\ [Next]_vars => IInv'
<1> SUFFICES ASSUME IInv, [Next]_vars PROVE IInv'
  OBVIOUS
<1>1. CASE UNCHANGED vars
  BY <1>1, StutterInv
<1>2. ASSUME NEW c \in Calls, NEW r \in Asks[c],
             PoolEndpoint(c, r) /\ UNCHANGED datasetVars
      PROVE  IInv'
  BY <1>2, PoolEndpointInv
<1>3. ASSUME NEW c \in Calls, NEW r \in Asks[c],
             DatasetEndpoint(c, r) /\ UNCHANGED stateSeen
      PROVE  IInv'
  BY <1>3, DatasetEndpointInv
<1>4. ASSUME NEW c \in Calls, PoolStep(c) /\ PoolMoves PROVE IInv'
  BY <1>4, PoolReadingInv, PoolChangingInv DEF PoolStep, PoolReading, PoolChanging
<1>5. ASSUME NEW c \in Calls, DatasetStep(c) /\ UNCHANGED stateSeen PROVE IInv'
  BY <1>5, DatasetReadingInv, DatasetChangingInv
     DEF DatasetStep, DatasetReading, DatasetChanging
<1>6. CASE (PoolChanges \/ ScrubEnds) /\ UNCHANGED datasetVars
  BY <1>6, PoolItselfInv
<1> QED BY <1>1, <1>2, <1>3, <1>4, <1>5, <1>6 DEF Next

LEMMA Invariance == Spec => []IInv
  BY InitInv, NextInv, PTL DEF Spec

\* Every state has the types of the pool, the datasets and the calls on them.
THEOREM TypeCorrect == Spec => []TypeOK
<1>1. IInv => TypeOK
  BY DEF IInv
<1> QED BY <1>1, Invariance, PTL

-----------------------------------------------------------------------------
(* What is read is current.  A dataset's number is given once and stays    *)
(* with its name, the versions of its properties only grow, and what was   *)
(* destroyed stays destroyed; so what a call read remains related to what  *)
(* was true before it was made.                                            *)

Has(n) == ds[n] # Absent

IdsInv ==
  \A n \in Names : Has(n) =>
    /\ ds[n].id \in 1..ids
    /\ \A m \in Names : Has(m) /\ ds[m].id = ds[n].id => m = n

OnlyAt(id, k) == \A n \in Names : Has(n) /\ ds[n].id = id => n = k

EffectOK(c, e) ==
  /\ e[1] \in {"created", "destroyed", "set"} => e[2] \in 1..ids
  /\ e[1] = "created" => OnlyAt(e[2], Name(c))
  /\ e[1] = "destroyed" => Gone(e[2])
  /\ e[1] = "set" => \A n \in Names : Has(n) /\ ds[n].id = e[2] => e[3] <= ds[n].version

ReadOps == {"create", "get", "monitor"}

Progress(c) ==
  /\ pc[c] \in {"exists", "create", "info", "properties_of"} => view[c].second = 0
  /\ pc[c] = "properties_of" => view[c].first # 0
  /\ view[c].first = 0 => view[c].second = 0
  /\ answer[c] = "ok" => view[c].second # 0

Seen(c) ==
  /\ view[c].first \in 0..ids
  /\ view[c].second \in 0..ids
  /\ OnlyAt(view[c].first, Name(c))
  /\ view[c].second # 0 =>
       /\ view[c].first # view[c].second => Gone(view[c].first)
       /\ \A e \in effects[c] : e[2] = view[c].second \/ Gone(e[2])
  /\ \A d \in before[c] : \A e \in effects[d] :
       /\ e[1] = "destroyed" => e[2] # view[c].first /\ e[2] # view[c].second
       /\ e[1] = "set" /\ e[2] = view[c].second /\ Op(c) # "monitor" =>
            e[3] <= view[c].version

ReadInv(c) ==
  /\ \A e \in effects[c] : EffectOK(c, e)
  /\ \A d \in before[c] : pc[d] = "answered"
  /\ pc[c] = "idle" => view[c].first = 0 /\ view[c].second = 0
  /\ pc[c] # "idle" /\ Op(c) \in ReadOps => Progress(c) /\ Seen(c)

RInv == IdsInv /\ \A c \in Calls : ReadInv(c)

\* What a step may do to the datasets.
Evolves ==
  /\ ids <= ids'
  /\ \A n \in Names : Has(n)' =>
       \/ Has(n) /\ ds'[n].id = ds[n].id /\ ds[n].version <= ds'[n].version
       \/ ds'[n].id = ids + 1 /\ ids' = ids + 1
  /\ \A m, n \in Names : Has(m)' /\ Has(n)' /\ ds'[m].id = ids + 1 /\ ds'[n].id = ids + 1 =>
       m = n

LEMMA HasFacts ==
  ASSUME TypeOK
  PROVE  /\ ids \in Nat
         /\ \A n \in Names : Has(n) => ds[n].id \in Nat /\ ds[n].version \in Nat
<1>1. ASSUME NEW n \in Names, Has(n) PROVE ds[n].id \in Nat /\ ds[n].version \in Nat
  <2>1. ds[n] \in Dataset
    BY <1>1 DEF TypeOK, DatasetTypeOK, Has
  <2> QED BY <2>1, DatasetAssumption DEF Dataset
<1> QED BY <1>1, DatasetAssumption DEF TypeOK, DatasetTypeOK

LEMMA EvolvesFacts ==
  ASSUME IInv, IInv', IdsInv, Evolves
  PROVE  /\ IdsInv'
         /\ ids \in Nat /\ ids' \in Nat /\ ids <= ids'
         /\ \A id \in 0..ids : \A n \in Names : Has(n)' /\ ds'[n].id = id =>
              Has(n) /\ ds[n].id = id /\ ds[n].version <= ds'[n].version
<1>1. /\ ids \in Nat
      /\ \A n \in Names : Has(n) => ds[n].id \in Nat /\ ds[n].version \in Nat
  BY HasFacts DEF IInv
<1>2. /\ ids' \in Nat
      /\ \A n \in Names : Has(n)' => ds'[n].id \in Nat /\ ds'[n].version \in Nat
  <2>1. TypeOK'
    BY DEF IInv
  <2>2. ids' \in Nat
    BY <2>1, DatasetAssumption DEF TypeOK, DatasetTypeOK
  <2>3. ASSUME NEW n \in Names, Has(n)' PROVE ds'[n].id \in Nat /\ ds'[n].version \in Nat
    <3>1. ds'[n] \in Dataset
      BY <2>1, <2>3 DEF TypeOK, DatasetTypeOK, Has
    <3> QED BY <3>1, DatasetAssumption DEF Dataset
  <2> QED BY <2>2, <2>3
<1>3. IdsInv'
  BY <1>1, <1>2 DEF Evolves, IdsInv
<1>4. \A id \in 0..ids : \A n \in Names : Has(n)' /\ ds'[n].id = id =>
              Has(n) /\ ds[n].id = id /\ ds[n].version <= ds'[n].version
  BY <1>1, <1>2 DEF Evolves
<1> QED BY <1>1, <1>2, <1>3, <1>4 DEF Evolves

LEMMA GoneStays ==
  ASSUME IInv, IInv', IdsInv, Evolves, NEW id \in 0..ids
  PROVE  /\ Gone(id) => Gone(id)'
         /\ \A k : OnlyAt(id, k) => OnlyAt(id, k)'
  BY EvolvesFacts DEF Gone, OnlyAt, Has

LEMMA EffectTyped ==
  ASSUME TypeOK, NEW c \in Calls, NEW e \in effects[c]
  PROVE  e[2] \in Nat /\ e[3] \in Nat
<1>1. e \in Effect \X Nat \X Nat
  BY DEF TypeOK, CallTypeOK
<1> QED BY <1>1

LEMMA EffectStays ==
  ASSUME IInv, IInv', IdsInv, Evolves, NEW c \in Calls, req'[c] = req[c],
         NEW e \in effects[c], EffectOK(c, e)
  PROVE  EffectOK(c, e)'
<1>1. e[2] \in Nat /\ e[3] \in Nat
  BY EffectTyped DEF IInv
<1>2. /\ ids \in Nat /\ ids' \in Nat /\ ids <= ids'
      /\ \A id \in 0..ids : \A n \in Names : Has(n)' /\ ds'[n].id = id =>
              Has(n) /\ ds[n].id = id /\ ds[n].version <= ds'[n].version
  BY EvolvesFacts
<1>3. \A n \in Names : /\ Has(n) => ds[n].version \in Nat
                       /\ Has(n)' => ds'[n].version \in Nat
  <2>1. TypeOK /\ TypeOK'
    BY DEF IInv
  <2>2. ASSUME NEW n \in Names, Has(n)' PROVE ds'[n].version \in Nat
    <3>1. ds'[n] \in Dataset
      BY <2>1, <2>2 DEF TypeOK, DatasetTypeOK, Has
    <3> QED BY <3>1, DatasetAssumption DEF Dataset
  <2> QED BY <2>1, <2>2, HasFacts
<1>4. e[1] \in {"created", "destroyed", "set"} => e[2] \in 0..ids /\ (e[2] \in 1..ids)'
  BY <1>1, <1>2 DEF EffectOK
<1>5. Name(c)' = Name(c)
  BY DEF Name
<1>6. e[1] = "created" => OnlyAt(e[2], Name(c))'
  BY <1>4, <1>5, GoneStays DEF EffectOK
<1>7. e[1] = "destroyed" => Gone(e[2])'
  BY <1>4, GoneStays DEF EffectOK
<1>8. e[1] = "set" => \A n \in Names : Has(n)' /\ ds'[n].id = e[2] => e[3] <= ds'[n].version
  BY <1>1, <1>2, <1>3, <1>4 DEF EffectOK
<1> QED BY <1>4, <1>6, <1>7, <1>8 DEF EffectOK

\* What a call has seen stays true while it neither reads nor does anything.
LEMMA SeenStays ==
  ASSUME IInv, IInv', RInv, Evolves, NEW c \in Calls, Op(c) \in ReadOps, Seen(c),
         UNCHANGED <<req[c], effects[c], before[c], view[c]>>,
         \A d \in before[c] : effects'[d] = effects[d]
  PROVE  Seen(c)'
<1>1. /\ ids \in Nat /\ ids' \in Nat /\ ids <= ids' /\ IdsInv
  BY EvolvesFacts DEF RInv
<1>2. view[c].first \in 0..ids' /\ view[c].second \in 0..ids'
  BY <1>1 DEF Seen
<1>3. Name(c)' = Name(c) /\ Op(c)' = Op(c)
  BY DEF Name, Op
<1>4. OnlyAt(view[c].first, Name(c))'
  BY <1>1, <1>3, GoneStays DEF Seen
<1>5. Gone(view[c].first) => Gone(view[c].first)'
  BY <1>1, GoneStays DEF Seen
<1>6. ASSUME NEW e \in effects[c] PROVE Gone(e[2]) => Gone(e[2])'
  <2>1. e[1] = "created" /\ EffectOK(c, e)
    BY DEF IInv, CallInv, RInv, ReadInv, ReadOps, Changes, Promise
  <2>2. e[2] \in 0..ids
    BY <1>1, <2>1 DEF EffectOK
  <2> QED BY <1>1, <2>2, GoneStays
<1> QED BY <1>2, <1>3, <1>4, <1>5, <1>6 DEF Seen

\* A step of one call: only what the call itself knows is left to prove.
LEMMA OneReader ==
  ASSUME IInv, IInv', RInv, Evolves, NEW c \in Calls, pc[c] # "answered",
         ReadInv(c)',
         \A d \in Calls \ {c} : UNCHANGED <<Control(d), before[d], view[d]>>
  PROVE  RInv'
<1>1. IdsInv /\ IdsInv'
  BY EvolvesFacts DEF RInv
<1>2. ASSUME NEW d \in Calls, d # c PROVE ReadInv(d)'
  <2>1. /\ pc'[d] = pc[d] /\ req'[d] = req[d] /\ answer'[d] = answer[d]
        /\ effects'[d] = effects[d] /\ before'[d] = before[d] /\ view'[d] = view[d]
        /\ ReadInv(d) /\ before[d] \subseteq Calls
    BY <1>2 DEF Control, RInv, IInv, TypeOK, CallTypeOK
  <2>2. \A b \in before[d] : b # c /\ pc'[b] = pc[b] /\ effects'[b] = effects[b]
    BY <2>1 DEF ReadInv, Control
  <2>3. \A e \in effects'[d] : EffectOK(d, e)'
    BY <1>1, <2>1, EffectStays DEF ReadInv
  <2>4. pc[d] # "idle" /\ Op(d) \in ReadOps => Seen(d)'
    BY <2>1, <2>2, SeenStays DEF ReadInv
  <2>5. Op(d)' = Op(d)
    BY <2>1 DEF Op
  <2> QED BY <2>1, <2>2, <2>3, <2>4, <2>5 DEF ReadInv, Progress
<1> QED BY <1>1, <1>2 DEF RInv

\* A step of a call that reads nothing and leaves its history alone.
LEMMA OwnStays ==
  ASSUME IInv, IInv', RInv, Evolves, NEW c \in Calls,
         UNCHANGED <<req[c], effects[c], before[c], view[c]>>,
         pc[c] \notin {"idle", "answered"}, pc'[c] # "idle",
         \A d \in Calls \ {c} : UNCHANGED Control(d),
         Op(c) \in ReadOps => Progress(c)'
  PROVE  ReadInv(c)'
<1>1. /\ IdsInv /\ ReadInv(c) /\ before[c] \subseteq Calls
  BY DEF RInv, IInv, TypeOK, CallTypeOK
<1>2. \A b \in before[c] : b # c /\ pc'[b] = pc[b] /\ effects'[b] = effects[b]
  BY <1>1 DEF ReadInv, Control
<1>3. \A e \in effects'[c] : EffectOK(c, e)'
  BY <1>1, EffectStays DEF ReadInv
<1>4. Op(c)' = Op(c)
  BY DEF Op
<1>5. Op(c) \in ReadOps => Seen(c)'
  BY <1>1, <1>2, SeenStays DEF ReadInv
<1> QED BY <1>1, <1>2, <1>3, <1>4, <1>5 DEF ReadInv

\* A step of a call that shows nothing of the kind.
LEMMA OtherOps ==
  ASSUME IInv, IInv', RInv, Evolves, NEW c \in Calls,
         UNCHANGED <<req[c], before[c], view[c]>>,
         pc[c] \notin {"idle", "answered"}, pc'[c] # "idle",
         \A d \in Calls \ {c} : UNCHANGED Control(d),
         Op(c) \notin ReadOps,
         \A e \in effects'[c] \ effects[c] : EffectOK(c, e)'
  PROVE  ReadInv(c)'
<1>1. /\ IdsInv /\ ReadInv(c) /\ before[c] \subseteq Calls
  BY DEF RInv, IInv, TypeOK, CallTypeOK
<1>2. \A b \in before[c] : b # c /\ pc'[b] = pc[b]
  BY <1>1 DEF ReadInv, Control
<1>3. \A e \in effects'[c] : EffectOK(c, e)'
  BY <1>1, EffectStays DEF ReadInv
<1>4. Op(c)' = Op(c)
  BY DEF Op
<1> QED BY <1>1, <1>2, <1>3, <1>4 DEF ReadInv

LEMMA NumbersBelow ==
  ASSUME IInv, RInv
  PROVE  /\ ids \in Nat
         /\ \A n \in Names : Has(n) => /\ ds[n].id \in 1..ids /\ ds[n].id # ids + 1
                                       /\ ds[n].id \in Nat /\ ds[n].version \in Nat
  BY HasFacts DEF IInv, RInv, IdsInv

\* The datasets that are left are the ones there were, with the same properties.
LEMMA SameEvolves ==
  ASSUME IInv, RInv, ids' = ids,
         \A n \in Names : Has(n)' =>
           Has(n) /\ ds'[n].id = ds[n].id /\ ds'[n].version = ds[n].version
  PROVE  Evolves
  BY NumbersBelow DEF Evolves

LEMMA NothingEvolves ==
  ASSUME IInv, RInv, UNCHANGED <<ds, ids>>
  PROVE  Evolves
<1>1. \A n \in Names : Has(n)' =>
        Has(n) /\ ds'[n].id = ds[n].id /\ ds'[n].version = ds[n].version
  BY DEF Has
<1> QED BY <1>1, SameEvolves

LEMMA PoolMovesEvolves ==
  ASSUME IInv, RInv, PoolMoves
  PROVE  Evolves
<1>1. \A n \in Names : Has(n) => ds[n] \in Dataset
  BY DEF IInv, TypeOK, DatasetTypeOK, Has
<1>2. ASSUME NEW n \in Names, Has(n)'
      PROVE  Has(n) /\ ds'[n].id = ds[n].id /\ ds'[n].version = ds[n].version
  <2>1. ds \in [Names -> Dataset \cup {Absent}]
    BY DEF IInv, TypeOK, DatasetTypeOK
  <2>2. CASE imported' = imported
    BY <1>2, <2>2 DEF PoolMoves, Has
  <2>3. CASE imported' # imported
    <3>1. ds'[n] = IF ds[n] = Absent THEN Absent ELSE [ds[n] EXCEPT !.mounted = imported']
      BY <2>3 DEF PoolMoves
    <3>2. Has(n) /\ ds'[n] = [ds[n] EXCEPT !.mounted = imported']
      BY <1>2, <3>1 DEF Has
    <3> QED BY <1>1, <3>2 DEF Dataset
  <2> QED BY <2>2, <2>3
<1>3. ids' = ids
  BY DEF PoolMoves
<1> QED BY <1>2, <1>3, SameEvolves

\* The making of a call.
LEMMA BeginReads ==
  ASSUME IInv, IInv', RInv, NEW c \in Calls, NEW r \in Requests,
         pc[c] = "idle", pc'[c] # "idle", pc'[c] \notin {"properties_of"},
         r.op \in ReadOps => answer'[c] = "none",
         req' = [req EXCEPT ![c] = r],
         \/ before' = before
         \/ before' = [before EXCEPT ![c] = {d \in Calls : pc[d] = "answered"}],
         UNCHANGED <<effects, ds, ids, view>>,
         \A d \in Calls \ {c} : UNCHANGED <<pc[d], answer[d]>>
  PROVE  RInv'
<1>1. Evolves /\ IdsInv /\ ids \in Nat
  BY NothingEvolves, NumbersBelow DEF RInv
<1>2. /\ effects[c] = {} /\ view[c].first = 0 /\ view[c].second = 0
      /\ \A d \in before[c] : pc[d] = "answered"
      /\ before[c] \subseteq Calls
  BY DEF IInv, CallInv, RInv, ReadInv, TypeOK, CallTypeOK
<1>3. \A d \in Calls \ {c} : UNCHANGED <<Control(d), before[d], view[d]>>
  BY DEF Control, IInv, TypeOK, CallTypeOK
<1>4. /\ before'[c] \subseteq Calls
      /\ \A d \in before'[c] : pc[d] = "answered"
  BY <1>2 DEF IInv, TypeOK, CallTypeOK
<1>5. \A d \in before'[c] : d # c /\ d \in Calls /\ pc'[d] = "answered"
  BY <1>4
<1>6. effects'[c] = {} /\ view'[c].first = 0 /\ view'[c].second = 0
  BY <1>2
<1>7. \A k : OnlyAt(0, k)'
  <2>1. \A n \in Names : Has(n)' => ds'[n].id # 0
    BY <1>1 DEF IdsInv, Has
  <2> QED BY <2>1 DEF OnlyAt
<1>8. \A d \in before'[c] : \A e \in effects'[d] :
        e[1] \in {"destroyed", "set"} => e[2] # 0
  BY <1>1, <1>5 DEF RInv, ReadInv, EffectOK
<1>9. Seen(c)'
  BY <1>1, <1>6, <1>7, <1>8 DEF Seen
<1>10. Op(c)' \in ReadOps => Progress(c)'
  BY <1>6 DEF Progress, Op, IInv, TypeOK, CallTypeOK
<1>11. ReadInv(c)'
  BY <1>5, <1>6, <1>9, <1>10 DEF ReadInv
<1> QED BY <1>1, <1>3, <1>11, OneReader

LEMMA EndpointReads ==
  ASSUME IInv, IInv', RInv, NEW c \in Calls, NEW r \in Asks[c],
         \/ PoolEndpoint(c, r) /\ UNCHANGED datasetVars
         \/ DatasetEndpoint(c, r)
  PROVE  RInv'
<1>1. r \in Requests /\ answer \in [Calls -> {"none", "ok", "error", "failed"}]
      /\ pc \in [Calls -> Commands \cup {"idle", "answered"}]
  BY CallAssumption DEF IInv, TypeOK, CallTypeOK, Commands
<1>2. ASSUME NEW command \in Commands \ {"properties_of"}, Begin(c, r, command),
             UNCHANGED datasetVars
      PROVE  RInv'
  <2>1. /\ pc[c] = "idle" /\ pc'[c] = command /\ answer' = answer /\ answer[c] = "none"
        /\ req' = [req EXCEPT ![c] = r]
        /\ before' = [before EXCEPT ![c] = {d \in Calls : pc[d] = "answered"}]
        /\ UNCHANGED <<effects, ds, ids, view>>
        /\ \A d \in Calls \ {c} : UNCHANGED <<pc[d], answer[d]>>
    BY <1>1, <1>2 DEF Begin, datasetVars, IInv, CallInv
  <2>2. command # "idle"
    BY DEF Commands, PoolCommands, DatasetCommands
  <2> QED BY <1>1, <1>2, <2>1, <2>2, BeginReads
<1>3. CASE ArcRequest(c, r) /\ UNCHANGED datasetVars
  <2>1. /\ pc[c] = "idle" /\ pc'[c] = "answered" /\ r.op \notin ReadOps
        /\ req' = [req EXCEPT ![c] = r] /\ before' = before
        /\ UNCHANGED <<effects, ds, ids, view>>
        /\ \A d \in Calls \ {c} : UNCHANGED <<pc[d], answer[d]>>
    BY <1>1, <1>3 DEF ArcRequest, datasetVars, ReadOps
  <2> QED BY <1>1, <2>1, BeginReads
<1>4. CASE PoolEndpoint(c, r) /\ ~ArcRequest(c, r) /\ UNCHANGED datasetVars
  <2>1. \E command \in PoolCommands : Begin(c, r, command)
    BY <1>4 DEF PoolEndpoint, PoolRequest, PoolCommands,
         GetPoolRequest, HealthRequest, ListRequest, IostatRequest, HistoryRequest,
         StartRequest, StopRequest, ExportRequest, ImportRequest, ScrubStatusRequest,
         PerformanceRequest
  <2>2. PoolCommands \subseteq Commands \ {"properties_of"}
    BY DEF Commands, PoolCommands
  <2> QED BY <1>2, <1>4, <2>1, <2>2
<1>5. CASE DatasetEndpoint(c, r)
  <2>1. /\ UNCHANGED datasetVars
        /\ \E command \in {"exists", "list", "info", "set", "usage", "mount", "unmount"} :
             Begin(c, r, command)
    BY <1>5 DEF DatasetEndpoint, DatasetRequest,
         CreateRequest, ListAllRequest, GetRequest, DeleteRequest, SetRequest,
         UsageRequest, MountRequest, UnmountRequest, MonitorRequest
  <2>2. {"exists", "list", "info", "set", "usage", "mount", "unmount"}
          \subseteq Commands \ {"properties_of"}
    BY DEF Commands, DatasetCommands
  <2> QED BY <1>2, <2>1, <2>2
<1> QED BY <1>3, <1>4, <1>5

\* What a call goes on to touches no other call.
LEMMA NextFrame ==
  ASSUME IInv, NEW c \in Calls,
         (\E command : Goto(c, command)) \/ (\E verdict : Answer(c, verdict)),
         effects' = effects \/ \E things : Did(c, things)
  PROVE  /\ req' = req
         /\ \A d \in Calls \ {c} : UNCHANGED Control(d)
  BY DEF Goto, Answer, Did, Control, IInv, TypeOK, CallTypeOK

LEMMA PoolStepReads ==
  ASSUME IInv, IInv', RInv, NEW c \in Calls, PoolStep(c), PoolMoves
  PROVE  RInv'
<1>1. /\ pc[c] \in PoolCommands /\ Fits(pc[c], Op(c))
  BY DEF PoolStep, PoolStatus, PoolProperties, PoolCapacity, DetailedStatus, PoolErrors,
         ListPools, PoolReport, ScrubStatus, StartScrub, StopScrub, ExportPool, ImportPool,
         PoolCommands, IInv, CallInv
<1>2. /\ pc[c] \notin {"idle", "answered"}
      /\ Op(c) \notin ReadOps /\ Op(c) \notin {"destroy", "set"}
  BY <1>1 DEF Fits, PoolCommands, ReadOps
<1>3. /\ before' = before
      /\ (\E command \in PoolCommands : Goto(c, command)) \/ (\E verdict : Answer(c, verdict))
      /\ effects' = effects \/ \E things : Did(c, things)
  <2>1. CASE PoolReading(c)
    BY <2>1, PoolReadingNext DEF NoEffect
  <2>2. CASE PoolChanging(c)
    BY <2>2 DEF PoolChanging, StartScrub, StopScrub, ExportPool, ImportPool, Concludes,
                NoEffect, Did
  <2> QED BY <2>1, <2>2 DEF PoolStep, PoolReading, PoolChanging
<1>4. req' = req /\ \A d \in Calls \ {c} : UNCHANGED Control(d)
  BY <1>3, NextFrame
<1>5. pc'[c] # "idle"
  BY <1>3 DEF Goto, Answer, PoolCommands, IInv, TypeOK, CallTypeOK
<1>6. Evolves /\ view' = view
  BY PoolMovesEvolves DEF PoolMoves
<1>7. \A e \in effects'[c] : e[1] \notin {"created", "destroyed", "set"}
  BY <1>2, <1>4 DEF IInv, CallInv, Op, Changes, Promise, ReadOps
<1>8. \A e \in effects'[c] : EffectOK(c, e)'
  BY <1>7 DEF EffectOK
<1>9. ReadInv(c)'
  BY <1>2, <1>3, <1>4, <1>5, <1>6, <1>8, OtherOps
<1> QED BY <1>2, <1>3, <1>4, <1>6, <1>9, OneReader

\* What a call that just read the dataset it names has seen.
LEMMA JustSeen ==
  ASSUME IInv, RInv, NEW c \in Calls, Name(c) \in Names, Present(Name(c))
  PROVE  /\ ds[Name(c)].id \in 1..ids /\ ds[Name(c)].id # 0
         /\ OnlyAt(ds[Name(c)].id, Name(c))
         /\ \A id : OnlyAt(id, Name(c)) => id = ds[Name(c)].id \/ Gone(id)
         /\ \A d \in Calls : \A e \in effects[d] :
              /\ e[1] = "destroyed" => e[2] # ds[Name(c)].id
              /\ e[1] = "set" /\ e[2] = ds[Name(c)].id => e[3] <= ds[Name(c)].version
<1>1. IdsInv /\ Has(Name(c)) /\ ids \in Nat
  BY NumbersBelow DEF RInv, Present, Has
<1>2. ds[Name(c)].id \in 1..ids /\ ds[Name(c)].id # 0 /\ OnlyAt(ds[Name(c)].id, Name(c))
  BY <1>1 DEF IdsInv, OnlyAt
<1>3. \A id : OnlyAt(id, Name(c)) => id = ds[Name(c)].id \/ Gone(id)
  BY DEF OnlyAt, Gone, Has
<1>4. ASSUME NEW d \in Calls, NEW e \in effects[d]
      PROVE  /\ e[1] = "destroyed" => e[2] # ds[Name(c)].id
             /\ e[1] = "set" /\ e[2] = ds[Name(c)].id => e[3] <= ds[Name(c)].version
  BY <1>1 DEF RInv, ReadInv, EffectOK, Gone, Has
<1> QED BY <1>2, <1>3, <1>4

\* The effects of a call that creates, gets or monitors.
LEMMA OwnEffects ==
  ASSUME IInv, RInv, NEW c \in Calls, Op(c) \in ReadOps, NEW e \in effects[c]
  PROVE  OnlyAt(e[2], Name(c))
<1>1. e[1] = "created" /\ EffectOK(c, e)
  BY DEF IInv, CallInv, RInv, ReadInv, ReadOps, Changes, Promise
<1> QED BY <1>1 DEF EffectOK

LEMMA ReadsFrame ==
  ASSUME IInv, NEW c \in Calls, NoEffect,
         (\E command : Goto(c, command)) \/ (\E verdict : Answer(c, verdict))
  PROVE  /\ UNCHANGED <<req, effects, before>>
         /\ \A d \in Calls \ {c} : UNCHANGED Control(d)
  BY NextFrame DEF NoEffect

\* The first read of a call.
LEMMA FirstReads ==
  ASSUME IInv, IInv', RInv, NEW c \in Calls, pc[c] \notin {"idle", "answered"},
         Name(c) \in Names, Sees(c, "first"), NoEffect, UNCHANGED <<ds, ids>>,
         NEW command \in Commands, Goto(c, command), view[c].second = 0,
         command \notin {"exists", "create", "info"}
  PROVE  RInv'
<1>1. /\ UNCHANGED <<req, effects, before>> /\ Name(c)' = Name(c)
      /\ \A d \in Calls \ {c} : UNCHANGED Control(d)
      /\ Evolves /\ TypeOK
  BY ReadsFrame, NothingEvolves DEF Name, IInv
<1>2. /\ ds[Name(c)].id \in 1..ids /\ ds[Name(c)].id # 0
      /\ OnlyAt(ds[Name(c)].id, Name(c))
      /\ \A d \in Calls : \A e \in effects[d] :
              e[1] = "destroyed" => e[2] # ds[Name(c)].id
  BY JustSeen DEF Sees
<1>3. /\ view'[c].first = ds[Name(c)].id /\ view'[c].second = 0
      /\ \A d \in Calls \ {c} : view'[d] = view[d]
  BY <1>1 DEF Sees, TypeOK, DatasetTypeOK
<1>4. pc'[c] = command /\ command \notin {"idle", "answered"}
      /\ answer'[c] # "ok" /\ ids \in Nat
  BY <1>1, GotoFacts, NumbersBelow, Asked DEF Commands, PoolCommands, DatasetCommands
<1>5. /\ before[c] \subseteq Calls /\ \A b \in before[c] : b # c /\ pc[b] = "answered"
      /\ \A b \in Calls : \A e \in effects[b] : e[1] \in {"destroyed", "set"} => e[2] # 0
  BY <1>4 DEF RInv, ReadInv, EffectOK, IInv, TypeOK, CallTypeOK
<1>6. OnlyAt(ds[Name(c)].id, Name(c))'
  BY <1>1, <1>2 DEF OnlyAt, Has
<1>7. Seen(c)'
  BY <1>1, <1>2, <1>3, <1>4, <1>5, <1>6 DEF Seen
<1>8. Progress(c)'
  BY <1>2, <1>3, <1>4 DEF Progress
<1>9. \A e \in effects'[c] : EffectOK(c, e)'
  BY <1>1, EffectStays DEF RInv, ReadInv
<1>10. ReadInv(c)'
  BY <1>1, <1>4, <1>5, <1>7, <1>8, <1>9 DEF ReadInv, Control
<1> QED BY <1>1, <1>3, <1>10, OneReader

\* The second read of a call, after its first.
LEMMA SecondReads ==
  ASSUME IInv, IInv', RInv, NEW c \in Calls, pc[c] \notin {"idle", "answered"},
         Op(c) \in ReadOps, Name(c) \in Names, Present(Name(c)),
         NoEffect, UNCHANGED <<ds, ids>>,
         view'[c].first = view[c].first, view[c].first # 0,
         view'[c].second = ds[Name(c)].id,
         Op(c) # "monitor" => view'[c].version = ds[Name(c)].version,
         \A d \in Calls \ {c} : view'[d] = view[d],
         Goto(c, "objset") \/ Answer(c, "ok")
  PROVE  RInv'
<1>1. /\ UNCHANGED <<req, effects, before>> /\ Name(c)' = Name(c) /\ Op(c)' = Op(c)
      /\ \A d \in Calls \ {c} : UNCHANGED Control(d)
      /\ Evolves /\ TypeOK
  BY ReadsFrame, NothingEvolves DEF Name, Op, IInv
<1>2. /\ ds[Name(c)].id \in 1..ids /\ ds[Name(c)].id # 0
      /\ \A id : OnlyAt(id, Name(c)) => id = ds[Name(c)].id \/ Gone(id)
      /\ \A d \in Calls : \A e \in effects[d] :
              /\ e[1] = "destroyed" => e[2] # ds[Name(c)].id
              /\ e[1] = "set" /\ e[2] = ds[Name(c)].id => e[3] <= ds[Name(c)].version
  BY JustSeen
<1>3. pc'[c] \in {"objset", "answered"} /\ ids \in Nat
  BY <1>1, GotoFacts, AnswerFacts, NumbersBelow DEF Commands, DatasetCommands
<1>4. Seen(c)
  BY DEF RInv, ReadInv
<1>5. /\ before[c] \subseteq Calls /\ \A b \in before[c] : b # c /\ pc[b] = "answered"
  BY DEF RInv, ReadInv, IInv, TypeOK, CallTypeOK
<1>6. /\ view'[c].first # view'[c].second => Gone(view[c].first)
      /\ \A e \in effects[c] : e[2] = view'[c].second \/ Gone(e[2])
  BY <1>2, <1>4, OwnEffects DEF Seen
<1>7. /\ \A id : Gone(id)' <=> Gone(id)
      /\ \A id, k : OnlyAt(id, k)' <=> OnlyAt(id, k)
  BY DEF Gone, OnlyAt, Has
<1>8. Seen(c)'
  BY <1>1, <1>2, <1>3, <1>4, <1>5, <1>6, <1>7 DEF Seen
<1>9. Progress(c)'
  BY <1>2, <1>3 DEF Progress
<1>10. \A e \in effects'[c] : EffectOK(c, e)'
  BY <1>1, EffectStays DEF RInv, ReadInv
<1>11. ReadInv(c)'
  BY <1>1, <1>3, <1>5, <1>8, <1>9, <1>10 DEF ReadInv, Control
<1> QED BY <1>1, <1>11, OneReader

\* A command that reads nothing its call shows.
LEMMA PlainReads ==
  ASSUME IInv, IInv', RInv, NEW c \in Calls, pc[c] \notin {"idle", "answered"},
         NoEffect, UNCHANGED datasetVars,
         \/ Answer(c, "failed")
         \/ Answer(c, "ok") /\ (Op(c) \in ReadOps => view[c].second # 0)
         \/ \E command \in DatasetCommands \ {"info", "properties_of"} :
              /\ Goto(c, command)
              /\ command \in {"exists", "create"} => view[c].second = 0
  PROVE  RInv'
<1>1. /\ UNCHANGED <<req, effects, before>>
      /\ \A d \in Calls \ {c} : UNCHANGED Control(d)
      /\ Evolves /\ TypeOK /\ view' = view
  BY ReadsFrame, NothingEvolves DEF IInv, datasetVars
<1>2. /\ pc'[c] \notin {"idle", "info", "properties_of"}
      /\ pc'[c] \in {"exists", "create"} => view[c].second = 0
      /\ answer'[c] = "ok" => view[c].second # 0 \/ Op(c) \notin ReadOps
  <2>1. CASE Answer(c, "failed")
    BY <1>1, <2>1, AnswerFacts
  <2>2. CASE Answer(c, "ok") /\ (Op(c) \in ReadOps => view[c].second # 0)
    BY <1>1, <2>2, AnswerFacts
  <2>3. ASSUME NEW command \in DatasetCommands \ {"info", "properties_of"}, Goto(c, command),
               command \in {"exists", "create"} => view[c].second = 0
        PROVE  /\ pc'[c] \notin {"idle", "info", "properties_of"}
               /\ pc'[c] \in {"exists", "create"} => view[c].second = 0
               /\ answer'[c] # "ok"
    <3>1. pc'[c] = command /\ answer' = answer /\ answer[c] = "none"
      BY <1>1, <2>3, GotoFacts, Asked DEF Commands
    <3> QED BY <2>3, <3>1 DEF DatasetCommands
  <2> QED BY <2>1, <2>2, <2>3
<1>3. Op(c) \in ReadOps => Progress(c)'
  BY <1>1, <1>2 DEF RInv, ReadInv, Progress
<1>4. ReadInv(c)'
  BY <1>1, <1>2, <1>3, OwnStays
<1> QED BY <1>1, <1>4, OneReader

LEMMA DatasetReadingReads ==
  ASSUME IInv, IInv', RInv, NEW c \in Calls, DatasetReading(c)
  PROVE  RInv'
<1>1. /\ pc[c] \notin {"idle", "answered"} /\ NoEffect /\ UNCHANGED <<ds, ids>>
      /\ Fits(pc[c], Op(c)) /\ TypeOK
  BY DatasetReadingNext, Asked
<1>2. Op(c) \in DatasetOps \ {"list"} => Name(c) \in Names
  BY <1>1, Asked
<1>3. Op(c) \in ReadOps => Progress(c)
  BY <1>1 DEF RInv, ReadInv
<1>4. ReadFails(c) => RInv'
  BY <1>1, PlainReads DEF ReadFails, datasetVars
<1>5. CASE DatasetExists(c)
  BY <1>1, <1>3, <1>5, PlainReads
     DEF DatasetExists, Fits, DatasetCommands, ReadOps, Progress
<1>6. CASE DatasetInfo(c)
  <2>1. /\ pc[c] = "info" /\ Op(c) \in {"create", "get"} /\ Name(c) \in Names
        /\ view[c].second = 0 /\ "properties_of" \in Commands
    BY <1>1, <1>2, <1>3, <1>6
       DEF DatasetInfo, Fits, DatasetOps, ReadOps, Progress, Commands, DatasetCommands
  <2> QED BY <1>1, <1>4, <1>6, <2>1, FirstReads DEF DatasetInfo
<1>7. CASE DatasetProperties(c)
  <2>1. /\ pc[c] = "properties_of" /\ Op(c) \in {"create", "get"} /\ Name(c) \in Names
        /\ Op(c) \in ReadOps /\ view[c].first # 0
    BY <1>1, <1>2, <1>3, <1>7 DEF DatasetProperties, Fits, DatasetOps, ReadOps, Progress
  <2>2. CASE /\ Present(Name(c))
             /\ view' = [view EXCEPT ![c].second = ds[Name(c)].id,
                                     ![c].version = ds[Name(c)].version]
             /\ Answer(c, "ok")
    <3>1. /\ view'[c].first = view[c].first /\ view'[c].second = ds[Name(c)].id
          /\ view'[c].version = ds[Name(c)].version
          /\ \A d \in Calls \ {c} : view'[d] = view[d]
      BY <1>1, <2>2 DEF TypeOK, DatasetTypeOK
    <3> QED BY <1>1, <2>1, <2>2, <3>1, SecondReads
  <2> QED BY <1>4, <1>7, <2>2 DEF DatasetProperties
<1>8. CASE ListDatasets(c)
  BY <1>1, <1>8, PlainReads DEF ListDatasets, Fits, ReadOps
<1>9. CASE DatasetUsage(c)
  <2>1. /\ pc[c] = "usage" /\ Op(c) \in {"usage", "monitor"} /\ Name(c) \in Names
    BY <1>1, <1>2, <1>9 DEF DatasetUsage, Fits, DatasetOps
  <2>2. CASE Sees(c, "first") /\ Op(c) = "usage" /\ Answer(c, "ok")
    <3>1. /\ Evolves /\ UNCHANGED <<req, effects, before>>
          /\ \A d \in Calls \ {c} : UNCHANGED <<Control(d), view[d]>>
      BY <1>1, <2>2, ReadsFrame, NothingEvolves DEF Sees, TypeOK, DatasetTypeOK
    <3>2. pc'[c] = "answered" /\ Op(c)' \notin ReadOps
      BY <1>1, <2>2, <3>1, AnswerFacts DEF Op, ReadOps
    <3>3. /\ before[c] \subseteq Calls /\ \A b \in before[c] : b # c /\ pc[b] = "answered"
      BY <1>1 DEF RInv, ReadInv, TypeOK, CallTypeOK
    <3>4. \A e \in effects'[c] : EffectOK(c, e)'
      BY <3>1, EffectStays DEF RInv, ReadInv
    <3>5. ReadInv(c)'
      BY <3>1, <3>2, <3>3, <3>4 DEF ReadInv, Control
    <3> QED BY <1>1, <3>1, <3>5, OneReader
  <2>3. CASE /\ Op(c) = "monitor"
             /\ Sees(c, IF view[c].first = 0 THEN "first" ELSE "second")
             /\ Goto(c, "objset")
    <3>1. CASE view[c].first = 0
      <4>1. view[c].second = 0 /\ "objset" \in Commands
        BY <1>3, <2>3, <3>1 DEF Progress, ReadOps, Commands, DatasetCommands
      <4> QED BY <1>1, <2>1, <2>3, <3>1, <4>1, FirstReads
    <3>2. CASE view[c].first # 0
      <4>1. /\ view'[c].first = view[c].first /\ view'[c].second = ds[Name(c)].id
            /\ \A d \in Calls \ {c} : view'[d] = view[d]
            /\ Present(Name(c))
        BY <1>1, <2>3, <3>2 DEF Sees, TypeOK, DatasetTypeOK
      <4> QED BY <1>1, <2>1, <2>3, <3>2, <4>1, SecondReads DEF ReadOps
    <3> QED BY <3>1, <3>2
  <2> QED BY <1>4, <1>9, <2>2, <2>3 DEF DatasetUsage
<1>10. CASE DatasetIostats(c)
  BY <1>1, <1>10, PlainReads DEF DatasetIostats, DatasetCommands
<1>11. CASE PoolIostats(c)
  BY <1>1, <1>11, PlainReads DEF PoolIostats, DatasetCommands
<1>12. CASE MonitorWaits(c)
  BY <1>1, <1>12, PlainReads DEF MonitorWaits, DatasetCommands
<1> QED BY <1>5, <1>6, <1>7, <1>8, <1>9, <1>10, <1>11, <1>12 DEF DatasetReading

\* What every change of a dataset has in common.
LEMMA WorksFrame ==
  ASSUME IInv, NEW c \in Calls, DatasetChanging(c)
  PROVE  /\ pc[c] \notin {"idle", "answered"} /\ Name(c) \in Names
         /\ Fits(pc[c], Op(c)) /\ TypeOK
         /\ (Goto(c, "info") /\ Op(c) = "create") \/ Answer(c, "ok") \/ Answer(c, "failed")
         /\ UNCHANGED <<before, view, req>>
         /\ pc'[c] # "idle"
         /\ \A d \in Calls \ {c} : UNCHANGED <<Control(d), before[d], view[d]>>
<1>1. /\ pc[c] \notin {"idle", "answered"} /\ Fits(pc[c], Op(c)) /\ TypeOK
      /\ pc[c] \in {"create", "destroy", "set", "mount", "unmount"}
  BY Asked DEF DatasetChanging, CreateDataset, DestroyDataset, SetProperty, MountDataset,
               UnmountDataset
<1>2. Name(c) \in Names /\ (pc[c] = "create" => Op(c) = "create")
  BY <1>1, Asked DEF Fits, DatasetOps
<1>3. /\ (Goto(c, "info") /\ pc[c] = "create") \/ Answer(c, "ok") \/ Answer(c, "failed")
      /\ UNCHANGED <<before, view>>
      /\ effects' = effects \/ \E things : Did(c, things)
  <2>1. CASE CreateDataset(c)
    BY <2>1 DEF CreateDataset, Works, NoEffect, Did
  <2>2. CASE DestroyDataset(c)
    BY <2>2 DEF DestroyDataset, Works, NoEffect, Did
  <2>3. CASE SetProperty(c)
    BY <2>3 DEF SetProperty, Works, NoEffect, Did
  <2>4. CASE MountDataset(c)
    BY <2>4 DEF MountDataset, Mounting, Works, NoEffect, Did
  <2>5. CASE UnmountDataset(c)
    BY <2>5 DEF UnmountDataset, Mounting, Works, NoEffect, Did
  <2> QED BY <2>1, <2>2, <2>3, <2>4, <2>5 DEF DatasetChanging
<1>4. req' = req /\ \A d \in Calls \ {c} : UNCHANGED Control(d)
  BY <1>3, NextFrame
<1>5. pc'[c] # "idle"
  BY <1>1, <1>3, GotoFacts, AnswerFacts DEF Commands, DatasetCommands
<1> QED BY <1>1, <1>2, <1>3, <1>4, <1>5

\* A change that leaves the datasets alone or makes the one dataset.
LEMMA CreateReads ==
  ASSUME IInv, IInv', RInv, NEW c \in Calls, CreateDataset(c)
  PROVE  RInv'
<1>1. DatasetChanging(c)
  BY DEF DatasetChanging
<1>2. /\ pc[c] \notin {"idle", "answered"} /\ Name(c) \in Names /\ TypeOK
      /\ UNCHANGED <<before, view, req>> /\ pc'[c] # "idle"
      /\ \A d \in Calls \ {c} : UNCHANGED <<Control(d), before[d], view[d]>>
      /\ (Goto(c, "info") \/ Answer(c, "ok") \/ Answer(c, "failed"))
      /\ Fits(pc[c], Op(c))
  BY <1>1, WorksFrame
<1>3. pc[c] = "create" /\ Op(c) = "create" /\ Op(c) \in ReadOps
  BY <1>2 DEF CreateDataset, Fits, ReadOps
<1>4. /\ Progress(c) /\ Seen(c) /\ view[c].second = 0
  BY <1>2, <1>3 DEF RInv, ReadInv, Progress
<1>5. PICK outcome \in Outcomes :
        Works(c, outcome,
          /\ imported /\ ds[Name(c)] = Absent /\ ids < MaxIds
          /\ \A n \in Names : Name(c) \in Under[n] => ds[n] # Absent
          /\ ids' = ids + 1
          /\ ds' = [ds EXCEPT ![Name(c)] = [id |-> ids + 1, version |-> 0, mounted |-> TRUE]]
          /\ Did(c, {<<"created", ids + 1, 0>>}),
          Goto(c, "info"))
  BY DEF CreateDataset
<1>6. (pc'[c] = "info" /\ answer'[c] # "ok") \/ (pc'[c] = "answered" /\ answer'[c] # "ok")
  <2>1. Goto(c, "info") \/ Answer(c, "failed")
    BY <1>5 DEF Works
  <2> QED BY <1>2, <2>1, GotoFacts, AnswerFacts, Asked DEF Commands, DatasetCommands
<1>7. Progress(c)'
  BY <1>2, <1>4, <1>6 DEF Progress
<1>8. CASE outcome = "failed"
  <2>1. effects' = effects /\ UNCHANGED <<ds, ids>>
    BY <1>5, <1>8 DEF Works, NoEffect
  <2>2. Evolves
    BY <2>1, NothingEvolves
  <2>3. ReadInv(c)'
    BY <1>2, <1>7, <2>1, <2>2, OwnStays
  <2> QED BY <1>2, <2>2, <2>3, OneReader
<1>9. CASE outcome # "failed"
  <2>1. /\ ids' = ids + 1
        /\ ds' = [ds EXCEPT ![Name(c)] = [id |-> ids + 1, version |-> 0, mounted |-> TRUE]]
        /\ effects' = [effects EXCEPT ![c] = @ \cup {<<"created", ids + 1, 0>>}]
    BY <1>5, <1>9 DEF Works, Did
  <2>2. /\ ids \in Nat
        /\ \A n \in Names : Has(n) => /\ ds[n].id \in 1..ids /\ ds[n].id # ids + 1
                                      /\ ds[n].id \in Nat /\ ds[n].version \in Nat
    BY NumbersBelow
  <2>3. /\ ds'[Name(c)].id = ids + 1
        /\ \A n \in Names \ {Name(c)} : ds'[n] = ds[n]
    BY <1>2, <2>1 DEF TypeOK, DatasetTypeOK
  <2>4. \A n \in Names : Has(n)' => n = Name(c) \/ (Has(n) /\ ds'[n] = ds[n])
    BY <2>3 DEF Has
  <2>5. Evolves
    BY <2>1, <2>2, <2>3, <2>4 DEF Evolves
  <2>6. \A n \in Names : Has(n)' /\ ds'[n].id = ids + 1 => n = Name(c)
    BY <2>2, <2>4
  <2>7. Name(c)' = Name(c) /\ Op(c)' = Op(c) /\ IdsInv
    BY <1>2 DEF Name, Op, RInv
  <2>8. effects'[c] = effects[c] \cup {<<"created", ids + 1, 0>>}
    <3> DEFINE e == <<"created", ids + 1, 0>>
    <3>1. effects \in [Calls -> SUBSET (Effect \X Nat \X Nat)]
      BY <1>2 DEF TypeOK, CallTypeOK
    <3>2. effects' = [effects EXCEPT ![c] = @ \cup {e}]
      BY <2>1
    <3> HIDE DEF e
    <3>3. effects'[c] = effects[c] \cup {e}
      BY <3>1, <3>2
    <3> QED BY <3>3 DEF e
  <2>9. \A e \in effects'[c] : EffectOK(c, e)'
    <3>1. ASSUME NEW e \in effects[c] PROVE EffectOK(c, e)'
      BY <1>2, <2>5, <2>7, EffectStays DEF RInv, ReadInv
    <3>2. ASSUME NEW e, e = <<"created", ids + 1, 0>> PROVE EffectOK(c, e)'
      <4>1. e[1] = "created" /\ e[2] = ids + 1 /\ ids + 1 \in 1..ids'
        BY <2>1, <2>2, <3>2
      <4> QED BY <2>6, <2>7, <4>1 DEF EffectOK, OnlyAt
    <3> QED BY <2>8, <3>1, <3>2
  <2>10. /\ before[c] \subseteq Calls
         /\ \A b \in before[c] : b # c /\ pc[b] = "answered" /\ effects'[b] = effects[b]
    BY <1>2 DEF RInv, ReadInv, TypeOK, CallTypeOK, Control
  <2>11. OnlyAt(view[c].first, Name(c))'
    BY <1>2, <1>4, <2>5, <2>7, GoneStays DEF Seen
  <2>12. Seen(c)'
    BY <1>2, <1>4, <2>1, <2>2, <2>7, <2>10, <2>11 DEF Seen
  <2>13. ReadInv(c)'
    BY <1>2, <1>7, <2>9, <2>10, <2>12 DEF ReadInv, Control
  <2> QED BY <1>2, <2>5, <2>13, OneReader
<1> QED BY <1>8, <1>9

\* A change made by a call that shows nothing.
LEMMA ChangeReads ==
  ASSUME IInv, IInv', RInv, NEW c \in Calls, DatasetChanging(c), Op(c) \notin ReadOps,
         Evolves,
         \A e \in effects'[c] \ effects[c] : EffectOK(c, e)'
  PROVE  RInv'
<1>1. /\ pc[c] \notin {"idle", "answered"}
      /\ UNCHANGED <<before, view, req>> /\ pc'[c] # "idle"
      /\ \A d \in Calls \ {c} : UNCHANGED <<Control(d), before[d], view[d]>>
  BY WorksFrame
<1>2. ReadInv(c)'
  BY <1>1, OtherOps
<1> QED BY <1>1, <1>2, OneReader

\* What Did added to the effects of its call.
LEMMA OnlyDid ==
  ASSUME TypeOK, NEW c \in Calls, NEW things, Did(c, things)
  PROVE  effects'[c] \ effects[c] \subseteq things
<1>1. effects \in [Calls -> SUBSET (Effect \X Nat \X Nat)]
      /\ effects' = [effects EXCEPT ![c] = @ \cup things]
  BY DEF TypeOK, CallTypeOK, Did
<1> DEFINE T == SUBSET (Effect \X Nat \X Nat)
<1>2. effects \in [Calls -> T]
  BY <1>1
<1> HIDE DEF T
<1>3. effects'[c] = effects[c] \cup things
  BY <1>1, <1>2
<1> QED BY <1>3

LEMMA DidMore ==
  ASSUME TypeOK, NEW c \in Calls, effects' = effects \/ \E things : Did(c, things)
  PROVE  effects[c] \subseteq effects'[c]
<1> DEFINE T == SUBSET (Effect \X Nat \X Nat)
<1>1. effects \in [Calls -> T]
  BY DEF TypeOK, CallTypeOK
<1> HIDE DEF T
<1>2. CASE effects' = effects
  BY <1>2
<1>3. ASSUME NEW things, Did(c, things) PROVE effects[c] \subseteq effects'[c]
  BY <1>1, <1>3 DEF Did
<1> QED BY <1>2, <1>3

LEMMA DestroyReads ==
  ASSUME IInv, IInv', RInv, NEW c \in Calls, DestroyDataset(c)
  PROVE  RInv'
<1>1. DatasetChanging(c) /\ pc[c] = "destroy" /\ TypeOK
  BY DEF DatasetChanging, DestroyDataset, IInv
<1>2. Op(c) \notin ReadOps /\ Name(c) \in Names
  BY <1>1, WorksFrame DEF Fits, ReadOps
<1> DEFINE below   == {n \in Under[Name(c)] : ds[n] # Absent}
           victims == {Name(c)} \cup below
<1>3. PICK outcome \in Outcomes, gone \in SUBSET Names :
        /\ gone \subseteq victims
        /\ Works(c, outcome,
             /\ Present(Name(c))
             /\ req[c].recursive \/ below = {}
             /\ ds' = [n \in Names |-> IF n \in gone THEN Absent ELSE ds[n]]
             /\ Did(c, {<<"destroyed", ds[n].id, 0>> : n \in gone})
             /\ UNCHANGED ids,
             Answer(c, "ok"))
  BY DEF DestroyDataset
<1>4. CASE outcome = "failed"
  <2>1. UNCHANGED <<ds, ids, effects>>
    BY <1>3, <1>4 DEF Works, NoEffect
  <2> QED BY <1>1, <1>2, <2>1, NothingEvolves, ChangeReads
<1>5. CASE outcome # "failed"
  <2>1. /\ Present(Name(c)) /\ ids' = ids
        /\ ds' = [n \in Names |-> IF n \in gone THEN Absent ELSE ds[n]]
        /\ Did(c, {<<"destroyed", ds[n].id, 0>> : n \in gone})
    BY <1>3, <1>5 DEF Works
  <2>2. \A n \in Names : Has(n)' => n \notin gone /\ Has(n) /\ ds'[n] = ds[n]
    BY <2>1 DEF Has
  <2>3. Evolves
    BY <2>1, <2>2, SameEvolves
  <2>4. \A n \in gone : Has(n)
    BY <1>3, <2>1 DEF Has, Present
  <2>5. ASSUME NEW n \in gone, NEW e, e = <<"destroyed", ds[n].id, 0>>
        PROVE  EffectOK(c, e)'
    <3>1. e[1] = "destroyed" /\ e[2] = ds[n].id /\ n \in Names /\ Has(n)
      BY <2>4, <2>5
    <3>2. e[2] \in 1..ids'
      BY <2>1, <3>1 DEF RInv, IdsInv
    <3>3. Gone(e[2])'
      BY <2>2, <2>5, <3>1 DEF Gone, Has, RInv, IdsInv
    <3> QED BY <3>1, <3>2, <3>3 DEF EffectOK
  <2>6. effects'[c] \ effects[c] \subseteq {<<"destroyed", ds[n].id, 0>> : n \in gone}
    BY <1>1, <2>1, OnlyDid
  <2>7. \A e \in effects'[c] \ effects[c] : EffectOK(c, e)'
    BY <2>5, <2>6
  <2> QED BY <1>1, <1>2, <2>3, <2>7, ChangeReads
<1> QED BY <1>4, <1>5

LEMMA SetReads ==
  ASSUME IInv, IInv', RInv, NEW c \in Calls, SetProperty(c)
  PROVE  RInv'
<1>1. DatasetChanging(c) /\ pc[c] = "set" /\ TypeOK
  BY DEF DatasetChanging, SetProperty, IInv
<1>2. Op(c) \notin ReadOps /\ Name(c) \in Names
  BY <1>1, WorksFrame DEF Fits, ReadOps
<1>3. PICK outcome \in Outcomes :
        Works(c, outcome,
          /\ Present(Name(c)) /\ ds[Name(c)].version < MaxWrites
          /\ ds' = [ds EXCEPT ![Name(c)].version = @ + 1]
          /\ Did(c, {<<"set", ds[Name(c)].id, ds[Name(c)].version + 1>>})
          /\ UNCHANGED ids,
          Answer(c, "ok"))
  BY DEF SetProperty
<1>4. CASE outcome = "failed"
  <2>1. UNCHANGED <<ds, ids, effects>>
    BY <1>3, <1>4 DEF Works, NoEffect
  <2> QED BY <1>1, <1>2, <2>1, NothingEvolves, ChangeReads
<1>5. CASE outcome # "failed"
  <2>1. /\ Present(Name(c)) /\ ids' = ids
        /\ ds' = [ds EXCEPT ![Name(c)].version = @ + 1]
        /\ Did(c, {<<"set", ds[Name(c)].id, ds[Name(c)].version + 1>>})
    BY <1>3, <1>5 DEF Works
  <2>2. /\ ds[Name(c)] \in Dataset /\ Has(Name(c))
        /\ ds[Name(c)].id \in 1..ids /\ ds[Name(c)].version \in Nat
    BY <1>1, <1>2, <2>1, PresentFacts, NumbersBelow DEF Present, Has
  <2>3. /\ ds'[Name(c)].id = ds[Name(c)].id
        /\ ds'[Name(c)].version = ds[Name(c)].version + 1
        /\ \A n \in Names \ {Name(c)} : ds'[n] = ds[n]
    BY <1>1, <1>2, <2>1, <2>2 DEF TypeOK, DatasetTypeOK, Dataset
  <2>4. \A n \in Names : Has(n)' => /\ Has(n) /\ ds'[n].id = ds[n].id
                                    /\ ds[n].version <= ds'[n].version
    BY <2>2, <2>3, NumbersBelow DEF Has
  <2>5. Evolves
    BY <2>1, <2>4, NumbersBelow DEF Evolves
  <2>6. ASSUME NEW e, e = <<"set", ds[Name(c)].id, ds[Name(c)].version + 1>>
        PROVE  EffectOK(c, e)'
    <3>1. /\ e[1] = "set" /\ e[2] = ds[Name(c)].id /\ e[3] = ds[Name(c)].version + 1
      BY <2>6
    <3>2. \A n \in Names : Has(n)' /\ ds'[n].id = e[2] => n = Name(c)
      BY <1>2, <2>2, <2>4, <3>1 DEF RInv, IdsInv
    <3>3. \A n \in Names : Has(n)' /\ ds'[n].id = e[2] => e[3] <= ds'[n].version
      BY <2>2, <2>3, <3>1, <3>2
    <3> QED BY <2>1, <2>2, <3>1, <3>3 DEF EffectOK
  <2>7. effects'[c] \ effects[c]
          \subseteq {<<"set", ds[Name(c)].id, ds[Name(c)].version + 1>>}
    BY <1>1, <2>1, OnlyDid
  <2>8. \A e \in effects'[c] \ effects[c] : EffectOK(c, e)'
    BY <2>6, <2>7
  <2> QED BY <1>1, <1>2, <2>5, <2>8, ChangeReads
<1> QED BY <1>4, <1>5

LEMMA MountingReads ==
  ASSUME IInv, IInv', RInv, NEW c \in Calls, DatasetChanging(c),
         pc[c] \in {"mount", "unmount"},
         NEW outcome \in Outcomes, NEW on \in BOOLEAN, NEW what \in {"mounted", "unmounted"},
         Mounting(c, outcome, on, what)
  PROVE  RInv'
<1>1. Op(c) \notin ReadOps /\ Name(c) \in Names /\ TypeOK
  BY WorksFrame DEF Fits, ReadOps
<1>2. CASE outcome = "failed"
  <2>1. UNCHANGED <<ds, ids, effects>>
    BY <1>2 DEF Mounting, Works, NoEffect
  <2> QED BY <1>1, <2>1, NothingEvolves, ChangeReads
<1>3. CASE outcome # "failed"
  <2>1. /\ Present(Name(c)) /\ ids' = ids
        /\ ds' = [ds EXCEPT ![Name(c)].mounted = on]
        /\ Did(c, {<<what, ds[Name(c)].id, 0>>})
    BY <1>3 DEF Mounting, Works
  <2>2. ds[Name(c)] \in Dataset /\ Has(Name(c))
    BY <1>1, <2>1, PresentFacts DEF Present, Has
  <2>3. \A n \in Names : Has(n)' => /\ Has(n) /\ ds'[n].id = ds[n].id
                                    /\ ds'[n].version = ds[n].version
    BY <1>1, <2>1, <2>2 DEF TypeOK, DatasetTypeOK, Dataset, Has
  <2>4. Evolves
    BY <2>1, <2>3, SameEvolves
  <2>5. effects'[c] \ effects[c] \subseteq {<<what, ds[Name(c)].id, 0>>}
    BY <1>1, <2>1, OnlyDid
  <2>6. ASSUME NEW e, e = <<what, ds[Name(c)].id, 0>> PROVE EffectOK(c, e)'
    <3>1. e[1] \notin {"created", "destroyed", "set"}
      BY <2>6
    <3> QED BY <3>1 DEF EffectOK
  <2> QED BY <1>1, <2>4, <2>5, <2>6, ChangeReads
<1> QED BY <1>2, <1>3

LEMMA DatasetChangingReads ==
  ASSUME IInv, IInv', RInv, NEW c \in Calls, DatasetChanging(c)
  PROVE  RInv'
<1>1. CASE MountDataset(c)
  BY <1>1, MountingReads DEF MountDataset
<1>2. CASE UnmountDataset(c)
  BY <1>2, MountingReads DEF UnmountDataset
<1> QED BY <1>1, <1>2, CreateReads, DestroyReads, SetReads DEF DatasetChanging

LEMMA AloneReads ==
  ASSUME IInv, IInv', RInv, UNCHANGED <<callVars, datasetVars>>
  PROVE  RInv'
<1>1. Evolves /\ UNCHANGED <<pc, req, answer, effects, before, ds, ids, view>>
  BY NothingEvolves DEF callVars, datasetVars
<1>2. IdsInv'
  BY <1>1, EvolvesFacts DEF RInv
<1>3. ASSUME NEW c \in Calls PROVE ReadInv(c)'
  <2>1. Op(c)' = Op(c) /\ Name(c)' = Name(c)
    BY <1>1 DEF Op, Name
  <2>2. \A e \in effects'[c] : EffectOK(c, e)'
    BY <1>1, EffectStays DEF RInv, ReadInv
  <2>3. pc[c] # "idle" /\ Op(c) \in ReadOps => Seen(c)'
    BY <1>1, SeenStays DEF RInv, ReadInv
  <2> QED BY <1>1, <2>1, <2>2, <2>3 DEF RInv, ReadInv, Progress
<1> QED BY <1>2, <1>3 DEF RInv

LEMMA InitReads == Init => RInv
<1> SUFFICES ASSUME Init PROVE RInv
  OBVIOUS
<1>1. IdsInv
  <2> SUFFICES ASSUME NEW n \in Names, Has(n)
               PROVE  /\ ds[n].id \in 1..ids
                      /\ \A m \in Names : Has(m) /\ ds[m].id = ds[n].id => m = n
    BY DEF IdsInv
  <2>1. /\ ids = Cardinality({k \in Names : FirstId[k] # 0}) /\ ids \in Nat
        /\ \A k \in Names : FirstId[k] \in 0..ids
    BY DatasetAssumption DEF Init, InitDataset
  <2>2. \A k \in Names : Has(k) => FirstId[k] # 0 /\ ds[k].id = FirstId[k]
    BY DEF Init, InitDataset, Has
  <2>3. \A j, k \in Names : FirstId[j] # 0 /\ FirstId[k] # 0 /\ FirstId[j] = FirstId[k] => j = k
    BY DatasetAssumption
  <2> QED BY <2>1, <2>2, <2>3
<1>2. \A c \in Calls : ReadInv(c)
  BY DEF Init, InitCalls, InitDataset, ReadInv
<1> QED BY <1>1, <1>2 DEF RInv

LEMMA NextReads == IInv /\ IInv' /\ RInv /\ [Next]_vars => RInv'
<1> SUFFICES ASSUME IInv, IInv', RInv, [Next]_vars PROVE RInv'
  OBVIOUS
<1>1. CASE UNCHANGED vars
  BY <1>1, AloneReads DEF vars
<1>2. ASSUME NEW c \in Calls, NEW r \in Asks[c],
             \/ PoolEndpoint(c, r) /\ UNCHANGED datasetVars
             \/ DatasetEndpoint(c, r) /\ UNCHANGED stateSeen
      PROVE  RInv'
  BY <1>2, EndpointReads
<1>3. ASSUME NEW c \in Calls, PoolStep(c) /\ PoolMoves PROVE RInv'
  BY <1>3, PoolStepReads
<1>4. ASSUME NEW c \in Calls, DatasetStep(c) PROVE RInv'
  BY <1>4, DatasetReadingReads, DatasetChangingReads
     DEF DatasetStep, DatasetReading, DatasetChanging
<1>5. CASE (PoolChanges \/ ScrubEnds) /\ UNCHANGED datasetVars
  BY <1>5, AloneReads DEF PoolChanges, ScrubEnds
<1> QED BY <1>1, <1>2, <1>3, <1>4, <1>5 DEF Next

\* What create, get and monitor show of a dataset, read by two commands with other
\* calls in between, is about what there is: only a dataset that is gone can differ
\* between the two reads, and nothing shown is older than what was acknowledged
\* before the call was made (DatasetService).
THEOREM ReadsCorrect == Spec => []ReadsAreCurrent
<1>1. IInv /\ RInv => ReadsAreCurrent
  <2> SUFFICES ASSUME IInv, RInv, NEW c \in Calls,
                      answer[c] = "ok", Op(c) \in ReadOps
               PROVE  /\ view[c].first # view[c].second => Gone(view[c].first)
                      /\ \A e \in effects[c] : e[2] = view[c].second \/ Gone(e[2])
                      /\ \A e \in DoneBefore(c) :
                           /\ e[1] = "destroyed" =>
                                e[2] \notin {view[c].first, view[c].second}
                           /\ e[1] = "set" /\ e[2] = view[c].second /\ Op(c) # "monitor" =>
                                e[3] <= view[c].version
    BY DEF ReadsAreCurrent, ReadOps
  <2>1. pc[c] # "idle"
    BY DEF IInv, CallInv
  <2>2. Seen(c) /\ view[c].second # 0
    BY <2>1 DEF RInv, ReadInv, Progress
  <2>3. \A e \in DoneBefore(c) : \E d \in before[c] : e \in effects[d]
    BY DEF DoneBefore
  <2> QED BY <2>2, <2>3 DEF Seen
<1> QED BY <1>1, InitInv, NextInv, InitReads, NextReads, PTL DEF Spec

-----------------------------------------------------------------------------
(* Which dataset a call changes.  A dataset bears the name it was created  *)
(* with, or had at first; so what was done to a dataset was done under     *)
(* that name, and a call acts on names of its own scope.                   *)

OwnScope(c) ==
  Op(c) \in DatasetOps =>
    /\ \A e \in effects[c] : \E n \in Scope(c) : Was(n, e[2])
    /\ Op(c) = "destroy" /\ answer[c] = "ok" => \E e \in effects[c] : Was(Name(c), e[2])

NInv ==
  /\ \A n \in Names : Has(n) => Was(n, ds[n].id)
  /\ \A c \in Calls : pc[c] # "idle" => OwnScope(c)

\* What a call did stays done, under the same name.
LEMMA WasStays ==
  ASSUME NEW c \in Calls, \A d \in Calls \ {c} : UNCHANGED Control(d),
         effects[c] \subseteq effects'[c], effects[c] # {} => req'[c] = req[c],
         NEW n, NEW id, Was(n, id)
  PROVE  Was(n, id)'
<1>1. CASE id # 0 /\ id = FirstId[n]
  BY <1>1 DEF Was
<1>2. ASSUME NEW d \in Calls, <<"created", id, 0>> \in effects[d], Name(d) = n
      PROVE  Was(n, id)'
  <2>1. <<"created", id, 0>> \in effects'[d] /\ req'[d] = req[d]
    BY <1>2 DEF Control
  <2> QED BY <1>2, <2>1 DEF Was, Name
<1> QED BY <1>1, <1>2 DEF Was

\* A step of one call: only its own scope and the datasets are left to prove.
LEMMA OneScope ==
  ASSUME NInv, NEW c \in Calls, \A d \in Calls \ {c} : UNCHANGED Control(d),
         effects[c] \subseteq effects'[c], effects[c] # {} => req'[c] = req[c],
         \A n \in Names : Has(n)' =>
           (Has(n) /\ ds'[n].id = ds[n].id) \/ Was(n, ds[n].id)',
         OwnScope(c)'
  PROVE  NInv'
<1>1. \A n, id : Was(n, id) => Was(n, id)'
  BY WasStays
<1>2. ASSUME NEW n \in Names, Has(n)' PROVE Was(n, ds[n].id)'
  <2>1. PICK id : id = ds'[n].id
    OBVIOUS
  <2>2. CASE Was(n, ds[n].id)'
    BY <2>2 DEF Was
  <2>3. CASE Has(n) /\ id = ds[n].id
    <3>1. Was(n, id)
      BY <2>3 DEF NInv
    <3>2. Was(n, id)'
      BY <1>1, <3>1
    <3> QED BY <2>1, <3>2 DEF Was
  <2> QED BY <1>2, <2>1, <2>2, <2>3
<1>3. ASSUME NEW d \in Calls, pc'[d] # "idle" PROVE OwnScope(d)'
  <2>1. CASE d = c
    BY <2>1
  <2>2. CASE d # c
    <3>1. /\ OwnScope(d) /\ Scope(d)' = Scope(d) /\ Op(d)' = Op(d) /\ Name(d)' = Name(d)
          /\ effects'[d] = effects[d] /\ answer'[d] = answer[d]
      BY <1>3, <2>2 DEF Control, NInv, Scope, Op, Name
    <3> QED BY <1>1, <3>1 DEF OwnScope
  <2> QED BY <2>1, <2>2
<1> QED BY <1>2, <1>3 DEF NInv

\* A step of a call that does nothing and ends no destruction.
LEMMA QuietScope ==
  ASSUME NInv, NEW c \in Calls, \A d \in Calls \ {c} : UNCHANGED Control(d),
         effects'[c] = effects[c],
         effects[c] = {} \/ (pc[c] # "idle" /\ req'[c] = req[c]),
         \A n \in Names : Has(n)' => Has(n) /\ ds'[n].id = ds[n].id,
         Op(c)' = "destroy" => answer'[c] # "ok"
  PROVE  NInv'
<1>1. \A n, id : Was(n, id) => Was(n, id)'
  BY WasStays
<1>2. OwnScope(c)'
  <2>1. CASE effects[c] = {}
    BY <2>1 DEF OwnScope
  <2>2. CASE effects[c] # {}
    <3>1. OwnScope(c) /\ Scope(c)' = Scope(c) /\ Op(c)' = Op(c)
      BY <2>2 DEF NInv, Scope, Op, Name
    <3> QED BY <1>1, <3>1 DEF OwnScope
  <2> QED BY <2>1, <2>2
<1> QED BY <1>2, OneScope

LEMMA EndpointScope ==
  ASSUME IInv, NInv, NEW c \in Calls, NEW r \in Asks[c],
         \/ PoolEndpoint(c, r) /\ UNCHANGED datasetVars
         \/ DatasetEndpoint(c, r) /\ UNCHANGED stateSeen
  PROVE  NInv'
<1>1. /\ pc \in [Calls -> Commands \cup {"idle", "answered"}]
      /\ req \in [Calls -> Requests \cup {NoRequest}]
      /\ answer \in [Calls -> {"none", "ok", "error", "failed"}]
  BY DEF IInv, TypeOK, CallTypeOK, Commands
<1>2. /\ pc[c] = "idle" /\ effects' = effects /\ ds' = ds
      /\ req' = [req EXCEPT ![c] = r]
      /\ \/ answer' = answer
         \/ answer' = [answer EXCEPT ![c] = "error"]
      /\ \E state_ : pc' = [pc EXCEPT ![c] = state_]
  <2>1. CASE ArcRequest(c, r) /\ UNCHANGED datasetVars
    BY <2>1 DEF ArcRequest, datasetVars
  <2>2. CASE ~ArcRequest(c, r)
    <3>1. (\E command : Begin(c, r, command)) /\ UNCHANGED datasetVars
      BY <2>2 DEF PoolEndpoint, PoolRequest, DatasetEndpoint, DatasetRequest,
           GetPoolRequest, HealthRequest, ListRequest, IostatRequest, HistoryRequest,
           StartRequest, StopRequest, ExportRequest, ImportRequest, ScrubStatusRequest,
           PerformanceRequest, CreateRequest, ListAllRequest, GetRequest, DeleteRequest,
           SetRequest, UsageRequest, MountRequest, UnmountRequest, MonitorRequest
    <3> QED BY <3>1 DEF Begin, datasetVars
  <2>3. CASE DatasetEndpoint(c, r)
    <3>1. (\E command : Begin(c, r, command)) /\ UNCHANGED datasetVars
      BY <2>3 DEF DatasetEndpoint, DatasetRequest,
           CreateRequest, ListAllRequest, GetRequest, DeleteRequest,
           SetRequest, UsageRequest, MountRequest, UnmountRequest, MonitorRequest
    <3> QED BY <3>1 DEF Begin, datasetVars
  <2> QED BY <2>1, <2>2, <2>3
<1>3. effects[c] = {} /\ answer[c] = "none"
  BY <1>2 DEF IInv, CallInv
<1>4. answer'[c] # "ok" /\ \A d \in Calls \ {c} : UNCHANGED Control(d)
  BY <1>1, <1>2, <1>3 DEF Control
<1>5. \A n \in Names : Has(n)' => Has(n) /\ ds'[n].id = ds[n].id
  BY <1>2 DEF Has
<1> QED BY <1>2, <1>3, <1>4, <1>5, QuietScope

\* A call on the pool changes no dataset: it has no scope.
LEMMA PoolStepScope ==
  ASSUME IInv, NInv, NEW c \in Calls, PoolStep(c), PoolMoves
  PROVE  NInv'
<1>1. pc[c] \in PoolCommands /\ Fits(pc[c], Op(c))
  BY DEF PoolStep, PoolStatus, PoolProperties, PoolCapacity, DetailedStatus, PoolErrors,
         ListPools, PoolReport, ScrubStatus, StartScrub, StopScrub, ExportPool, ImportPool,
         PoolCommands, IInv, CallInv
<1>2. Op(c) \notin DatasetOps
  BY <1>1 DEF Fits, PoolCommands, DatasetOps
<1>3. /\ (\E command \in PoolCommands : Goto(c, command)) \/ (\E verdict : Answer(c, verdict))
      /\ effects' = effects \/ \E things : Did(c, things)
  <2>1. CASE PoolReading(c)
    BY <2>1, PoolReadingNext DEF NoEffect
  <2>2. CASE PoolChanging(c)
    BY <2>2 DEF PoolChanging, StartScrub, StopScrub, ExportPool, ImportPool, Concludes,
                NoEffect, Did
  <2> QED BY <2>1, <2>2 DEF PoolStep, PoolReading, PoolChanging
<1>4. req' = req /\ \A d \in Calls \ {c} : UNCHANGED Control(d)
  BY <1>3, NextFrame
<1>5. effects[c] \subseteq effects'[c]
  BY <1>3, DidMore DEF IInv
<1>6. OwnScope(c)'
  BY <1>2, <1>4 DEF OwnScope, Op
<1>7. \A n \in Names : Has(n)' => Has(n) /\ ds'[n].id = ds[n].id
  <2>1. \A n \in Names : Has(n) => ds[n] \in Dataset
    BY DEF IInv, TypeOK, DatasetTypeOK, Has
  <2> QED BY <2>1 DEF PoolMoves, Has, Dataset
<1> QED BY <1>4, <1>5, <1>6, <1>7, OneScope

LEMMA DatasetReadingScope ==
  ASSUME IInv, NInv, NEW c \in Calls, DatasetReading(c)
  PROVE  NInv'
<1>1. /\ pc[c] \notin {"idle", "answered"} /\ NoEffect /\ UNCHANGED <<ds, ids>>
      /\ (\E command : Goto(c, command)) \/ (\E verdict : Answer(c, verdict))
  BY DatasetReadingNext
<1>2. UNCHANGED <<req, effects>> /\ \A d \in Calls \ {c} : UNCHANGED Control(d)
  BY <1>1, ReadsFrame
<1>3. Op(c) = "destroy" => answer'[c] # "ok"
  <2> SUFFICES ASSUME Op(c) = "destroy" PROVE answer'[c] # "ok"
    OBVIOUS
  <2>1. pc[c] \in {"exists", "destroy"} /\ TypeOK /\ answer[c] = "none"
    BY <1>1, Asked DEF Fits
  <2>2. DatasetExists(c)
    BY <2>1 DEF DatasetReading, DatasetExists, DatasetInfo, DatasetProperties, ListDatasets,
         DatasetUsage, DatasetIostats, PoolIostats, MonitorWaits
  <2>3. answer' = answer \/ Answer(c, "failed")
    BY <2>2 DEF DatasetExists, Goto
  <2> QED BY <2>1, <2>3, AnswerFacts
<1>4. \A n \in Names : Has(n)' => Has(n) /\ ds'[n].id = ds[n].id
  BY <1>1 DEF Has
<1>5. Op(c)' = Op(c)
  BY <1>2 DEF Op
<1> QED BY <1>1, <1>2, <1>3, <1>4, <1>5, QuietScope

\* A change of the one dataset a call names, or its making.
LEMMA OneDatasetScope ==
  ASSUME IInv, NInv, NEW c \in Calls, DatasetChanging(c), Op(c) # "destroy",
         NEW things, Did(c, things),
         \A n \in Names : Has(n)' =>
           (Has(n) /\ ds'[n].id = ds[n].id) \/ Was(n, ds[n].id)',
         \A e \in things : Was(Name(c), e[2]) \/ Was(Name(c), e[2])'
  PROVE  NInv'
<1>1. req' = req /\ \A d \in Calls \ {c} : UNCHANGED Control(d)
  BY WorksFrame
<1>2. /\ effects[c] \subseteq effects'[c]
      /\ effects'[c] \ effects[c] \subseteq things
  BY DidMore, OnlyDid DEF IInv
<1>3. \A n, id : Was(n, id) => Was(n, id)'
  BY <1>1, <1>2, WasStays
<1>4. /\ Op(c)' = Op(c) /\ Scope(c)' = Scope(c) /\ Name(c) \in Scope(c)
      /\ pc[c] # "idle"
  BY <1>1, WorksFrame DEF Op, Scope, Name
<1>5. OwnScope(c)'
  <2> SUFFICES ASSUME Op(c) \in DatasetOps, NEW e \in effects'[c]
               PROVE  \E n \in Scope(c) : Was(n, e[2])'
    BY <1>4 DEF OwnScope
  <2>1. CASE e \in things
    <3>1. PICK n, id : n = Name(c) /\ id = e[2]
      OBVIOUS
    <3>2. Name(c)' = Name(c)
      BY <1>1 DEF Name
    <3>3. Was(n, id) \/ Was(n, id)'
      <4>1. Was(Name(c), e[2]) \/ Was(Name(c), e[2])'
        BY <2>1
      <4> QED BY <3>1, <3>2, <4>1 DEF Was
    <3>4. Was(n, id)'
      BY <1>3, <3>3
    <3> QED BY <1>4, <3>1, <3>4
  <2>2. CASE e \in effects[c]
    <3>1. PICK n \in Scope(c) : Was(n, e[2])
      BY <2>2, <1>4 DEF NInv, OwnScope
    <3>2. PICK id : id = e[2]
      OBVIOUS
    <3>3. Was(n, id)'
      BY <1>3, <3>1, <3>2
    <3> QED BY <3>1, <3>2, <3>3
  <2> QED BY <1>2, <2>1, <2>2
<1> QED BY <1>1, <1>2, <1>5, OneScope


\* A change that failed.
LEMMA FailedScope ==
  ASSUME IInv, NInv, NEW c \in Calls, DatasetChanging(c), UNCHANGED <<ds, effects>>,
         Answer(c, "failed")
  PROVE  NInv'
<1>1. /\ req' = req /\ pc[c] # "idle" /\ TypeOK
      /\ \A d \in Calls \ {c} : UNCHANGED Control(d)
  BY WorksFrame
<1>2. answer'[c] # "ok"
  BY <1>1, AnswerFacts
<1>3. \A n \in Names : Has(n)' => Has(n) /\ ds'[n].id = ds[n].id
  BY DEF Has
<1> QED BY <1>1, <1>2, <1>3, QuietScope

LEMMA CreateScope ==
  ASSUME IInv, NInv, NEW c \in Calls, CreateDataset(c)
  PROVE  NInv'
<1>1. DatasetChanging(c) /\ pc[c] = "create" /\ TypeOK
  BY DEF DatasetChanging, CreateDataset, IInv
<1>2. Op(c) = "create" /\ Name(c) \in Names /\ req' = req
  BY <1>1, WorksFrame DEF Fits
<1>3. PICK outcome \in Outcomes :
        Works(c, outcome,
          /\ imported /\ ds[Name(c)] = Absent /\ ids < MaxIds
          /\ \A n \in Names : Name(c) \in Under[n] => ds[n] # Absent
          /\ ids' = ids + 1
          /\ ds' = [ds EXCEPT ![Name(c)] =
                      [id |-> ids + 1, version |-> 0, mounted |-> TRUE]]
          /\ Did(c, {<<"created", ids + 1, 0>>}),
          Goto(c, "info"))
  BY <1>1 DEF CreateDataset
<1>4. CASE outcome = "failed"
  BY <1>1, <1>3, <1>4, FailedScope DEF Works, NoEffect
<1>5. CASE outcome # "failed"
  <2>0. PICK id : id = ids + 1
    OBVIOUS
  <2>1. /\ ds' = [ds EXCEPT ![Name(c)] = [id |-> id, version |-> 0, mounted |-> TRUE]]
        /\ Did(c, {<<"created", id, 0>>})
    BY <1>3, <1>5, <2>0 DEF Works
  <2>2. <<"created", id, 0>> \in effects'[c]
    <3>1. effects \in [Calls -> SUBSET (Effect \X Nat \X Nat)]
      BY <1>1 DEF TypeOK, CallTypeOK
    <3> DEFINE T == SUBSET (Effect \X Nat \X Nat)
    <3>2. effects \in [Calls -> T]
      BY <3>1
    <3> HIDE DEF T
    <3> QED BY <2>1, <3>2 DEF Did
  <2>3. ASSUME NEW n, n = Name(c) PROVE Was(n, id)'
    <3>1. Name(c)' = n
      BY <1>2, <2>3 DEF Name
    <3> QED BY <2>2, <3>1 DEF Was
  <2>4. ASSUME NEW n \in Names, Has(n)'
        PROVE  (Has(n) /\ ds'[n].id = ds[n].id) \/ Was(n, ds[n].id)'
    <3>1. CASE n = Name(c)
      <4>1. ds'[n].id = id
        BY <1>1, <2>1, <3>1 DEF TypeOK, DatasetTypeOK
      <4>2. Was(n, id)'
        BY <2>3, <3>1
      <4> QED BY <4>1, <4>2 DEF Was
    <3>2. CASE n # Name(c)
      BY <1>1, <2>1, <2>4, <3>2 DEF TypeOK, DatasetTypeOK, Has
    <3> QED BY <3>1, <3>2
  <2>5. \A e \in {<<"created", id, 0>>} : Was(Name(c), e[2])'
    <3>1. <<"created", id, 0>>[2] = id
      OBVIOUS
    <3>2. PICK n : n = Name(c)
      OBVIOUS
    <3>3. Name(c)' = n /\ Was(n, id)'
      BY <1>2, <2>3, <3>2 DEF Name
    <3> QED BY <3>1, <3>3 DEF Was
  <2> QED BY <1>1, <1>2, <2>1, <2>4, <2>5, OneDatasetScope
<1> QED BY <1>4, <1>5

\* The dataset c's name names bears that name.
LEMMA NamedScope ==
  ASSUME IInv, NInv, NEW c \in Calls, DatasetChanging(c), Op(c) # "destroy",
         Has(Name(c)), NEW what, NEW version, Did(c, {<<what, ds[Name(c)].id, version>>}),
         \A n \in Names : Has(n)' => Has(n) /\ ds'[n].id = ds[n].id
  PROVE  NInv'
<1> DEFINE id == ds[Name(c)].id
<1>1. Was(Name(c), id)
  BY WorksFrame DEF NInv
<1>2. \A e \in {<<what, id, version>>} : e[2] = id
  OBVIOUS
<1>3. \A e \in {<<what, id, version>>} : Was(Name(c), e[2])
  BY <1>1, <1>2
<1> HIDE DEF id
<1>4. Did(c, {<<what, id, version>>})
  BY DEF id
<1> QED BY <1>3, <1>4, OneDatasetScope

LEMMA SetScope ==
  ASSUME IInv, NInv, NEW c \in Calls, SetProperty(c)
  PROVE  NInv'
<1>1. DatasetChanging(c) /\ pc[c] = "set" /\ TypeOK
  BY DEF DatasetChanging, SetProperty, IInv
<1>2. Op(c) # "destroy" /\ Name(c) \in Names
  BY <1>1, WorksFrame DEF Fits
<1>3. PICK outcome \in Outcomes :
        Works(c, outcome,
          /\ Present(Name(c)) /\ ds[Name(c)].version < MaxWrites
          /\ ds' = [ds EXCEPT ![Name(c)].version = @ + 1]
          /\ Did(c, {<<"set", ds[Name(c)].id, ds[Name(c)].version + 1>>})
          /\ UNCHANGED ids,
          Answer(c, "ok"))
  BY DEF SetProperty
<1>4. CASE outcome = "failed"
  BY <1>1, <1>3, <1>4, FailedScope DEF Works, NoEffect
<1>5. CASE outcome # "failed"
  <2>1. /\ Present(Name(c))
        /\ ds' = [ds EXCEPT ![Name(c)].version = @ + 1]
        /\ Did(c, {<<"set", ds[Name(c)].id, ds[Name(c)].version + 1>>})
    BY <1>3, <1>5 DEF Works
  <2>2. ds[Name(c)] \in Dataset /\ Has(Name(c))
    BY <1>1, <1>2, <2>1, PresentFacts DEF Present, Has
  <2>3. \A n \in Names : Has(n)' => Has(n) /\ ds'[n].id = ds[n].id
    BY <1>1, <2>1, <2>2 DEF TypeOK, DatasetTypeOK, Dataset, Has
  <2> QED BY <1>1, <1>2, <2>1, <2>2, <2>3, NamedScope
<1> QED BY <1>4, <1>5

LEMMA MountingScope ==
  ASSUME IInv, NInv, NEW c \in Calls, DatasetChanging(c), pc[c] \in {"mount", "unmount"},
         NEW outcome \in Outcomes, NEW on \in BOOLEAN, NEW what,
         Mounting(c, outcome, on, what)
  PROVE  NInv'
<1>1. Op(c) # "destroy" /\ Name(c) \in Names /\ TypeOK
  BY WorksFrame DEF Fits
<1>2. CASE outcome = "failed"
  BY <1>2, FailedScope DEF Mounting, Works, NoEffect
<1>3. CASE outcome # "failed"
  <2>1. /\ Present(Name(c))
        /\ ds' = [ds EXCEPT ![Name(c)].mounted = on]
        /\ Did(c, {<<what, ds[Name(c)].id, 0>>})
    BY <1>3 DEF Mounting, Works
  <2>2. ds[Name(c)] \in Dataset /\ Has(Name(c))
    BY <1>1, <2>1, PresentFacts DEF Present, Has
  <2>3. \A n \in Names : Has(n)' => Has(n) /\ ds'[n].id = ds[n].id
    BY <1>1, <2>1, <2>2 DEF TypeOK, DatasetTypeOK, Dataset, Has
  <2> QED BY <1>1, <2>1, <2>2, <2>3, NamedScope
<1> QED BY <1>2, <1>3

LEMMA DestroyScope ==
  ASSUME IInv, NInv, NEW c \in Calls, DestroyDataset(c)
  PROVE  NInv'
<1>1. DatasetChanging(c) /\ pc[c] = "destroy" /\ TypeOK
  BY DEF DatasetChanging, DestroyDataset, IInv
<1>2. /\ Op(c) = "destroy" /\ Name(c) \in Names /\ req' = req
      /\ pc[c] # "idle" /\ answer[c] = "none"
      /\ \A d \in Calls \ {c} : UNCHANGED Control(d)
  BY <1>1, WorksFrame, Asked DEF Fits
<1> DEFINE below   == {n \in Under[Name(c)] : ds[n] # Absent}
           victims == {Name(c)} \cup below
<1>3. PICK outcome \in Outcomes, gone \in SUBSET Names :
        /\ gone \subseteq victims
        /\ outcome = "ok" => gone = victims
        /\ Works(c, outcome,
             /\ Present(Name(c))
             /\ req[c].recursive \/ below = {}
             /\ ds' = [n \in Names |-> IF n \in gone THEN Absent ELSE ds[n]]
             /\ Did(c, {<<"destroyed", ds[n].id, 0>> : n \in gone})
             /\ UNCHANGED ids,
             Answer(c, "ok"))
  BY DEF DestroyDataset
<1>4. CASE outcome = "failed"
  BY <1>1, <1>3, <1>4, FailedScope DEF Works, NoEffect
<1>5. CASE outcome # "failed"
  <2>1. /\ Present(Name(c)) /\ (req[c].recursive \/ below = {})
        /\ ds' = [n \in Names |-> IF n \in gone THEN Absent ELSE ds[n]]
        /\ Did(c, {<<"destroyed", ds[n].id, 0>> : n \in gone})
        /\ IF outcome = "ok" THEN Answer(c, "ok") ELSE Answer(c, "failed")
    BY <1>3, <1>5 DEF Works
  <2>0. ds[Name(c)] # Absent
    BY <2>1 DEF Present
  <2>2. /\ effects[c] \subseteq effects'[c]
        /\ effects'[c] \ effects[c] \subseteq {<<"destroyed", ds[n].id, 0>> : n \in gone}
    BY <1>1, <2>1, DidMore, OnlyDid
  <2>3. {<<"destroyed", ds[n].id, 0>> : n \in gone} \subseteq effects'[c]
    <3> DEFINE T      == SUBSET (Effect \X Nat \X Nat)
               things == {<<"destroyed", ds[n].id, 0>> : n \in gone}
    <3>1. effects \in [Calls -> T] /\ Did(c, things)
      BY <1>1, <2>1 DEF TypeOK, CallTypeOK
    <3> HIDE DEF T, things
    <3>2. things \subseteq effects'[c]
      BY <3>1 DEF Did
    <3> QED BY <3>2 DEF things
  <2>4. \A n, id : Was(n, id) => Was(n, id)'
    BY <1>2, <2>2, WasStays
  <2>5. ASSUME NEW n \in gone PROVE n \in Scope(c) /\ Was(n, ds[n].id)
    <3>1. n \in Names /\ Has(n)
      <4>1. n = Name(c) \/ ds[n] # Absent
        BY <1>3
      <4> QED BY <1>2, <2>0, <4>1 DEF Has
    <3>2. n \in Scope(c)
      BY <1>2, <1>3, <2>1 DEF Scope
    <3> QED BY <3>1, <3>2 DEF NInv
  <2>6. Op(c)' = Op(c) /\ Scope(c)' = Scope(c) /\ Name(c)' = Name(c) /\ OwnScope(c)
    BY <1>2 DEF Op, Scope, Name, NInv
  <2>7. ASSUME NEW e \in effects'[c] PROVE \E n \in Scope(c) : Was(n, e[2])'
    <3>1. PICK n \in Scope(c) : Was(n, e[2])
      <4>1. CASE e \in effects[c]
        BY <1>2, <2>6, <4>1 DEF OwnScope, DatasetOps
      <4>2. CASE e \notin effects[c]
        <5>1. PICK n \in gone : e = <<"destroyed", ds[n].id, 0>>
          BY <2>2, <4>2
        <5>2. e[2] = ds[n].id
          BY <5>1
        <5> QED BY <2>5, <5>2
      <4> QED BY <4>1, <4>2
    <3>2. PICK id : id = e[2]
      OBVIOUS
    <3>3. Was(n, id)'
      BY <2>4, <3>1, <3>2
    <3> QED BY <2>6, <3>1, <3>2, <3>3
  <2>8. ASSUME answer'[c] = "ok" PROVE \E e \in effects'[c] : Was(Name(c), e[2])'
    <3>1. Name(c) \in gone
      <4>1. outcome = "ok" \/ Answer(c, "failed")
        BY <2>1
      <4>2. outcome = "ok"
        BY <1>1, <2>8, <4>1, AnswerFacts
      <4> QED BY <1>3, <4>2
    <3>2. PICK n, id, e :
            n = Name(c) /\ id = ds[n].id /\ e = <<"destroyed", id, 0>>
      OBVIOUS
    <3>3. e \in effects'[c] /\ e[2] = id
      BY <2>3, <3>1, <3>2
    <3>4. Was(n, id)
      BY <2>5, <3>1, <3>2
    <3>5. Was(n, id)'
      BY <2>4, <3>4
    <3>6. Name(c)' = n
      BY <2>6, <3>2
    <3> QED BY <3>3, <3>5, <3>6 DEF Was
  <2>9. OwnScope(c)'
    BY <2>6, <2>7, <2>8 DEF OwnScope
  <2>10. \A n \in Names : Has(n)' => Has(n) /\ ds'[n].id = ds[n].id
    BY <2>1 DEF Has
  <2> QED BY <1>2, <2>2, <2>9, <2>10, OneScope
<1> QED BY <1>4, <1>5

LEMMA DatasetChangingScope ==
  ASSUME IInv, NInv, NEW c \in Calls, DatasetChanging(c)
  PROVE  NInv'
<1>1. CASE MountDataset(c)
  BY <1>1, MountingScope DEF MountDataset
<1>2. CASE UnmountDataset(c)
  BY <1>2, MountingScope DEF UnmountDataset
<1> QED BY <1>1, <1>2, CreateScope, DestroyScope, SetScope DEF DatasetChanging

LEMMA AloneScope ==
  ASSUME NInv, UNCHANGED <<callVars, datasetVars>>
  PROVE  NInv'
<1> USE DEF callVars, datasetVars, Has, Was, Name, Op, Scope
<1>1. \A n, id : Was(n, id)' <=> Was(n, id)
  OBVIOUS
<1>2. \A c \in Calls : OwnScope(c)' <=> OwnScope(c)
  BY DEF OwnScope
<1> QED BY <1>1, <1>2 DEF NInv

LEMMA InitScope == Init => NInv
<1> SUFFICES ASSUME Init PROVE NInv
  OBVIOUS
<1>1. \A n \in Names : Has(n) => FirstId[n] # 0 /\ ds[n].id = FirstId[n]
  BY DEF Init, InitDataset, Has
<1> QED BY <1>1 DEF Init, InitCalls, NInv, Was

LEMMA NextScope == IInv /\ NInv /\ [Next]_vars => NInv'
<1> SUFFICES ASSUME IInv, NInv, [Next]_vars PROVE NInv'
  OBVIOUS
<1>1. CASE UNCHANGED vars
  BY <1>1, AloneScope DEF vars
<1>2. ASSUME NEW c \in Calls, NEW r \in Asks[c],
             \/ PoolEndpoint(c, r) /\ UNCHANGED datasetVars
             \/ DatasetEndpoint(c, r) /\ UNCHANGED stateSeen
      PROVE  NInv'
  BY <1>2, EndpointScope
<1>3. ASSUME NEW c \in Calls, PoolStep(c) /\ PoolMoves PROVE NInv'
  BY <1>3, PoolStepScope
<1>4. ASSUME NEW c \in Calls, DatasetStep(c) PROVE NInv'
  BY <1>4, DatasetReadingScope, DatasetChangingScope
     DEF DatasetStep, DatasetReading, DatasetChanging
<1>5. CASE (PoolChanges \/ ScrubEnds) /\ UNCHANGED datasetVars
  BY <1>5, AloneScope DEF PoolChanges, ScrubEnds
<1> QED BY <1>1, <1>2, <1>3, <1>4, <1>5 DEF Next

\* Whatever calls interleave and whichever commands fail or are killed after their
\* work, a call that answers with success has itself done what was asked of it, to
\* the dataset it was asked about, and no call has done anything else or touched a
\* dataset outside its scope (PoolService and DatasetService).
THEOREM AnswersCorrect == Spec => []AnswersAreTrue
<1>1. ASSUME IInv, NInv, NEW c \in Calls
      PROVE  /\ answer[c] = "ok" /\ Op(c) \in DOMAIN Promise =>
                  \E e \in effects[c] :
                    /\ e[1] = Promise[Op(c)]
                    /\ Op(c) \in DatasetOps => Was(Name(c), e[2])
             /\ \A e \in effects[c] :
                  /\ Op(c) \in DOMAIN Promise /\ e[1] = Promise[Op(c)]
                  /\ Op(c) \in DatasetOps => \E n \in Scope(c) : Was(n, e[2])
  <2>1. /\ answer[c] = "ok" /\ Op(c) \in DOMAIN Promise =>
             \E e \in effects[c] : e[1] = Promise[Op(c)]
        /\ \A e \in effects[c] : Op(c) \in DOMAIN Promise /\ e[1] = Promise[Op(c)]
    BY <1>1 DEF IInv, CallInv, Changes
  <2>2. pc[c] = "idle" => effects[c] = {} /\ answer[c] = "none"
    BY <1>1 DEF IInv, CallInv
  <2>3. pc[c] # "idle" => OwnScope(c)
    BY <1>1 DEF NInv
  <2>4. CASE Op(c) = "destroy"
    BY <2>1, <2>2, <2>3, <2>4 DEF OwnScope
  <2>5. CASE Op(c) # "destroy"
    <3>1. Scope(c) = {Name(c)}
      BY <2>5 DEF Scope
    <3> QED BY <2>1, <2>2, <2>3, <3>1 DEF OwnScope
  <2> QED BY <2>4, <2>5
<1>2. IInv /\ NInv => AnswersAreTrue
  BY <1>1 DEF AnswersAreTrue
<1> QED BY <1>2, InitInv, NextInv, InitScope, NextScope, PTL DEF Spec

===============================================================================
