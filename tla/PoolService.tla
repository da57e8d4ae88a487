------------------------------ MODULE PoolService ------------------------------
(***************************************************************************)
(* Calls on a ZFS pool: PoolService (backend/zfs_operations/services/      *)
(* pool_service.py) behind backend/api/routers/pool_router.py.  Each       *)
(* endpoint is an action that begins a call, each zpool command an action  *)
(* with the code up to the next command.                                   *)
(***************************************************************************)
EXTENDS ZfsCalls

VARIABLES stateSeen     \* the state get_pool and list_pools read, or "UNKNOWN"

PoolOps == {"get_pool", "health", "list_pools", "iostat", "history", "start", "stop",
            "export", "import", "scrub_status", "performance", "arc"}

PoolCommands == {"status", "properties", "capacity", "detail", "errors", "scan",
                 "scrub", "unscrub", "export", "import", "pools", "report"}

InitPool == stateSeen = [c \in Calls |-> "UNKNOWN"]

-----------------------------------------------------------------------------
(* Endpoints of the pool router. *)

PoolRequest(c, r, op, command) ==
  /\ r.op = op
  /\ Begin(c, r, command)
  /\ UNCHANGED <<poolVars, stateSeen>>

GetPoolRequest(c, r)  == PoolRequest(c, r, "get_pool", "status")
HealthRequest(c, r)   == PoolRequest(c, r, "health", "detail")
ListRequest(c, r)     == PoolRequest(c, r, "list_pools", "pools")
IostatRequest(c, r)   == PoolRequest(c, r, "iostat", "report")
HistoryRequest(c, r)  == PoolRequest(c, r, "history", "report")
StartRequest(c, r)    == PoolRequest(c, r, "start", "status")
StopRequest(c, r)     == PoolRequest(c, r, "stop", "scan")
ExportRequest(c, r)   == PoolRequest(c, r, "export", "status")
ImportRequest(c, r)   == PoolRequest(c, r, "import", "import")

ScrubStatusRequest(c, r)  == PoolRequest(c, r, "scrub_status", "scan")
PerformanceRequest(c, r)  == PoolRequest(c, r, "performance", "report")

\* `cat` is not a command the executor runs.
ArcRequest(c, r) ==
  /\ r.op = "arc"
  /\ pc[c] = "idle"
  /\ req' = [req EXCEPT ![c] = r]
  /\ pc' = [pc EXCEPT ![c] = "answered"]
  /\ answer' = [answer EXCEPT ![c] = "error"]
  /\ UNCHANGED <<poolVars, effects, before, stateSeen>>

PoolEndpoint(c, r) ==
  \/ GetPoolRequest(c, r) \/ HealthRequest(c, r) \/ ListRequest(c, r)
  \/ IostatRequest(c, r) \/ HistoryRequest(c, r)
  \/ StartRequest(c, r) \/ StopRequest(c, r)
  \/ ExportRequest(c, r) \/ ImportRequest(c, r)
  \/ ScrubStatusRequest(c, r) \/ PerformanceRequest(c, r) \/ ArcRequest(c, r)

-----------------------------------------------------------------------------
(* Reading. *)

\* The command answers and the call goes on, or it fails, as it may at any time
\* and does when the pool is away, and so does the call.
ReadThen(c, next) ==
  \/ imported /\ next
  \/ Answer(c, "failed") /\ UNCHANGED stateSeen

\* _get_pool_status.
PoolStatus(c) ==
  /\ pc[c] = "status"
  /\ ReadThen(c, Goto(c, "properties") /\ stateSeen' = [stateSeen EXCEPT ![c] = state])
  /\ NoEffect

PoolProperties(c) ==
  /\ pc[c] = "properties"
  /\ ReadThen(c, Goto(c, "capacity") /\ UNCHANGED stateSeen)
  /\ NoEffect

\* The end of get_pool and what its caller does with the pool.
PoolCapacity(c) ==
  /\ pc[c] = "capacity"
  /\ ReadThen(c, /\ CASE Op(c) = "get_pool" -> Answer(c, "ok")
                      [] Op(c) = "export"   -> Goto(c, "export")
                      [] Op(c) = "start"    -> IF stateSeen[c] = "ONLINE"
                                               THEN Goto(c, "scan") ELSE Answer(c, "failed")
                 /\ UNCHANGED stateSeen)
  /\ NoEffect

\* _get_detailed_pool_status.
DetailedStatus(c) ==
  /\ pc[c] = "detail"
  /\ ReadThen(c, Goto(c, "errors") /\ UNCHANGED stateSeen)
  /\ NoEffect

PoolErrors(c) ==
  /\ pc[c] = "errors"
  /\ ReadThen(c, Goto(c, "scan") /\ UNCHANGED stateSeen)
  /\ NoEffect

\* list_pools: every pool is listed as ONLINE.
ListPools(c) ==
  /\ pc[c] = "pools"
  /\ \/ Answer(c, "ok") /\ stateSeen' = [stateSeen EXCEPT ![c] = "ONLINE"]
     \/ Answer(c, "failed") /\ UNCHANGED stateSeen
  /\ NoEffect

\* get_iostat and get_pool_history: one command and the parsing of its answer.
PoolReport(c) ==
  /\ pc[c] = "report"
  /\ \/ imported /\ Answer(c, "ok")
     \/ Answer(c, IF Op(c) = "performance" THEN "error" ELSE "failed")
  /\ UNCHANGED stateSeen
  /\ NoEffect

\* _get_scrub_status.  A start goes on when it cannot tell whether one runs.
ScrubStatus(c) ==
  /\ pc[c] = "scan"
  /\ \/ /\ imported
        /\ CASE Op(c) = "start"  -> IF scrub = 0 THEN Goto(c, "scrub") ELSE Answer(c, "failed")
             [] Op(c) = "stop"   -> IF scrub = 0 THEN Answer(c, "failed") ELSE Goto(c, "unscrub")
             [] OTHER            -> Answer(c, "ok")
     \/ CASE Op(c) = "start"        -> Goto(c, "scrub")
          [] Op(c) = "scrub_status" -> Answer(c, "error")
          [] OTHER                  -> Answer(c, "failed")
  /\ UNCHANGED stateSeen
  /\ NoEffect

-----------------------------------------------------------------------------
(* Changing the pool. *)

\* The last command of a call.
Concludes(c, outcome, work) ==
  /\ IF outcome = "failed" THEN NoEffect ELSE work
  /\ Answer(c, IF outcome = "ok" THEN "ok" ELSE "failed")
  /\ UNCHANGED stateSeen

StartScrub(c) ==
  /\ pc[c] = "scrub"
  /\ \E outcome \in Outcomes :
       Concludes(c, outcome,
         /\ imported /\ scrub = 0 /\ scrubs < MaxScrubs
         /\ scrub' = scrubs + 1
         /\ scrubs' = scrubs + 1
         /\ Did(c, {<<"started", scrubs + 1, 0>>})
         /\ UNCHANGED <<imported, state>>)

\* It stops the scrub that runs by now, not the one the call saw.
StopScrub(c) ==
  /\ pc[c] = "unscrub"
  /\ \E outcome \in Outcomes :
       Concludes(c, outcome,
         /\ imported /\ scrub # 0
         /\ scrub' = 0
         /\ Did(c, {<<"stopped", scrub, 0>>})
         /\ UNCHANGED <<imported, state, scrubs>>)

ExportPool(c) ==
  /\ pc[c] = "export"
  /\ \E outcome \in Outcomes :
       Concludes(c, outcome,
         /\ imported
         /\ imported' = FALSE
         /\ Did(c, {<<"exported", 0, 0>>})
         /\ UNCHANGED <<state, scrub, scrubs>>)

ImportPool(c) ==
  /\ pc[c] = "import"
  /\ \E outcome \in Outcomes :
       Concludes(c, outcome,
         /\ ~imported
         /\ imported' = TRUE
         /\ Did(c, {<<"imported", 0, 0>>})
         /\ UNCHANGED <<state, scrub, scrubs>>)

PoolStep(c) ==
  \/ PoolStatus(c) \/ PoolProperties(c) \/ PoolCapacity(c)
  \/ DetailedStatus(c) \/ PoolErrors(c) \/ ListPools(c) \/ PoolReport(c) \/ ScrubStatus(c)
  \/ StartScrub(c) \/ StopScrub(c) \/ ExportPool(c) \/ ImportPool(c)

-----------------------------------------------------------------------------
(* The pool by itself. *)

PoolChanges ==
  /\ state' \in States \ {state}
  /\ UNCHANGED <<imported, scrub, scrubs, callVars, stateSeen>>

ScrubEnds ==
  /\ imported /\ scrub # 0
  /\ scrub' = 0
  /\ UNCHANGED <<imported, state, scrubs, callVars, stateSeen>>
===============================================================================
