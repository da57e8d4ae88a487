------------------------------ MODULE MCZfsHost ------------------------------
(* A pool with one dataset and one below it; a call of any kind and two that *)
(* change something.                                                         *)
EXTENDS ZfsHost, TLC

CONSTANTS c1, c2, c3, top, sub

MCUnder == top :> {sub} @@ sub :> {}
MCFirstId == top :> 1 @@ sub :> 2

MCChanges ==
  [op : {"start", "stop", "export", "import"}]
    \cup [op : {"create", "set"}, name : {sub}]
    \cup [op : {"destroy"}, name : {top}, recursive : BOOLEAN]
    \cup [op : {"destroy"}, name : {sub}, recursive : {FALSE}]

MCRequests ==
  MCChanges
    \cup [op : {"get_pool", "health", "list_pools", "iostat", "history", "list",
             "scrub_status", "performance", "arc"}]
    \cup [op : {"get", "monitor", "usage", "mount", "unmount"}, name : {sub}]

MCAsks ==
  c1 :> MCRequests
    @@ c2 :> {r \in MCChanges : r.op \in {"destroy", "set", "stop", "export", "start"}}
    @@ c3 :> {r \in MCChanges : r.op \in {"create"}}
===============================================================================
