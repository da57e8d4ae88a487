------------------------ MODULE MCMigrationIntegrity ------------------------
(* One new file to transfer over a target that holds an old one.             *)
EXTENDS MigrationIntegrity, TLC

CONSTANTS c1, c2, c3, m1, m2, f1, f2

MCFirstSource == f1 :> 1 @@ f2 :> 0
MCFirstTarget == f1 :> 0 @@ f2 :> 1

MCRequests ==
  [op : {"safety", "resume", "checksums", "verify", "verify_endpoint", "dry_run"}, id : {m1}]
    \cup [op : {"checkpoint"}, id : {m1, m2}] \cup [op : {"resume"}, id : {m2}]
    \cup [op : {"key"}, port : Ports]

MCAsks ==
  c1 :> {r \in MCRequests : r.op # "verify"}
    @@ c2 :> {r \in MCRequests : r.op \in {"safety", "resume"} /\ r.id = m1}
    @@ c3 :> {r \in MCRequests : r.op = "verify"}

MCFirstKnown == {[p \in Ports |-> 0], [p \in Ports |-> IF p = Default THEN 1 ELSE 0]}
===============================================================================
