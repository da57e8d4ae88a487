-------------------------- MODULE MCSnapshotTransfer --------------------------
(* Two snapshots of one dataset, and one of another dataset whose directory  *)
(* is that of the first: a/b_c@x and a_b/c@x both become a_b_c_x.             *)
EXTENDS SnapshotTransfer, TLC

CONSTANTS t1, t2, d1, d2, s1, s2, s3, p1, p2

MCDatasetOf == s1 :> d1 @@ s2 :> d1 @@ s3 :> d2
MCMountPoint == s1 :> p1 @@ s2 :> p2 @@ s3 :> p1
MCTaken == s1 :> 0 @@ s2 :> 1 @@ s3 :> 0
MCFiles == 0 :> 1 @@ 1 :> 2

MCRequests ==
  [method : {"rsync"}, snap : Snapshots]
    \cup [method : {"zfs_send", "remote_rsync", "remote_zfs_send"}, snap : {s3}]

Alike == Permutations(Transfers)
===============================================================================
