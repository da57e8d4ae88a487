--------------------------- MODULE SnapshotTransferProofs ---------------------------
(***************************************************************************)
(* Proofs about SnapshotTransfer, for any transfers, snapshots, files and  *)
(* bounds.                                                                 *)
(*                                                                         *)
(* A transfer that met no other one has its clone and its directory to     *)
(* itself, so what it made is still there at its next command.  A clone is *)
(* held by a transfer that will take it away, unless there is one of the   *)
(* reasons the property names: a step that takes a holder away without the *)
(* clone finds the clone in use, and its reader is a holder too.           *)
(***************************************************************************)
EXTENDS SnapshotTransfer, TLAPS

Holding == {"mount", "undo", "parent", "copy", "copying", "cleanup"}

Shape(t) ==
  /\ pc[t] = "idle" => t \notin met /\ req[t] = None
  /\ pc[t] \in Busy \cup {"done", "count"} => req[t] \in Requests
  /\ pc[t] \in {"mkdir", "unclone", "clone", "mount", "undo", "cleanup", "remove"} =>
       req[t].method = "rsync"
  /\ pc[t] \in {"parent", "copy", "copying"} =>
       req[t].method \in {"rsync", "remote_rsync"}
  /\ pc[t] \in {"create", "send"} => req[t].method \in {"zfs_send", "remote_zfs_send"}
  /\ reads[t] # None => pc[t] = "copying" /\ req[t].method = "rsync"
  /\ pc[t] \in {"cleanup", "remove"} => answer[t] # "none"

\* t has its clone and its directory to itself.
Alone(t) ==
  /\ Source(t) \notin orphans
  /\ \A d \in Datasets \ {Source(t)} : ~MountedAt(d, Dir(t))
  /\ \A u \in Transfers \ {t} :
       UsesClone(u) => /\ Source(u) # Source(t) /\ Dir(u) # Dir(t)
                       /\ ~MountedAt(Source(t), Dir(u)) /\ reads[u] # Source(t)

Unmet(t) == UsesClone(t) /\ t \notin met

Failed(t) == \E command \in Busy : <<t, command>> \in faulted

Mine(t, place) == clone[Source(t)] = [data |-> Taken[req[t].snap], at |-> place]

\* What the commands of t have done so far, as long as t meets nobody.
Work(t) ==
  /\ pc[t] = "clone" => clone[Source(t)] = None \/ Failed(t)
  /\ pc[t] = "mount" => Mine(t, None)
  /\ pc[t] = "undo" => Failed(t)
  /\ pc[t] \in {"parent", "copy", "copying"} => Mine(t, Dir(t))
  /\ pc[t] = "copying" => reads[t] = Source(t) /\ seen[t] = Taken[req[t].snap]

\* What t leaves behind, once its verdict is known.
Outcome(t) ==
  pc[t] \in {"cleanup", "remove", "done", "count"} /\ t \notin met =>
    /\ answer[t] = "ok" /\ req[t].method \in FromSnapshot => received[t] = Taken[req[t].snap]
    /\ answer[t] = "failed" /\ req[t].method = "rsync" => Failed(t)

\* Only a local rsync empties a target, and its source is one that can be counted.
Verification(t) ==
  /\ received[t] = Empty => pc[t] # "idle" /\ req[t].method = "rsync"
  /\ pc[t] = "count" /\ req[t].method = "rsync" =>
       counted[t] # 0 \/ <<t, "done">> \in faulted
  /\ verdict[t] # "none" => pc[t] = "done"
  /\ verdict[t] = "same" /\ {<<t, "done">>, <<t, "count">>} \cap faulted = {} =>
       received[t] # Empty

TransferInv(t) ==
  /\ Shape(t)
  /\ Unmet(t) => Alone(t) /\ Work(t)
  /\ Outcome(t)
  /\ Verification(t)

Faulty(d) ==
  \E t \in Transfers : /\ req[t] # None /\ Source(t) = d
                       /\ {<<t, "undo">>, <<t, "cleanup">>} \cap faulted # {}

Excused(d) == crashes # 0 \/ Collide(d) \/ Faulty(d)

Holds(t, d) == UsesClone(t) /\ Source(t) = d /\ pc[t] \in Holding

\* Who mounted the clone of d where it is.
Mounter(t, d) ==
  /\ req[t] # None /\ Source(t) = d /\ Dir(t) = clone[d].at
  /\ Holds(t, d) \/ t \in met

Kept(d) ==
  /\ clone[d] # None => \E t \in Transfers : Holds(t, d)
  /\ clone[d] # None /\ clone[d].at # None => \E t \in Transfers : Mounter(t, d)
  /\ \A t \in Transfers : UsesClone(t) /\ MountedAt(d, Dir(t)) => Source(t) = d
  /\ \A t \in Transfers : reads[t] = d => Source(t) = d

CloneInv(d) == Excused(d) \/ Kept(d)

IInv ==
  /\ TypeOK
  /\ crashes = 0 => orphans = {}
  /\ \A t \in Transfers : TransferInv(t)
  /\ \A d \in Datasets : CloneInv(d)

-----------------------------------------------------------------------------
(* Names. *)

LEMMA RequestTyped ==
  ASSUME TypeOK, NEW t \in Transfers, req[t] \in Requests
  PROVE  /\ req[t].snap \in Snapshots /\ req[t] # None
         /\ req[t].method \in {"rsync", "zfs_send", "remote_rsync", "remote_zfs_send"}
         /\ Source(t) \in Datasets /\ Source(t) # None
         /\ Dir(t) \in Dirs /\ Dir(t) # None
         /\ Taken[req[t].snap] \in Versions
<1>1. req[t] \in Request /\ req[t] # None
  BY TransferAssumption
<1>2. /\ req[t].snap \in Snapshots
      /\ req[t].method \in {"rsync", "zfs_send", "remote_rsync", "remote_zfs_send"}
  BY <1>1 DEF Request
<1> QED BY <1>1, <1>2, TransferAssumption DEF Source, Dir

LEMMA UserTyped ==
  ASSUME IInv, NEW t \in Transfers, UsesClone(t)
  PROVE  /\ req[t] \in Requests /\ req[t].snap \in Snapshots /\ req[t] # None
         /\ Source(t) \in Datasets /\ Source(t) # None
         /\ Dir(t) \in Dirs /\ Dir(t) # None
         /\ Taken[req[t].snap] \in Versions
<1>1. req[t] \in Requests /\ TypeOK
  BY DEF IInv, TransferInv, Shape, UsesClone, InFlight
<1> QED BY <1>1, RequestTyped

LEMMA Data ==
  /\ Versions \subseteq Content /\ Empty \in Content /\ Other \in Content
  /\ 0 \in Versions /\ Empty \notin Versions /\ Other \notin Versions /\ Empty # Other
  /\ \A v \in Content, p \in Dirs \cup {None} : [data |-> v, at |-> p] \in Clone
  /\ \A k \in Clone : /\ k.data \in Content /\ k.at \in Dirs \cup {None}
                      /\ k # None
BY TransferAssumption DEF Content, Versions, Clone

-----------------------------------------------------------------------------
(* What a step of t leaves to the others. *)

\* t cannot be a holder any more only if the clone is gone, or in use, or its own
\* destroy failed.
Released(t) ==
  \/ clone'[Source(t)] = None
  \/ {<<t, "undo">>, <<t, "cleanup">>} \cap faulted' # {}
  \/ InUse(Source(t)) /\ pc[t] # "copying"

Frame(t) ==
  /\ UNCHANGED <<met, orphans, crashes, req>>
  /\ faulted \subseteq faulted'
  /\ \A u \in Transfers \ {t} :
       UNCHANGED <<pc[u], reads[u], seen[u], received[u], answer[u], counted[u], verdict[u]>>
  /\ UsesClone(t)' => UsesClone(t)
  /\ \A d \in Datasets :
       reads'[t] = d => reads[t] = d \/ (UsesClone(t) /\ MountedAt(d, Dir(t)))
  /\ \A d \in Datasets : clone'[d] # clone[d] =>
       UsesClone(t) /\ (d = Source(t) \/ MountedAt(d, Dir(t)))
  /\ \A d \in Datasets : clone'[d] # None =>
       \/ clone[d] # None /\ clone'[d].at = clone[d].at
       \/ d = Source(t) /\ Holds(t, d)' /\ clone'[d].at \in {None, Dir(t)}
  /\ Holds(t, Source(t)) => Holds(t, Source(t))' \/ Released(t)

LEMMA MountsFrame ==
  ASSUME IInv, NEW t \in Transfers, Frame(t), NEW d \in Datasets, NEW p \in Dirs,
         MountedAt(d, p)'
  PROVE  MountedAt(d, p) \/ (UsesClone(t) /\ d = Source(t) /\ p = Dir(t))
<1>1. clone'[d] # None /\ clone'[d].at = p /\ p # None
  BY TransferAssumption DEF MountedAt
<1>2. CASE clone[d] # None /\ clone'[d].at = clone[d].at
  BY <1>1, <1>2 DEF MountedAt
<1>3. CASE d = Source(t) /\ Holds(t, d)' /\ clone'[d].at \in {None, Dir(t)}
  BY <1>1, <1>3 DEF Frame, Holds
<1> QED BY <1>1, <1>2, <1>3 DEF Frame

LEMMA AloneStays ==
  ASSUME IInv, NEW t \in Transfers, Frame(t), NEW u \in Transfers, Unmet(u)'
  PROVE  Unmet(u) /\ Alone(u)' /\ (u # t => clone'[Source(u)] = clone[Source(u)])
<1>1. /\ req' = req /\ met' = met /\ orphans' = orphans
      /\ \A x \in Transfers \ {t} : pc'[x] = pc[x] /\ reads'[x] = reads[x]
      /\ UsesClone(t)' => UsesClone(t)
  BY DEF Frame
<1>2. \A x \in Transfers : UsesClone(x)' => UsesClone(x)
  BY <1>1 DEF UsesClone, InFlight
<1>3. Unmet(u) /\ Alone(u)
  BY <1>1, <1>2 DEF Unmet, IInv, TransferInv
<1>4. /\ \A x \in Transfers : Source(x)' = Source(x) /\ Dir(x)' = Dir(x)
      /\ Source(u) \in Datasets /\ Dir(u) \in Dirs
  BY <1>1, <1>3, UserTyped DEF Source, Dir, Unmet
<1>5. \A d \in Datasets \ {Source(u)} : ~MountedAt(d, Dir(u))'
  <2> SUFFICES ASSUME NEW d \in Datasets \ {Source(u)}, MountedAt(d, Dir(u))'
               PROVE  FALSE
    OBVIOUS
  <2>1. MountedAt(d, Dir(u)) \/ (UsesClone(t) /\ d = Source(t) /\ Dir(u) = Dir(t))
    <3>1. clone'[d] # None /\ clone'[d].at = Dir(u)
      BY <1>4 DEF MountedAt
    <3> QED BY <1>4, <3>1, MountsFrame DEF MountedAt
  <2> QED BY <1>3, <2>1 DEF Alone
<1>6. ASSUME NEW x \in Transfers \ {u}, UsesClone(x)'
      PROVE  /\ Source(x)' # Source(u) /\ Dir(x)' # Dir(u)
             /\ ~MountedAt(Source(u), Dir(x))' /\ reads'[x] # Source(u)
  <2>1. /\ UsesClone(x) /\ Source(x) # Source(u) /\ Dir(x) # Dir(u)
        /\ ~MountedAt(Source(u), Dir(x)) /\ reads[x] # Source(u)
        /\ Dir(x) \in Dirs
    BY <1>2, <1>3, <1>6, UserTyped DEF Alone
  <2>2. ~MountedAt(Source(u), Dir(x))'
    <3> SUFFICES ASSUME clone'[Source(u)] # None, clone'[Source(u)].at = Dir(x)
                 PROVE  FALSE
      BY <1>1, <1>4 DEF MountedAt, Source, Dir
    <3>1. \/ MountedAt(Source(u), Dir(x))
          \/ UsesClone(t) /\ Source(u) = Source(t) /\ Dir(x) = Dir(t)
      BY <1>4, <2>1, MountsFrame DEF MountedAt
    <3>2. u = t
      BY <1>3, <2>1, <3>1 DEF Alone
    <3> QED BY <2>1, <3>1, <3>2
  <2>3. reads'[x] # Source(u)
    BY <1>1, <1>4, <2>1 DEF Frame
  <2> QED BY <1>4, <2>1, <2>2, <2>3
<1>7. Alone(u)'
  BY <1>1, <1>3, <1>4, <1>5, <1>6 DEF Alone, MountedAt, Source, Dir
<1>8. u # t => clone'[Source(u)] = clone[Source(u)]
  BY <1>3, <1>4 DEF Alone, Frame
<1> QED BY <1>3, <1>7, <1>8

LEMMA OthersKeep ==
  ASSUME IInv, NEW t \in Transfers, Frame(t), NEW u \in Transfers \ {t}
  PROVE  TransferInv(u)'
<1>1. /\ UNCHANGED <<pc[u], reads[u], seen[u], received[u], answer[u], counted[u], verdict[u]>>
      /\ UNCHANGED <<met, req>> /\ faulted \subseteq faulted'
  BY DEF Frame
<1>2. TransferInv(u)
  BY DEF IInv
<1>3. Shape(u)' /\ Outcome(u)' /\ Verification(u)'
  BY <1>1, <1>2 DEF TransferInv, Shape, Outcome, Verification, Failed
<1>4. ASSUME Unmet(u)' PROVE Alone(u)' /\ Work(u)'
  <2>1. Unmet(u) /\ Alone(u)' /\ clone'[Source(u)] = clone[Source(u)]
    BY <1>4, AloneStays
  <2> QED BY <1>1, <1>2, <2>1 DEF TransferInv, Work, Failed, Mine, Source, Dir
<1> QED BY <1>3, <1>4 DEF TransferInv

LEMMA CloneInvStays ==
  ASSUME IInv, NEW t \in Transfers, Frame(t), NEW d \in Datasets
  PROVE  CloneInv(d)'
<1> SUFFICES ASSUME ~Excused(d)' PROVE Kept(d)'
  BY DEF CloneInv
<1>1. /\ UNCHANGED <<met, orphans, crashes, req>> /\ faulted \subseteq faulted'
      /\ \A u \in Transfers : Source(u)' = Source(u) /\ Dir(u)' = Dir(u)
      /\ \A u \in Transfers \ {t} : pc'[u] = pc[u] /\ reads'[u] = reads[u]
      /\ UsesClone(t)' => UsesClone(t)
  BY DEF Frame, Source, Dir
<1>2. ~Excused(d)
  BY <1>1 DEF Excused, Collide, Faulty, Source, Dir
<1>3. Kept(d) /\ crashes = 0 /\ orphans = {} /\ \A u \in Transfers : Shape(u)
  BY <1>2 DEF IInv, CloneInv, Excused, TransferInv
<1>4. \A u \in Transfers \ {t} : /\ UsesClone(u)' = UsesClone(u)
                                 /\ Holds(u, d)' = Holds(u, d)
  BY <1>1 DEF UsesClone, InFlight, Holds, Source
\* Who shares a clone or a directory has met somebody.
<1>5. ASSUME NEW u \in Transfers, NEW w \in Transfers, u # w, UsesClone(u), UsesClone(w),
             Source(u) = Source(w) \/ Dir(u) = Dir(w)
      PROVE  u \in met /\ w \in met
  BY <1>5 DEF IInv, TransferInv, Unmet, Alone
<1>6. ASSUME Holds(t, d), ~Holds(t, d)', clone'[d] # None
      PROVE  t \in met /\ \E w \in Transfers \ {t} : Holds(w, d)'
  <2>1. Source(t) = d /\ UsesClone(t) /\ req[t] # None
    BY <1>6, UserTyped DEF Holds
  <2>2. InUse(d) /\ pc[t] # "copying"
    BY <1>1, <1>6, <2>1 DEF Frame, Released, Excused, Faulty, Source
  <2>3. PICK w \in Transfers : pc[w] = "copying" /\ reads[w] = d
    BY <1>3, <2>2 DEF InUse
  <2>4. reads[w] # None
    BY <2>3, TransferAssumption
  <2>5. Holds(w, d)
    BY <1>3, <2>3, <2>4 DEF Kept, Shape, Holds, UsesClone, InFlight, Busy, Holding
  <2>6. w # t /\ UsesClone(w) /\ Source(w) = d
    BY <2>2, <2>3, <2>5 DEF Holds
  <2> QED BY <1>4, <1>5, <2>1, <2>5, <2>6
<1>7. ASSUME clone'[d] # None PROVE \E u \in Transfers : Holds(u, d)'
  <2>1. CASE clone[d] # None
    <3>1. PICK h \in Transfers : Holds(h, d)
      BY <1>3, <2>1 DEF Kept
    <3> QED BY <1>4, <1>6, <1>7, <3>1
  <2>2. CASE clone[d] = None
    BY <1>7, <2>2 DEF Frame
  <2> QED BY <2>1, <2>2
<1>8. ASSUME clone'[d] # None, clone'[d].at # None
      PROVE  \E u \in Transfers : Mounter(u, d)'
  <2>1. CASE clone[d] # None /\ clone'[d].at = clone[d].at
    <3>1. PICK u \in Transfers : Mounter(u, d)
      BY <1>3, <1>8, <2>1 DEF Kept
    <3>2. Holds(u, d)' \/ u \in met
      BY <1>4, <1>6, <1>8, <3>1 DEF Mounter
    <3> QED BY <1>1, <2>1, <3>1, <3>2 DEF Mounter
  <2>2. CASE d = Source(t) /\ Holds(t, d)' /\ clone'[d].at \in {None, Dir(t)}
    <3>1. req[t] # None
      BY <1>1, <2>2, UserTyped DEF Holds
    <3> QED BY <1>1, <1>8, <2>2, <3>1 DEF Mounter
  <2> QED BY <1>8, <2>1, <2>2 DEF Frame
<1>9. ASSUME NEW w \in Transfers, UsesClone(w)', MountedAt(d, Dir(w))'
      PROVE  Source(w) = d
  <2>1. UsesClone(w) /\ Dir(w) \in Dirs
    BY <1>1, <1>4, <1>9, UserTyped
  <2>2. clone'[d] # None /\ clone'[d].at = Dir(w)
    BY <1>1, <1>9 DEF MountedAt
  <2>3. \/ MountedAt(d, Dir(w))
        \/ UsesClone(t) /\ d = Source(t) /\ Dir(w) = Dir(t)
    BY <2>1, <2>2, MountsFrame DEF MountedAt
  <2>4. CASE MountedAt(d, Dir(w))
    BY <1>3, <2>1, <2>4 DEF Kept
  <2>5. CASE UsesClone(t) /\ d = Source(t) /\ Dir(w) = Dir(t) /\ Source(w) # d
    <3>1. t \in met /\ w \in met
      BY <1>5, <2>1, <2>5
    <3> QED BY <1>2, <2>5, <3>1 DEF Excused, Collide
  <2> QED BY <2>3, <2>4, <2>5
<1>10. ASSUME NEW w \in Transfers, reads'[w] = d PROVE Source(w) = d
  <2>1. reads[w] = d \/ (UsesClone(w) /\ MountedAt(d, Dir(w)))
    BY <1>1, <1>10 DEF Frame
  <2> QED BY <1>3, <2>1 DEF Kept
<1> QED BY <1>1, <1>7, <1>8, <1>9, <1>10 DEF Kept

\* The step of one transfer: only its own state is left to prove.
LEMMA OneStep ==
  ASSUME IInv, NEW t \in Transfers, Frame(t), TypeOK', Shape(t)', Outcome(t)',
         Unmet(t) => Work(t)', Verification(t)'
  PROVE  IInv'
<1>1. TransferInv(t)'
  BY AloneStays DEF TransferInv
<1>2. (crashes = 0 => orphans = {})'
  BY DEF IInv, Frame
<1> QED BY <1>1, <1>2, OthersKeep, CloneInvStays DEF IInv

-----------------------------------------------------------------------------
(* Commands that leave the clones alone. *)

LEMMA QuietFrame ==
  ASSUME IInv, NEW t \in Transfers,
         UNCHANGED <<clone, met, orphans, crashes, req>>, faulted \subseteq faulted',
         \A u \in Transfers \ {t} :
           UNCHANGED <<pc[u], reads[u], seen[u], received[u], answer[u], counted[u], verdict[u]>>,
         pc[t] \notin Busy => pc'[t] \notin Busy,
         reads'[t] \in {reads[t], None},
         UsesClone(t) /\ pc[t] \in Holding => pc'[t] \in Holding \/ Released(t)
  PROVE  Frame(t)
<1>1. UsesClone(t)' => UsesClone(t)
  BY DEF UsesClone, InFlight
<1>2. \A d \in Datasets : reads'[t] = d => reads[t] = d
  BY TransferAssumption
<1>3. \A d \in Datasets : clone'[d] # None => clone[d] # None /\ clone'[d].at = clone[d].at
  OBVIOUS
<1>4. Holds(t, Source(t)) => Holds(t, Source(t))' \/ Released(t)
  BY DEF Holds, UsesClone, InFlight, Source, Busy, Holding
<1> QED BY <1>1, <1>2, <1>3, <1>4 DEF Frame

\* What Goto and Return do.
LEMMA PcFacts ==
  ASSUME TypeOK, NEW t \in Transfers, NEW state,
         pc' = [pc EXCEPT ![t] = state]
  PROVE  /\ pc'[t] = state
         /\ \A u \in Transfers \ {t} : pc'[u] = pc[u]
         /\ state \in Busy \cup {"idle", "done", "count", "dead"} =>
              pc' \in [Transfers -> Busy \cup {"idle", "done", "count", "dead"}]
BY DEF TypeOK

LEMMA AnswerFacts ==
  ASSUME TypeOK, NEW t \in Transfers, NEW verb,
         answer' = [answer EXCEPT ![t] = verb]
  PROVE  /\ answer'[t] = verb
         /\ \A u \in Transfers \ {t} : answer'[u] = answer[u]
         /\ verb \in {"none", "ok", "failed"} =>
              answer' \in [Transfers -> {"none", "ok", "failed"}]
BY DEF TypeOK

LEMMA FaultFacts ==
  ASSUME TypeOK, NEW t \in Transfers, NEW state \in Busy \cup {"done", "count"},
         faulted' = faulted \cup {<<t, state>>}
  PROVE  /\ faulted \subseteq faulted' /\ <<t, state>> \in faulted'
         /\ faulted' \subseteq Transfers \X (Busy \cup {"done", "count"})
BY DEF TypeOK

LEMMA RefusedFacts ==
  ASSUME TypeOK, NEW t \in Transfers, pc[t] \in Busy, NEW possible, Refused(t, possible)
  PROVE  /\ faulted \subseteq faulted' /\ clone' = clone
         /\ possible => <<t, pc[t]>> \in faulted' /\ Failed(t)'
         /\ faulted' \subseteq Transfers \X (Busy \cup {"done", "count"})
BY FaultFacts DEF TypeOK, Refused, Failed

LEMMA MkdirInv ==
  ASSUME IInv, NEW t \in Transfers, MakeMountPoint(t)
  PROVE  IInv'
<1>1. /\ TypeOK /\ TransferInv(t) /\ pc[t] = "mkdir" /\ pc[t] \in Busy
      /\ UNCHANGED <<live, exists, received, reads, seen, req, orphans, crashes,
                     counted, verdict, met>>
  BY DEF MakeMountPoint, IInv, copyVars, verifyVars, Busy
<1>2. CASE Goto(t, "unclone") /\ UNCHANGED <<clone, faulted>>
  <2>1. /\ pc'[t] = "unclone" /\ answer' = answer
        /\ \A u \in Transfers \ {t} : pc'[u] = pc[u]
        /\ pc' \in [Transfers -> Busy \cup {"idle", "done", "count", "dead"}]
    BY <1>1, <1>2, PcFacts DEF Goto, Busy
  <2>2. Frame(t)
    BY <1>1, <1>2, <2>1, QuietFrame DEF Busy, Holding
  <2>3. TypeOK'
    BY <1>1, <1>2, <2>1 DEF TypeOK
  <2>4. Shape(t)' /\ Outcome(t)' /\ Verification(t)' /\ Work(t)'
    BY <1>1, <1>2, <2>1 DEF TransferInv, Shape, Outcome, Verification, Work, Busy
  <2> QED BY <2>2, <2>3, <2>4, OneStep
<1>3. CASE Return(t, "failed") /\ Refused(t, TRUE)
  <2>1. /\ pc'[t] = "done" /\ answer'[t] = "failed"
        /\ \A u \in Transfers \ {t} : pc'[u] = pc[u] /\ answer'[u] = answer[u]
        /\ pc' \in [Transfers -> Busy \cup {"idle", "done", "count", "dead"}]
        /\ answer' \in [Transfers -> {"none", "ok", "failed"}]
    BY <1>1, <1>3, PcFacts, AnswerFacts DEF Return
  <2>2. /\ faulted \subseteq faulted' /\ clone' = clone /\ Failed(t)'
        /\ faulted' \subseteq Transfers \X (Busy \cup {"done", "count"})
    BY <1>1, <1>3, RefusedFacts
  <2>3. Frame(t)
    BY <1>1, <2>1, <2>2, QuietFrame DEF Busy, Holding
  <2>4. TypeOK'
    BY <1>1, <2>1, <2>2 DEF TypeOK
  <2>5. Shape(t)' /\ Outcome(t)' /\ Verification(t)' /\ Work(t)'
    BY <1>1, <2>1, <2>2 DEF TransferInv, Shape, Outcome, Verification, Work, Busy
  <2> QED BY <2>3, <2>4, <2>5, OneStep
<1> QED BY <1>2, <1>3 DEF MakeMountPoint

LEMMA ParentInv ==
  ASSUME IInv, NEW t \in Transfers, MakeTargetParent(t)
  PROVE  IInv'
<1>1. /\ TypeOK /\ TransferInv(t) /\ pc[t] = "parent"
      /\ UNCHANGED <<clone, live, exists, received, reads, seen, req, orphans, crashes,
                     counted, verdict, faulted, met, answer>>
      /\ pc' = [pc EXCEPT ![t] = "copy"]
  BY DEF MakeTargetParent, Goto, IInv, copyVars, verifyVars
<1>2. /\ pc'[t] = "copy" /\ \A u \in Transfers \ {t} : pc'[u] = pc[u]
      /\ pc' \in [Transfers -> Busy \cup {"idle", "done", "count", "dead"}]
  BY <1>1, PcFacts DEF Busy
<1>3. Frame(t)
  BY <1>1, <1>2, QuietFrame DEF Busy, Holding
<1>4. TypeOK'
  BY <1>1, <1>2 DEF TypeOK
<1>5. Shape(t)' /\ Outcome(t)' /\ Verification(t)'
  BY <1>1, <1>2 DEF TransferInv, Shape, Outcome, Verification, Busy
<1>6. Unmet(t) => Work(t)'
  BY <1>1, <1>2 DEF TransferInv, Work, Mine, Source, Dir
<1> QED BY <1>3, <1>4, <1>5, <1>6, OneStep

LEMMA CreateInv ==
  ASSUME IInv, NEW t \in Transfers, CreateTarget(t)
  PROVE  IInv'
<1>1. /\ TypeOK /\ TransferInv(t) /\ pc[t] = "create"
      /\ UNCHANGED <<clone, live, received, reads, seen, req, orphans, crashes,
                     counted, verdict, met, answer>>
      /\ pc' = [pc EXCEPT ![t] = "send"]
  BY DEF CreateTarget, Goto, IInv, copyVars, verifyVars
<1>2. /\ pc'[t] = "send" /\ \A u \in Transfers \ {t} : pc'[u] = pc[u]
      /\ pc' \in [Transfers -> Busy \cup {"idle", "done", "count", "dead"}]
  BY <1>1, PcFacts DEF Busy
<1>3. /\ faulted \subseteq faulted' /\ exists' \in [Transfers -> BOOLEAN]
      /\ faulted' \subseteq Transfers \X (Busy \cup {"done", "count"})
  <2>1. faulted' = faulted \/ faulted' = faulted \cup {<<t, "create">>}
    BY DEF CreateTarget
  <2>2. faulted \subseteq faulted' /\ faulted' \subseteq Transfers \X (Busy \cup {"done", "count"})
    BY <1>1, <2>1, FaultFacts DEF TypeOK, Busy
  <2>3. exists' \in [Transfers -> BOOLEAN]
    BY <1>1 DEF CreateTarget, TypeOK
  <2> QED BY <2>2, <2>3
<1>4. Frame(t)
  BY <1>1, <1>2, <1>3, QuietFrame DEF Busy, Holding
<1>5. TypeOK'
  BY <1>1, <1>2, <1>3 DEF TypeOK
<1>6. Shape(t)' /\ Outcome(t)' /\ Verification(t)' /\ Work(t)'
  BY <1>1, <1>2, <1>3 DEF TransferInv, Shape, Outcome, Verification, Work, Busy
<1> QED BY <1>4, <1>5, <1>6, OneStep

LEMMA SendInv ==
  ASSUME IInv, NEW t \in Transfers, SendSnapshot(t)
  PROVE  IInv'
<1>1. /\ TypeOK /\ TransferInv(t) /\ pc[t] = "send" /\ req[t] \in Requests
      /\ UNCHANGED <<clone, live, reads, seen, req, orphans, crashes,
                     counted, verdict, met>>
  BY DEF SendSnapshot, IInv, copyVars, verifyVars, TransferInv, Shape, Busy
<1>2. Taken[req[t].snap] \in Content /\ Taken[req[t].snap] # Empty
  BY <1>1, RequestTyped, Data
<1>3. ASSUME NEW verb \in {"ok", "failed"}, Return(t, verb),
             received' \in [Transfers -> Content], exists' \in [Transfers -> BOOLEAN],
             \A u \in Transfers \ {t} : received'[u] = received[u],
             verb = "ok" => received'[t] = Taken[req[t].snap],
             received'[t] = Empty => received[t] = Empty,
             faulted \subseteq faulted',
             faulted' \subseteq Transfers \X (Busy \cup {"done", "count"})
      PROVE  IInv'
  <2>1. /\ pc'[t] = "done" /\ answer'[t] = verb
        /\ \A u \in Transfers \ {t} : pc'[u] = pc[u] /\ answer'[u] = answer[u]
        /\ pc' \in [Transfers -> Busy \cup {"idle", "done", "count", "dead"}]
        /\ answer' \in [Transfers -> {"none", "ok", "failed"}]
    BY <1>1, <1>3, PcFacts, AnswerFacts DEF Return
  <2>2. Frame(t)
    BY <1>1, <1>3, <2>1, QuietFrame DEF Busy, Holding
  <2>3. TypeOK'
    BY <1>1, <1>3, <2>1 DEF TypeOK
  <2>4. Shape(t)' /\ Outcome(t)' /\ Verification(t)' /\ Work(t)'
    BY <1>1, <1>3, <2>1 DEF TransferInv, Shape, Outcome, Verification, Work, Busy
  <2> QED BY <2>2, <2>3, <2>4, OneStep
<1>4. CASE /\ exists' = [exists EXCEPT ![t] = TRUE]
           /\ received' = [received EXCEPT ![t] = Taken[req[t].snap]]
           /\ Return(t, "ok") /\ UNCHANGED faulted
  <2>1. /\ received' \in [Transfers -> Content] /\ exists' \in [Transfers -> BOOLEAN]
        /\ \A u \in Transfers \ {t} : received'[u] = received[u]
        /\ received'[t] = Taken[req[t].snap]
    BY <1>1, <1>2, <1>4 DEF TypeOK
  <2>2. received'[t] # Empty
    BY <1>2, <2>1
  <2>3. /\ faulted \subseteq faulted'
        /\ faulted' \subseteq Transfers \X (Busy \cup {"done", "count"})
    BY <1>1, <1>4 DEF TypeOK
  <2> QED BY <1>3, <1>4, <2>1, <2>2, <2>3
<1>5. CASE /\ Return(t, "failed")
           /\ faulted' = IF exists[t] THEN faulted ELSE faulted \cup {<<t, "send">>}
           /\ UNCHANGED <<exists, received>>
  <2>1. /\ faulted \subseteq faulted'
        /\ faulted' \subseteq Transfers \X (Busy \cup {"done", "count"})
    BY <1>1, <1>5 DEF TypeOK, Busy
  <2> QED BY <1>1, <1>3, <1>5, <2>1 DEF TypeOK
<1> QED BY <1>4, <1>5 DEF SendSnapshot

-----------------------------------------------------------------------------
(* The verification. *)

LEMMA CountFacts ==
  ASSUME TypeOK, NEW t \in Transfers, pc[t] \in {"done", "count"}, NEW content \in Content,
         NEW n, CountFiles(t, content, n)
  PROVE  /\ faulted \subseteq faulted'
         /\ faulted' \subseteq Transfers \X (Busy \cup {"done", "count"})
         /\ \/ content \in Versions => n = Files[content]
            \/ <<t, pc[t]>> \in faulted'
<1>1. CASE n = 0 /\ faulted' = faulted \cup {<<t, pc[t]>>}
  BY <1>1, FaultFacts
<1>2. CASE UNCHANGED faulted /\ (content \in Versions => n = Files[content])
  BY <1>2 DEF TypeOK
<1> QED BY <1>1, <1>2, Data DEF CountFiles

LEMMA CountSourceInv ==
  ASSUME IInv, NEW t \in Transfers, CountSource(t)
  PROVE  IInv'
<1>1. /\ TypeOK /\ TransferInv(t) /\ pc[t] = "done" /\ verdict[t] = "none"
      /\ req[t] \in Requests
      /\ UNCHANGED <<clone, live, exists, received, reads, seen, req, orphans, crashes,
                     verdict, met, answer>>
      /\ pc' = [pc EXCEPT ![t] = "count"]
  BY DEF CountSource, Goto, IInv, copyVars, TransferInv, Shape
<1>2. PICK n \in Counts : /\ CountFiles(t, Countable(t), n)
                          /\ counted' = [counted EXCEPT ![t] = n]
  BY DEF CountSource
<1>3. /\ Countable(t) \in Content /\ n \in Nat
      /\ req[t].method = "rsync" => /\ Countable(t) \in Versions
                                   /\ Files[Countable(t)] # 0
  BY <1>1, <1>2, RequestTyped, Data, TransferAssumption DEF TypeOK, Counts, Countable
<1>4. /\ faulted \subseteq faulted'
      /\ faulted' \subseteq Transfers \X (Busy \cup {"done", "count"})
      /\ req[t].method = "rsync" => n # 0 \/ <<t, "done">> \in faulted'
  BY <1>1, <1>2, <1>3, CountFacts
<1>5. /\ pc'[t] = "count" /\ \A u \in Transfers \ {t} : pc'[u] = pc[u]
      /\ pc' \in [Transfers -> Busy \cup {"idle", "done", "count", "dead"}]
  BY <1>1, PcFacts
<1>6. /\ counted' \in [Transfers -> Nat] /\ counted'[t] = n
      /\ \A u \in Transfers \ {t} : counted'[u] = counted[u]
  BY <1>1, <1>2, <1>3 DEF TypeOK
<1>7. Frame(t)
  BY <1>1, <1>4, <1>5, <1>6, QuietFrame DEF Busy, Holding
<1>8. TypeOK'
  BY <1>1, <1>4, <1>5, <1>6 DEF TypeOK
<1>9. Shape(t)' /\ Verification(t)' /\ Work(t)'
  BY <1>1, <1>4, <1>5, <1>6 DEF TransferInv, Shape, Verification, Work, Busy
<1>10. Outcome(t)'
  BY <1>1, <1>4, <1>5 DEF TransferInv, Outcome, Failed
<1> QED BY <1>7, <1>8, <1>9, <1>10, OneStep

LEMMA CompareInv ==
  ASSUME IInv, NEW t \in Transfers, CompareWithTarget(t)
  PROVE  IInv'
<1>1. /\ TypeOK /\ TransferInv(t) /\ pc[t] = "count"
      /\ UNCHANGED <<clone, live, exists, received, reads, seen, req, orphans, crashes,
                     met, answer>>
      /\ pc' = [pc EXCEPT ![t] = "done"] /\ counted' = [counted EXCEPT ![t] = 0]
  BY DEF CompareWithTarget, Goto, IInv, copyVars
<1>2. PICK n \in Counts :
        /\ CountFiles(t, received[t], n)
        /\ verdict' = [verdict EXCEPT ![t] = IF n = counted[t] THEN "same" ELSE "different"]
  BY DEF CompareWithTarget
<1>3. /\ faulted \subseteq faulted'
      /\ faulted' \subseteq Transfers \X (Busy \cup {"done", "count"})
      /\ received[t] = Empty => n = 0
  <2>1. \/ UNCHANGED faulted /\ (received[t] = Empty => n = 0)
        \/ n = 0 /\ faulted' = faulted \cup {<<t, pc[t]>>}
    BY <1>2, Data DEF CountFiles
  <2>2. CASE UNCHANGED faulted /\ (received[t] = Empty => n = 0)
    BY <1>1, <2>2 DEF TypeOK
  <2>3. CASE n = 0 /\ faulted' = faulted \cup {<<t, pc[t]>>}
    BY <1>1, <2>3, FaultFacts
  <2> QED BY <2>1, <2>2, <2>3
<1>4. /\ pc'[t] = "done" /\ \A u \in Transfers \ {t} : pc'[u] = pc[u]
      /\ pc' \in [Transfers -> Busy \cup {"idle", "done", "count", "dead"}]
  BY <1>1, PcFacts
<1>5. /\ counted' \in [Transfers -> Nat] /\ verdict' \in [Transfers -> {"none", "same", "different"}]
      /\ verdict'[t] = "same" => n = counted[t]
      /\ \A u \in Transfers \ {t} : counted'[u] = counted[u] /\ verdict'[u] = verdict[u]
  BY <1>1, <1>2 DEF TypeOK
<1>6. Frame(t)
  BY <1>1, <1>3, <1>4, <1>5, QuietFrame DEF Busy, Holding
<1>7. TypeOK'
  BY <1>1, <1>3, <1>4, <1>5 DEF TypeOK
<1>8. Shape(t)' /\ Work(t)' /\ Verification(t)'
  BY <1>1, <1>3, <1>4, <1>5 DEF TransferInv, Shape, Verification, Work, Busy
<1>9. Outcome(t)'
  BY <1>1, <1>3, <1>4 DEF TransferInv, Outcome, Failed
<1> QED BY <1>6, <1>7, <1>8, <1>9, OneStep

-----------------------------------------------------------------------------
(* Commands on the clone. *)

LEMMA CloneFrame ==
  ASSUME IInv, NEW t \in Transfers, UsesClone(t),
         UNCHANGED <<met, orphans, crashes, req, reads>>, faulted \subseteq faulted',
         \A u \in Transfers \ {t} :
           UNCHANGED <<pc[u], seen[u], received[u], answer[u], counted[u], verdict[u]>>,
         NEW k, clone' = [clone EXCEPT ![Source(t)] = k],
         \/ k = None
         \/ clone[Source(t)] # None /\ k.at = clone[Source(t)].at
         \/ pc'[t] \in Holding /\ k.at \in {None, Dir(t)},
         pc[t] \in Holding => pc'[t] \in Holding \/ Released(t)
  PROVE  Frame(t)
<1>1. TypeOK /\ Source(t) \in Datasets /\ req[t].method = "rsync"
  BY UserTyped DEF IInv, UsesClone
<1>2. /\ clone'[Source(t)] = k
      /\ \A d \in Datasets \ {Source(t)} : clone'[d] = clone[d]
  BY <1>1 DEF TypeOK
<1>3. pc'[t] \in Holding => UsesClone(t)' /\ Source(t)' = Source(t)
  BY <1>1 DEF UsesClone, InFlight, Source, Busy, Holding
<1>4. Holds(t, Source(t)) => Holds(t, Source(t))' \/ Released(t)
  BY <1>3 DEF Holds
<1>5. \A d \in Datasets : clone'[d] # None =>
        \/ clone[d] # None /\ clone'[d].at = clone[d].at
        \/ d = Source(t) /\ Holds(t, d)' /\ clone'[d].at \in {None, Dir(t)}
  <2> SUFFICES ASSUME NEW d \in Datasets, clone'[d] # None, d = Source(t)
               PROVE  \/ clone[d] # None /\ clone'[d].at = clone[d].at
                      \/ Holds(t, d)' /\ clone'[d].at \in {None, Dir(t)}
    BY <1>2
  <2>1. clone'[d] = k
    BY <1>2
  <2> QED BY <1>3, <2>1 DEF Holds
<1>6. \A u \in Transfers : reads'[u] = reads[u]
  OBVIOUS
<1> QED BY <1>2, <1>4, <1>5, <1>6 DEF Frame

LEMMA CloneTyped ==
  ASSUME TypeOK, NEW t \in Transfers, Source(t) \in Datasets,
         NEW k \in Clone \cup {None}, clone' = [clone EXCEPT ![Source(t)] = k]
  PROVE  clone' \in [Datasets -> Clone \cup {None}] /\ clone'[Source(t)] = k
BY DEF TypeOK

\* An unmet transfer is the only one that could use its clone.
LEMMA NotInUse ==
  ASSUME IInv, NEW t \in Transfers, Unmet(t), pc[t] # "copying"
  PROVE  ~InUse(Source(t))
<1> SUFFICES ASSUME NEW u \in Transfers, pc[u] = "copying", reads[u] = Source(t)
             PROVE  FALSE
  BY DEF InUse, IInv, TransferInv, Alone
<1>1. Source(t) # None /\ u # t
  BY UserTyped DEF Unmet
<1>2. UsesClone(u)
  BY <1>1 DEF IInv, TransferInv, Shape, UsesClone, InFlight, Busy
<1> QED BY <1>1, <1>2 DEF IInv, TransferInv, Alone

LEMMA UncloneInv ==
  ASSUME IInv, NEW t \in Transfers, RemoveOldClone(t)
  PROVE  IInv'
<1>1. /\ TypeOK /\ TransferInv(t) /\ pc[t] = "unclone" /\ pc[t] \in Busy /\ UsesClone(t)
      /\ UNCHANGED <<live, exists, received, reads, seen, req, orphans, crashes,
                     counted, verdict, met, answer>>
      /\ pc' = [pc EXCEPT ![t] = "clone"]
  BY DEF RemoveOldClone, Goto, IInv, copyVars, verifyVars, TransferInv, Shape, UsesClone,
         InFlight, Busy
<1>2. /\ pc'[t] = "clone" /\ \A u \in Transfers \ {t} : pc'[u] = pc[u]
      /\ pc' \in [Transfers -> Busy \cup {"idle", "done", "count", "dead"}]
  BY <1>1, PcFacts DEF Busy
<1>3. Source(t) \in Datasets /\ Source(t)' = Source(t)
  BY <1>1, UserTyped DEF Source
<1>4. CASE DestroyClone(Source(t))
  <2>1. clone' = [clone EXCEPT ![Source(t)] = None] /\ faulted' = faulted
    BY <1>4 DEF DestroyClone
  <2>2. clone' \in [Datasets -> Clone \cup {None}] /\ clone'[Source(t)] = None
    BY <1>1, <1>3, <2>1, CloneTyped
  <2>3. Frame(t)
    BY <1>1, <1>2, <2>1, CloneFrame DEF Holding
  <2>4. TypeOK'
    BY <1>1, <1>2, <2>1, <2>2 DEF TypeOK
  <2>5. Shape(t)' /\ Outcome(t)' /\ Verification(t)'
    BY <1>1, <1>2, <2>1 DEF TransferInv, Shape, Outcome, Verification, Busy
  <2>6. Work(t)'
    BY <1>2, <1>3, <2>2 DEF Work
  <2> QED BY <2>3, <2>4, <2>5, <2>6, OneStep
<1>5. CASE Refused(t, Destroyable(Source(t)))
  <2>1. /\ faulted \subseteq faulted' /\ clone' = clone
        /\ Destroyable(Source(t)) => Failed(t)'
        /\ faulted' \subseteq Transfers \X (Busy \cup {"done", "count"})
    BY <1>1, <1>5, RefusedFacts
  <2>2. Frame(t)
    BY <1>1, <1>2, <2>1, QuietFrame DEF Busy, Holding
  <2>3. TypeOK'
    BY <1>1, <1>2, <2>1 DEF TypeOK
  <2>4. Shape(t)' /\ Outcome(t)' /\ Verification(t)'
    BY <1>1, <1>2, <2>1 DEF TransferInv, Shape, Outcome, Verification, Busy
  <2>5. ASSUME Unmet(t) PROVE Work(t)'
    <3>1. clone[Source(t)] = None \/ Destroyable(Source(t))
      BY <1>1, <2>5, NotInUse DEF Destroyable
    <3> QED BY <1>2, <1>3, <2>1, <3>1 DEF Work
  <2> QED BY <2>2, <2>3, <2>4, <2>5, OneStep
<1> QED BY <1>4, <1>5 DEF RemoveOldClone

LEMMA CloneSnapshotInv ==
  ASSUME IInv, NEW t \in Transfers, CloneSnapshot(t)
  PROVE  IInv'
<1>1. /\ TypeOK /\ TransferInv(t) /\ pc[t] = "clone" /\ pc[t] \in Busy /\ UsesClone(t)
      /\ UNCHANGED <<live, exists, received, reads, seen, req, orphans, crashes,
                     counted, verdict, met>>
  BY DEF CloneSnapshot, IInv, copyVars, verifyVars, TransferInv, Shape, UsesClone,
         InFlight, Busy
<1>2. /\ Source(t) \in Datasets /\ Source(t)' = Source(t) /\ Taken[req[t].snap] \in Versions
  BY <1>1, UserTyped DEF Source
<1>3. CASE /\ clone' = [clone EXCEPT ![Source(t)] = [data |-> Taken[req[t].snap], at |-> None]]
           /\ Goto(t, "mount") /\ UNCHANGED faulted
  <2> DEFINE k == [data |-> Taken[req[t].snap], at |-> None]
  <2>1. /\ pc'[t] = "mount" /\ \A u \in Transfers \ {t} : pc'[u] = pc[u]
        /\ pc' \in [Transfers -> Busy \cup {"idle", "done", "count", "dead"}]
        /\ answer' = answer
    BY <1>1, <1>3, PcFacts DEF Goto, Busy
  <2>2. k \in Clone /\ k.at = None
    BY <1>2, Data
  <2>3. clone' \in [Datasets -> Clone \cup {None}] /\ clone'[Source(t)] = k
    BY <1>1, <1>2, <1>3, <2>2, CloneTyped
  <2>4. Frame(t)
    BY <1>1, <1>3, <2>1, <2>2, CloneFrame DEF Holding
  <2>5. TypeOK'
    BY <1>1, <1>3, <2>1, <2>3 DEF TypeOK
  <2>6. Shape(t)' /\ Outcome(t)' /\ Verification(t)'
    BY <1>1, <1>3, <2>1 DEF TransferInv, Shape, Outcome, Verification, Busy
  <2>7. Work(t)'
    BY <1>1, <1>2, <2>1, <2>3 DEF Work, Mine
  <2> QED BY <2>4, <2>5, <2>6, <2>7, OneStep
<1>4. CASE Return(t, "failed") /\ Refused(t, clone[Source(t)] = None)
  <2>1. /\ pc'[t] = "done" /\ answer'[t] = "failed"
        /\ \A u \in Transfers \ {t} : pc'[u] = pc[u] /\ answer'[u] = answer[u]
        /\ pc' \in [Transfers -> Busy \cup {"idle", "done", "count", "dead"}]
        /\ answer' \in [Transfers -> {"none", "ok", "failed"}]
    BY <1>1, <1>4, PcFacts, AnswerFacts DEF Return
  <2>2. /\ faulted \subseteq faulted' /\ clone' = clone
        /\ clone[Source(t)] = None => Failed(t)'
        /\ faulted' \subseteq Transfers \X (Busy \cup {"done", "count"})
    BY <1>1, <1>4, RefusedFacts
  <2>3. Frame(t)
    BY <1>1, <2>1, <2>2, QuietFrame DEF Busy, Holding
  <2>4. TypeOK'
    BY <1>1, <2>1, <2>2 DEF TypeOK
  <2>5. Shape(t)' /\ Verification(t)' /\ Work(t)'
    BY <1>1, <2>1, <2>2 DEF TransferInv, Shape, Verification, Work, Busy
  <2>6. t \notin met => Failed(t)'
    BY <1>1, <2>2 DEF TransferInv, Unmet, Work, Failed
  <2>7. Outcome(t)'
    BY <1>1, <2>1, <2>6 DEF Outcome
  <2> QED BY <2>3, <2>4, <2>5, <2>7, OneStep
<1> QED BY <1>3, <1>4 DEF CloneSnapshot

LEMMA MountInv ==
  ASSUME IInv, NEW t \in Transfers, SetMountPoint(t)
  PROVE  IInv'
<1>1. /\ TypeOK /\ TransferInv(t) /\ pc[t] = "mount" /\ pc[t] \in Busy /\ UsesClone(t)
      /\ UNCHANGED <<live, exists, received, reads, seen, req, orphans, crashes,
                     counted, verdict, met, answer>>
  BY DEF SetMountPoint, Goto, IInv, copyVars, verifyVars, TransferInv, Shape, UsesClone,
         InFlight, Busy
<1>2. /\ Source(t) \in Datasets /\ Source(t)' = Source(t)
      /\ Dir(t) \in Dirs /\ Dir(t)' = Dir(t)
  BY <1>1, UserTyped DEF Source, Dir
<1>3. CASE /\ Destroyable(Source(t))
           /\ clone' = [clone EXCEPT ![Source(t)].at = Dir(t)]
           /\ Goto(t, "parent") /\ UNCHANGED faulted
  <2> DEFINE k == [clone[Source(t)] EXCEPT !.at = Dir(t)]
  <2>1. /\ pc'[t] = "parent" /\ \A u \in Transfers \ {t} : pc'[u] = pc[u]
        /\ pc' \in [Transfers -> Busy \cup {"idle", "done", "count", "dead"}]
    BY <1>1, <1>3, PcFacts DEF Goto, Busy
  <2>2. clone[Source(t)] \in Clone
    BY <1>1, <1>2, <1>3 DEF TypeOK, Destroyable
  <2>3. k \in Clone /\ k.at = Dir(t) /\ k.data = clone[Source(t)].data
    BY <1>2, <2>2 DEF Clone
  <2>4. clone' = [clone EXCEPT ![Source(t)] = k]
    BY <1>3
  <2>5. clone' \in [Datasets -> Clone \cup {None}] /\ clone'[Source(t)] = k
    BY <1>1, <1>2, <2>3, <2>4, CloneTyped
  <2>6. Frame(t)
    BY <1>1, <1>3, <2>1, <2>3, <2>4, CloneFrame DEF Holding
  <2>7. TypeOK'
    BY <1>1, <1>3, <2>1, <2>5 DEF TypeOK
  <2>8. Shape(t)' /\ Outcome(t)' /\ Verification(t)'
    BY <1>1, <1>3, <2>1 DEF TransferInv, Shape, Outcome, Verification, Busy
  <2>9. ASSUME Unmet(t) PROVE Work(t)'
    <3>1. clone[Source(t)] = [data |-> Taken[req[t].snap], at |-> None]
      BY <1>1, <2>9 DEF TransferInv, Work, Mine
    <3>2. k = [data |-> Taken[req[t].snap], at |-> Dir(t)]
      BY <3>1
    <3> QED BY <1>1, <1>2, <2>1, <2>5, <3>2 DEF Work, Mine
  <2> QED BY <2>6, <2>7, <2>8, <2>9, OneStep
<1>4. CASE Goto(t, "undo") /\ Refused(t, Destroyable(Source(t)))
  <2>1. /\ pc'[t] = "undo" /\ \A u \in Transfers \ {t} : pc'[u] = pc[u]
        /\ pc' \in [Transfers -> Busy \cup {"idle", "done", "count", "dead"}]
    BY <1>1, <1>4, PcFacts DEF Goto, Busy
  <2>2. /\ faulted \subseteq faulted' /\ clone' = clone
        /\ Destroyable(Source(t)) => Failed(t)'
        /\ faulted' \subseteq Transfers \X (Busy \cup {"done", "count"})
    BY <1>1, <1>4, RefusedFacts
  <2>3. Frame(t)
    BY <1>1, <2>1, <2>2, QuietFrame DEF Busy, Holding
  <2>4. TypeOK'
    BY <1>1, <2>1, <2>2 DEF TypeOK
  <2>5. Shape(t)' /\ Outcome(t)' /\ Verification(t)'
    BY <1>1, <2>1, <2>2 DEF TransferInv, Shape, Outcome, Verification, Busy
  <2>6. ASSUME Unmet(t) PROVE Work(t)'
    <3>1. Mine(t, None)
      BY <1>1, <2>6 DEF TransferInv, Work
    <3>2. clone[Source(t)] # None
      BY <1>1, <3>1, UserTyped, Data DEF Mine
    <3>3. Failed(t)'
      BY <1>1, <2>2, <2>6, <3>2, NotInUse DEF Destroyable
    <3> QED BY <2>1, <3>3 DEF Work
  <2> QED BY <2>3, <2>4, <2>5, <2>6, OneStep
<1> QED BY <1>3, <1>4 DEF SetMountPoint

\* A destroy at the end of a transfer: it works, or there is a reason.
LEMMA DestroyEnds ==
  ASSUME IInv, NEW t \in Transfers, UsesClone(t), pc[t] \in {"undo", "cleanup"},
         UNCHANGED <<live, exists, received, reads, seen, req, orphans, crashes,
                     counted, verdict, met>>,
         DestroyClone(Source(t)) \/ Refused(t, Destroyable(Source(t))),
         pc' \in [Transfers -> Busy \cup {"idle", "done", "count", "dead"}],
         answer' \in [Transfers -> {"none", "ok", "failed"}],
         \A u \in Transfers \ {t} : pc'[u] = pc[u] /\ answer'[u] = answer[u],
         pc'[t] \in {"done", "remove"},
         pc'[t] = "remove" => pc[t] = "cleanup",
         answer'[t] = IF pc[t] = "undo" THEN "failed" ELSE answer[t]
  PROVE  IInv'
<1>1. TypeOK /\ TransferInv(t) /\ pc[t] \in Busy /\ Source(t) \in Datasets
      /\ req[t] \in Requests
  BY UserTyped DEF IInv, Busy
<1>2. /\ Frame(t) /\ clone' \in [Datasets -> Clone \cup {None}]
      /\ faulted \subseteq faulted'
      /\ faulted' \subseteq Transfers \X (Busy \cup {"done", "count"})
  <2>1. CASE DestroyClone(Source(t))
    <3>1. clone' = [clone EXCEPT ![Source(t)] = None] /\ faulted' = faulted
      BY <2>1 DEF DestroyClone
    <3>2. clone' \in [Datasets -> Clone \cup {None}] /\ clone'[Source(t)] = None
      BY <1>1, <3>1, CloneTyped
    <3>3. Frame(t)
      BY <3>1, <3>2, CloneFrame DEF Released
    <3> QED BY <1>1, <3>1, <3>2, <3>3 DEF TypeOK
  <2>2. CASE Refused(t, Destroyable(Source(t)))
    <3>1. /\ faulted \subseteq faulted' /\ clone' = clone
          /\ Destroyable(Source(t)) => <<t, pc[t]>> \in faulted'
          /\ faulted' \subseteq Transfers \X (Busy \cup {"done", "count"})
      BY <1>1, <2>2, RefusedFacts
    <3>2. Released(t)
      BY <3>1 DEF Released, Destroyable
    <3>3. Frame(t)
      BY <1>1, <3>1, <3>2, QuietFrame
    <3> QED BY <1>1, <3>1, <3>3 DEF TypeOK
  <2> QED BY <2>1, <2>2
<1>3. TypeOK'
  BY <1>1, <1>2 DEF TypeOK
<1>4. Shape(t)' /\ Verification(t)' /\ Work(t)'
  BY <1>1, <1>2 DEF TransferInv, Shape, Verification, Work, Busy
<1>5. Failed(t) => Failed(t)'
  BY <1>2 DEF Failed
<1>6. Outcome(t)'
  BY <1>1, <1>5 DEF TransferInv, Outcome, Unmet, Work
<1> QED BY <1>2, <1>3, <1>4, <1>6, OneStep

LEMMA UndoInv ==
  ASSUME IInv, NEW t \in Transfers, UndoClone(t)
  PROVE  IInv'
<1>1. /\ TypeOK /\ pc[t] = "undo" /\ UsesClone(t) /\ Return(t, "failed")
      /\ UNCHANGED <<live, exists, received, reads, seen, req, orphans, crashes,
                     counted, verdict, met>>
      /\ DestroyClone(Source(t)) \/ Refused(t, Destroyable(Source(t)))
  BY DEF UndoClone, IInv, copyVars, verifyVars, TransferInv, Shape, UsesClone, InFlight, Busy
<1>2. /\ pc'[t] = "done" /\ answer'[t] = "failed"
      /\ \A u \in Transfers \ {t} : pc'[u] = pc[u] /\ answer'[u] = answer[u]
      /\ pc' \in [Transfers -> Busy \cup {"idle", "done", "count", "dead"}]
      /\ answer' \in [Transfers -> {"none", "ok", "failed"}]
  BY <1>1, PcFacts, AnswerFacts DEF Return
<1> QED BY <1>1, <1>2, DestroyEnds

LEMMA CleanUpInv ==
  ASSUME IInv, NEW t \in Transfers, CleanUp(t)
  PROVE  IInv'
<1>1. /\ TypeOK /\ pc[t] = "cleanup" /\ UsesClone(t)
      /\ UNCHANGED <<live, exists, received, reads, seen, req, orphans, crashes,
                     counted, verdict, met, answer>>
      /\ DestroyClone(Source(t)) \/ Refused(t, Destroyable(Source(t)))
      /\ \E state \in {"remove", "done"} : pc' = [pc EXCEPT ![t] = state]
  BY DEF CleanUp, Goto, IInv, copyVars, verifyVars, TransferInv, Shape, UsesClone, InFlight, Busy
<1>2. /\ pc'[t] \in {"remove", "done"} /\ \A u \in Transfers \ {t} : pc'[u] = pc[u]
      /\ pc' \in [Transfers -> Busy \cup {"idle", "done", "count", "dead"}]
  BY <1>1, PcFacts DEF Busy
<1> QED BY <1>1, <1>2, DestroyEnds DEF TypeOK

-----------------------------------------------------------------------------
(* The copy and what comes after it. *)

LEMMA FoundFacts ==
  ASSUME IInv, NEW t \in Transfers, pc[t] = "copy", NEW f \in Found(t)
  PROVE  /\ f[2] \in Content
         /\ \/ f[1] = None
            \/ f[1] \in Datasets /\ UsesClone(t) /\ MountedAt(f[1], Dir(t))
         /\ Unmet(t) => f[1] = Source(t) /\ f[2] = Taken[req[t].snap]
<1>1. TypeOK /\ TransferInv(t) /\ req[t] \in Requests
      /\ req[t].method \in {"rsync", "remote_rsync"} /\ Source(t) \in Datasets
      /\ Source(t) # None /\ Dir(t) # None
  BY RequestTyped DEF IInv, TransferInv, Shape, Busy
<1>2. CASE req[t].method = "remote_rsync"
  <2>1. f = <<None, live[Source(t)]>>
    BY <1>2 DEF Found
  <2> QED BY <1>1, <1>2, <2>1, Data DEF TypeOK, Unmet, UsesClone
<1>3. CASE req[t].method = "rsync"
  <2>1. UsesClone(t)
    BY <1>3 DEF UsesClone, InFlight, Busy
  <2> DEFINE mounted == {d \in Datasets : MountedAt(d, Dir(t))}
  <2>2. f \in IF mounted = {} THEN {<<None, Empty>>}
              ELSE {<<d, clone[d].data>> : d \in mounted}
    BY <1>3 DEF Found
  <2>3. Unmet(t) => mounted = {Source(t)} /\ clone[Source(t)].data = Taken[req[t].snap]
    <3> SUFFICES ASSUME Unmet(t)
                 PROVE  mounted = {Source(t)} /\ clone[Source(t)].data = Taken[req[t].snap]
      OBVIOUS
    <3>1. clone[Source(t)] = [data |-> Taken[req[t].snap], at |-> Dir(t)] /\ Alone(t)
      BY <1>1 DEF TransferInv, Work, Mine
    <3>2. [data |-> Taken[req[t].snap], at |-> Dir(t)] \in Clone
      BY <1>1, <2>1, UserTyped, Data
    <3>3. MountedAt(Source(t), Dir(t))
      BY <3>1, <3>2, Data DEF MountedAt
    <3> QED BY <1>1, <3>1, <3>3 DEF Alone
  <2>4. CASE mounted = {}
    BY <2>2, <2>3, <2>4, Data
  <2>5. CASE mounted # {}
    <3>1. PICK d \in mounted : f = <<d, clone[d].data>>
      BY <2>2, <2>5
    <3>2. clone[d] \in Clone
      BY <1>1, <3>1 DEF TypeOK, MountedAt
    <3> QED BY <2>1, <2>3, <3>1, <3>2, Data
  <2> QED BY <2>4, <2>5
<1> QED BY <1>1, <1>2, <1>3

LEMMA StartCopyInv ==
  ASSUME IInv, NEW t \in Transfers, StartCopy(t)
  PROVE  IInv'
<1>1. /\ TypeOK /\ TransferInv(t) /\ pc[t] = "copy"
      /\ UNCHANGED <<clone, live, exists, req, orphans, crashes, counted, verdict, faulted,
                     met, answer>>
      /\ pc' = [pc EXCEPT ![t] = "copying"]
      /\ received' = [received EXCEPT ![t] = Other]
  BY DEF StartCopy, Goto, IInv, verifyVars
<1>2. PICK f \in Found(t) : /\ reads' = [reads EXCEPT ![t] = f[1]]
                            /\ seen' = [seen EXCEPT ![t] = f[2]]
  BY DEF StartCopy
<1>3. /\ f[2] \in Content
      /\ \/ f[1] = None
         \/ f[1] \in Datasets /\ UsesClone(t) /\ MountedAt(f[1], Dir(t))
      /\ Unmet(t) => f[1] = Source(t) /\ f[2] = Taken[req[t].snap]
  BY <1>1, FoundFacts
<1>4. /\ pc'[t] = "copying" /\ \A u \in Transfers \ {t} : pc'[u] = pc[u]
      /\ pc' \in [Transfers -> Busy \cup {"idle", "done", "count", "dead"}]
  BY <1>1, PcFacts DEF Busy
<1>5. /\ received' \in [Transfers -> Content] /\ received'[t] # Empty
      /\ \A u \in Transfers \ {t} : received'[u] = received[u]
  BY <1>1, Data DEF TypeOK
<1>6. /\ reads'[t] = f[1] /\ seen'[t] = f[2]
      /\ reads' \in [Transfers -> Datasets \cup {None}] /\ seen' \in [Transfers -> Content]
      /\ \A u \in Transfers \ {t} : reads'[u] = reads[u] /\ seen'[u] = seen[u]
  BY <1>1, <1>2, <1>3 DEF TypeOK
<1>7. TypeOK'
  BY <1>1, <1>4, <1>5, <1>6 DEF TypeOK
<1>8. Frame(t)
  <2>1. UsesClone(t)' <=> UsesClone(t)
    BY <1>1, <1>4 DEF UsesClone, InFlight, Busy
  <2>2. Holds(t, Source(t)) => Holds(t, Source(t))'
    BY <1>1, <1>4, <2>1 DEF Holds, Source, Holding
  <2>3. \A d \in Datasets : reads'[t] = d => UsesClone(t) /\ MountedAt(d, Dir(t))
    BY <1>3, <1>6, TransferAssumption
  <2> QED BY <1>1, <1>4, <1>5, <1>6, <2>1, <2>2, <2>3 DEF Frame
<1>9. Shape(t)'
  BY <1>1, <1>3, <1>4, <1>6 DEF TransferInv, Shape, UsesClone, Busy
<1>10. Outcome(t)' /\ Verification(t)'
  BY <1>1, <1>4, <1>5 DEF IInv, TransferInv, Outcome, Verification
<1>11. Unmet(t) => Work(t)'
  BY <1>1, <1>3, <1>4, <1>6 DEF TransferInv, Work, Mine, Source, Dir
<1> QED BY <1>7, <1>8, <1>9, <1>10, <1>11, OneStep

\* What rsync delivers to a transfer that met nobody is what it found.
LEMMA UnmetCopy ==
  ASSUME IInv, NEW t \in Transfers, pc[t] = "copying", Unmet(t)
  PROVE  /\ FoundNow(t) = Taken[req[t].snap] /\ seen[t] = Taken[req[t].snap]
         /\ seen[t] # Empty
<1>1. /\ Mine(t, Dir(t)) /\ reads[t] = Source(t) /\ seen[t] = Taken[req[t].snap]
      /\ req[t].method = "rsync" /\ Source(t) # None /\ Taken[req[t].snap] \in Versions
  BY UserTyped DEF IInv, TransferInv, Work, Unmet, UsesClone
<1>2. FoundNow(t) = clone[reads[t]].data
  BY <1>1 DEF FoundNow
<1> QED BY <1>1, <1>2, Data DEF Mine

LEMMA EndCopyInv ==
  ASSUME IInv, NEW t \in Transfers, EndCopy(t)
  PROVE  IInv'
<1>1. /\ TypeOK /\ TransferInv(t) /\ pc[t] = "copying"
      /\ req[t].method \in {"rsync", "remote_rsync"}
      /\ UNCHANGED <<clone, live, exists, req, orphans, crashes, counted, verdict, met>>
      /\ reads' = [reads EXCEPT ![t] = None] /\ seen' = [seen EXCEPT ![t] = Other]
      /\ pc' = [pc EXCEPT ![t] = IF req[t].method = "rsync" THEN "cleanup" ELSE "done"]
  BY DEF EndCopy, IInv, verifyVars, TransferInv, Shape
<1>2. /\ pc'[t] = IF req[t].method = "rsync" THEN "cleanup" ELSE "done"
      /\ \A u \in Transfers \ {t} : pc'[u] = pc[u]
      /\ pc' \in [Transfers -> Busy \cup {"idle", "done", "count", "dead"}]
  BY <1>1, PcFacts DEF Busy
<1>3. /\ reads' \in [Transfers -> Datasets \cup {None}] /\ seen' \in [Transfers -> Content]
      /\ reads'[t] = None
      /\ \A u \in Transfers \ {t} : reads'[u] = reads[u] /\ seen'[u] = seen[u]
  BY <1>1, Data DEF TypeOK
<1>4. UsesClone(t) <=> req[t].method = "rsync"
  BY <1>1 DEF UsesClone, InFlight, Busy
<1>5. ASSUME NEW verb \in {"ok", "failed"}, answer' = [answer EXCEPT ![t] = verb],
             received' \in [Transfers -> Content],
             received'[t] = Empty => req[t].method = "rsync",
             \A u \in Transfers \ {t} : received'[u] = received[u],
             faulted \subseteq faulted',
             faulted' \subseteq Transfers \X (Busy \cup {"done", "count"}),
             Unmet(t) => IF verb = "ok" THEN received'[t] = Taken[req[t].snap]
                         ELSE Failed(t)'
      PROVE  IInv'
  <2>1. /\ answer'[t] = verb /\ answer' \in [Transfers -> {"none", "ok", "failed"}]
        /\ \A u \in Transfers \ {t} : answer'[u] = answer[u]
    BY <1>1, <1>5, AnswerFacts
  <2>2. Frame(t)
    BY <1>1, <1>2, <1>3, <1>4, <1>5, <2>1, QuietFrame DEF Busy, Holding
  <2>3. TypeOK'
    BY <1>1, <1>2, <1>3, <1>5, <2>1 DEF TypeOK
  <2>4. Shape(t)' /\ Verification(t)' /\ Work(t)'
    BY <1>1, <1>2, <1>3, <1>5, <2>1 DEF TransferInv, Shape, Verification, Work, Busy
  <2>5. Outcome(t)'
    BY <1>1, <1>2, <1>4, <1>5, <2>1 DEF Outcome, Unmet, FromSnapshot
  <2> QED BY <2>2, <2>3, <2>4, <2>5, OneStep
<1>6. CASE /\ req[t].method = "rsync"
           /\ answer' = [answer EXCEPT ![t] = "ok"]
           /\ received' = [received EXCEPT ![t] =
                             IF FoundNow(t) = seen[t] THEN seen[t] ELSE Other]
           /\ UNCHANGED faulted
  <2>1. /\ received' \in [Transfers -> Content]
        /\ received'[t] = IF FoundNow(t) = seen[t] THEN seen[t] ELSE Other
        /\ \A u \in Transfers \ {t} : received'[u] = received[u]
    BY <1>1, <1>6, Data DEF TypeOK
  <2>2. Unmet(t) => received'[t] = Taken[req[t].snap]
    BY <1>1, <2>1, UnmetCopy
  <2> QED BY <1>1, <1>5, <1>6, <2>1, <2>2 DEF TypeOK
<1>7. CASE /\ answer' = [answer EXCEPT ![t] = "failed"]
           /\ faulted' = IF seen[t] = Empty THEN faulted ELSE faulted \cup {<<t, "copying">>}
           /\ UNCHANGED received
  <2>1. /\ faulted \subseteq faulted'
        /\ faulted' \subseteq Transfers \X (Busy \cup {"done", "count"})
        /\ seen[t] # Empty => Failed(t)'
    BY <1>1, <1>7 DEF TypeOK, Busy, Failed
  <2>2. Unmet(t) => Failed(t)'
    BY <1>1, <2>1, UnmetCopy
  <2>3. received'[t] = Empty => req[t].method = "rsync"
    BY <1>1, <1>7 DEF TransferInv, Verification
  <2> QED BY <1>1, <1>5, <1>7, <2>1, <2>2, <2>3 DEF TypeOK
<1> QED BY <1>6, <1>7 DEF EndCopy

LEMMA RemoveInv ==
  ASSUME IInv, NEW t \in Transfers, RemoveMountPoint(t)
  PROVE  IInv'
<1>1. /\ TypeOK /\ TransferInv(t) /\ pc[t] = "remove" /\ UsesClone(t)
      /\ UNCHANGED <<live, exists, received, reads, seen, req, orphans, crashes,
                     counted, verdict, faulted, met, answer>>
      /\ pc' = [pc EXCEPT ![t] = "done"]
  BY DEF RemoveMountPoint, Goto, IInv, copyVars, verifyVars, TransferInv, Shape, UsesClone,
         InFlight, Busy
<1>2. /\ pc'[t] = "done" /\ \A u \in Transfers \ {t} : pc'[u] = pc[u]
      /\ pc' \in [Transfers -> Busy \cup {"idle", "done", "count", "dead"}]
  BY <1>1, PcFacts
<1>3. /\ clone' \in [Datasets -> Clone \cup {None}]
      /\ \A d \in Datasets : clone'[d] # None => clone[d] # None /\ clone'[d].at = clone[d].at
      /\ \A d \in Datasets : clone'[d] # clone[d] => MountedAt(d, Dir(t))
  <2>1. CASE clone' = clone
    BY <1>1, <2>1 DEF TypeOK
  <2>2. ASSUME NEW d \in Datasets, MountedAt(d, Dir(t)),
               clone' = [clone EXCEPT ![d].data = Empty]
        PROVE  <1>3
    <3> DEFINE k == [clone[d] EXCEPT !.data = Empty]
    <3>1. clone[d] \in Clone /\ clone[d] # None
      BY <1>1, <2>2 DEF TypeOK, MountedAt
    <3>2. k \in Clone /\ k.at = clone[d].at
      BY <3>1, Data DEF Clone
    <3>3. clone' = [clone EXCEPT ![d] = k]
      BY <2>2
    <3> HIDE DEF k
    <3> QED BY <1>1, <2>2, <3>1, <3>2, <3>3 DEF TypeOK
  <2> QED BY <2>1, <2>2 DEF RemoveMountPoint
<1>4. Frame(t)
  <2>1. ~UsesClone(t)' /\ ~Holds(t, Source(t))
    BY <1>1, <1>2 DEF UsesClone, InFlight, Holds, Holding, Busy
  <2> QED BY <1>1, <1>2, <1>3, <2>1 DEF Frame
<1>5. TypeOK'
  BY <1>1, <1>2, <1>3 DEF TypeOK
<1>6. Shape(t)' /\ Outcome(t)' /\ Verification(t)' /\ Work(t)'
  BY <1>1, <1>2 DEF TransferInv, Shape, Outcome, Verification, Work, Failed, Busy
<1> QED BY <1>4, <1>5, <1>6, OneStep

LEMMA StepInv ==
  ASSUME IInv, NEW t \in Transfers, TransferStep(t)
  PROVE  IInv'
BY MkdirInv, UncloneInv, CloneSnapshotInv, MountInv, UndoInv, ParentInv, StartCopyInv,
   EndCopyInv, CleanUpInv, RemoveInv, CreateInv, SendInv, CountSourceInv, CompareInv
   DEF TransferStep

-----------------------------------------------------------------------------
(* The steps that are no command of a transfer. *)

LEMMA FirstCommandFacts ==
  ASSUME NEW r \in Requests
  PROVE  /\ r.snap \in Snapshots /\ r # None
         /\ \/ r.method = "rsync" /\ FirstCommand(r.method) = "mkdir"
            \/ r.method = "remote_rsync" /\ FirstCommand(r.method) = "parent"
            \/ r.method = "zfs_send" /\ FirstCommand(r.method) = "create"
            \/ r.method = "remote_zfs_send" /\ FirstCommand(r.method) = "send"
<1>1. r \in Request /\ r # None
  BY TransferAssumption
<1>2. /\ r.snap \in Snapshots
      /\ r.method \in {"rsync", "zfs_send", "remote_rsync", "remote_zfs_send"}
  BY <1>1 DEF Request
<1>3. CASE r.method = "rsync"
  BY <1>1, <1>2, <1>3 DEF FirstCommand
<1>4. CASE r.method = "remote_rsync"
  BY <1>1, <1>2, <1>4 DEF FirstCommand
<1>5. CASE r.method = "zfs_send"
  BY <1>1, <1>2, <1>5 DEF FirstCommand
<1>6. CASE r.method = "remote_zfs_send"
  BY <1>1, <1>2, <1>6 DEF FirstCommand
<1> QED BY <1>2, <1>3, <1>4, <1>5, <1>6

\* Whom the new transfer shares a clone or a directory with counts as met from
\* now on; so does the new one, with them and with what a crash left.
LEMMA StartFacts ==
  ASSUME IInv, NEW t \in Transfers, NEW r \in Requests, Start(t, r)
  PROVE  /\ pc[t] = "idle" /\ t \notin met /\ req[t] = None /\ reads[t] = None
         /\ ~UsesClone(t)
         /\ req'[t] = r /\ pc'[t] = FirstCommand(r.method)
         /\ Source(t)' = DatasetOf[r.snap] /\ Dir(t)' = MountPoint[r.snap]
         /\ UsesClone(t)' <=> r.method = "rsync"
         /\ met \subseteq met' /\ met' \subseteq met \cup Sharing(r) \cup {t}
         /\ r.method = "rsync" => Sharing(r) \subseteq met'
         /\ r.method = "rsync" /\ (Sharing(r) # {} \/ MeetsRemains(r)) => t \in met'
         /\ \A u \in Transfers \ {t} :
              /\ pc'[u] = pc[u] /\ req'[u] = req[u]
              /\ Source(u)' = Source(u) /\ Dir(u)' = Dir(u)
              /\ UsesClone(u)' = UsesClone(u)
         /\ UNCHANGED <<clone, live, exists, received, reads, seen, orphans, crashes, answer,
                        counted, verdict, faulted>>
<1>1. /\ TypeOK /\ Shape(t) /\ pc[t] = "idle"
      /\ req' = [req EXCEPT ![t] = r]
      /\ pc' = [pc EXCEPT ![t] = FirstCommand(r.method)]
      /\ met' = IF r.method = "rsync" /\ (Sharing(r) # {} \/ MeetsRemains(r))
                THEN met \cup Sharing(r) \cup {t} ELSE met
      /\ UNCHANGED <<clone, live, exists, received, reads, seen, orphans, crashes, answer,
                     counted, verdict, faulted>>
  BY DEF Start, Goto, IInv, TransferInv, copyVars, verifyVars
<1>2. t \notin met /\ req[t] = None /\ reads[t] = None /\ ~UsesClone(t)
  BY <1>1 DEF Shape, UsesClone, InFlight, Busy
<1>3. /\ req'[t] = r /\ pc'[t] = FirstCommand(r.method)
      /\ \A u \in Transfers \ {t} : pc'[u] = pc[u] /\ req'[u] = req[u]
  BY <1>1 DEF TypeOK
<1>4. UsesClone(t)' <=> r.method = "rsync"
  BY <1>3, FirstCommandFacts DEF UsesClone, InFlight, Busy
<1>5. /\ Source(t)' = DatasetOf[r.snap] /\ Dir(t)' = MountPoint[r.snap]
      /\ \A u \in Transfers \ {t} : /\ Source(u)' = Source(u) /\ Dir(u)' = Dir(u)
                                    /\ UsesClone(u)' = UsesClone(u)
  BY <1>3 DEF Source, Dir, UsesClone, InFlight
<1>6. /\ met \subseteq met' /\ met' \subseteq met \cup Sharing(r) \cup {t}
      /\ r.method = "rsync" => Sharing(r) \subseteq met'
      /\ r.method = "rsync" /\ (Sharing(r) # {} \/ MeetsRemains(r)) => t \in met'
  BY <1>1
<1> QED BY <1>1, <1>2, <1>3, <1>4, <1>5, <1>6

LEMMA StartKeepsOthers ==
  ASSUME IInv, NEW t \in Transfers, NEW r \in Requests, Start(t, r),
         NEW u \in Transfers \ {t}
  PROVE  TransferInv(u)'
<1>1. TransferInv(u)
  BY DEF IInv
<1>2. /\ pc'[u] = pc[u] /\ req'[u] = req[u]
      /\ Source(u)' = Source(u) /\ Dir(u)' = Dir(u) /\ UsesClone(u)' = UsesClone(u)
      /\ met \subseteq met' /\ met' \subseteq met \cup Sharing(r) \cup {t}
      /\ UNCHANGED <<clone, received, reads, seen, orphans, answer, counted, verdict, faulted>>
  BY StartFacts
<1>3. u \in Sharing(r) => UsesClone(u)
  BY DEF Sharing
<1>4. Shape(u)'
  BY <1>1, <1>2, <1>3 DEF TransferInv, Shape, UsesClone, InFlight, Busy
<1>5. Outcome(u)' /\ Verification(u)'
  BY <1>1, <1>2 DEF TransferInv, Outcome, Verification, Failed
<1>6. ASSUME Unmet(u)' PROVE Alone(u)' /\ Work(u)'
  <2>1. UsesClone(u) /\ Unmet(u) /\ Alone(u) /\ Work(u) /\ u \notin met'
    BY <1>1, <1>2, <1>6 DEF Unmet, TransferInv
  <2>2. Work(u)'
    BY <1>2, <2>1 DEF Work, Mine, Failed
  <2>3. ASSUME NEW x \in Transfers \ {u}, UsesClone(x)'
        PROVE  /\ Source(x)' # Source(u)' /\ Dir(x)' # Dir(u)'
               /\ ~MountedAt(Source(u), Dir(x))' /\ reads'[x] # Source(u)'
    <3>1. CASE x # t
      <4>1. /\ UsesClone(x) /\ Source(x)' = Source(x) /\ Dir(x)' = Dir(x)
        BY <2>3, <3>1, StartFacts
      <4> QED BY <1>2, <2>1, <4>1 DEF Alone, MountedAt
    <3>2. CASE x = t
      <4>1. /\ r.method = "rsync" /\ Sharing(r) \subseteq met'
            /\ Source(t)' = DatasetOf[r.snap] /\ Dir(t)' = MountPoint[r.snap]
            /\ reads[t] = None
        BY <2>3, <3>2, StartFacts
      <4>2. u \notin Sharing(r)
        BY <2>1, <4>1
      <4>3. /\ Source(u) # DatasetOf[r.snap] /\ Dir(u) # MountPoint[r.snap]
            /\ ~MountedAt(Source(u), MountPoint[r.snap])
        BY <2>1, <4>2 DEF Sharing
      <4>4. Source(u) # None
        BY <2>1, UserTyped
      <4> QED BY <1>2, <3>2, <4>1, <4>3, <4>4 DEF MountedAt
    <3> QED BY <3>1, <3>2
  <2>4. Alone(u)'
    BY <1>2, <2>1, <2>3 DEF Alone, MountedAt
  <2> QED BY <2>2, <2>4
<1> QED BY <1>4, <1>5, <1>6 DEF TransferInv

LEMMA StartOwn ==
  ASSUME IInv, NEW t \in Transfers, NEW r \in Requests, Start(t, r)
  PROVE  TransferInv(t)'
<1>1. TransferInv(t) /\ TypeOK
  BY DEF IInv
<1>2. pc'[t] = FirstCommand(r.method) /\ req'[t] = r /\ reads'[t] = None /\ r \in Requests
  BY StartFacts
<1>3. Shape(t)'
  BY <1>2, FirstCommandFacts DEF Shape
<1>4. Outcome(t)'
  BY <1>2, FirstCommandFacts DEF Outcome
<1>5. Verification(t)'
  <2>1. verdict'[t] = "none"
    BY <1>1, StartFacts DEF TransferInv, Verification
  <2>2. received'[t] # Empty
    BY <1>1 DEF Start, copyVars, TransferInv, Verification
  <2> QED BY <1>2, <2>1, <2>2, FirstCommandFacts DEF Verification
<1>6. ASSUME Unmet(t)' PROVE Alone(t)' /\ Work(t)'
  <2>1. /\ r.method = "rsync" /\ Sharing(r) = {} /\ ~MeetsRemains(r) /\ pc'[t] = "mkdir"
        /\ Source(t)' = DatasetOf[r.snap] /\ Dir(t)' = MountPoint[r.snap]
        /\ clone' = clone /\ reads' = reads /\ orphans' = orphans
    BY <1>6, StartFacts, FirstCommandFacts DEF Unmet
  <2>2. Work(t)'
    BY <2>1 DEF Work
  <2>3. /\ Source(t)' \notin orphans'
        /\ \A d \in Datasets \ {Source(t)'} : ~MountedAt(d, Dir(t))'
    BY <2>1 DEF MeetsRemains, MountedAt
  <2>4. ASSUME NEW x \in Transfers \ {t}, UsesClone(x)'
        PROVE  /\ Source(x)' # Source(t)' /\ Dir(x)' # Dir(t)'
               /\ ~MountedAt(Source(t), Dir(x))' /\ reads'[x] # Source(t)'
    <3>1. UsesClone(x) /\ Source(x)' = Source(x) /\ Dir(x)' = Dir(x)
      BY <2>4, StartFacts
    <3>2. x \notin Sharing(r)
      BY <2>1
    <3> QED BY <2>1, <3>1, <3>2 DEF Sharing, MountedAt
  <2> QED BY <2>2, <2>3, <2>4 DEF Alone
<1> QED BY <1>3, <1>4, <1>5, <1>6 DEF TransferInv

LEMMA StartKeepsClones ==
  ASSUME IInv, NEW t \in Transfers, NEW r \in Requests, Start(t, r), NEW d \in Datasets
  PROVE  CloneInv(d)'
<1> SUFFICES ASSUME ~Excused(d)' PROVE Kept(d)'
  BY DEF CloneInv
<1>1. /\ UNCHANGED <<clone, reads, crashes, faulted>> /\ met \subseteq met'
      /\ t \notin met /\ req[t] = None /\ reads[t] = None /\ ~UsesClone(t)
      /\ \A u \in Transfers \ {t} :
           /\ pc'[u] = pc[u] /\ req'[u] = req[u]
           /\ Source(u)' = Source(u) /\ Dir(u)' = Dir(u) /\ UsesClone(u)' = UsesClone(u)
  BY StartFacts
<1>2. met \subseteq Transfers
  BY DEF IInv, TypeOK
<1>3. ~Excused(d)
  <2>1. Collide(d) => Collide(d)'
    BY <1>1, <1>2 DEF Collide
  <2>2. Faulty(d) => Faulty(d)'
    BY <1>1 DEF Faulty
  <2> QED BY <1>1, <2>1, <2>2 DEF Excused
<1>4. Kept(d)
  BY <1>3 DEF IInv, CloneInv
<1>5. \A u \in Transfers : Holds(u, d) => Holds(u, d)'
  BY <1>1 DEF Holds
<1>6. clone'[d] # None => \E u \in Transfers : Holds(u, d)'
  BY <1>1, <1>4, <1>5 DEF Kept
<1>7. \A u \in Transfers : Mounter(u, d) => Mounter(u, d)'
  BY <1>1, <1>5 DEF Mounter
<1>8. clone'[d] # None /\ clone'[d].at # None => \E u \in Transfers : Mounter(u, d)'
  BY <1>1, <1>4, <1>7 DEF Kept
<1>9. ASSUME NEW w \in Transfers, UsesClone(w)', MountedAt(d, Dir(w))'
      PROVE  Source(w)' = d
  <2>1. CASE w # t
    BY <1>1, <1>4, <1>9, <2>1 DEF Kept, MountedAt
  <2>2. CASE w = t
    <3>1. /\ r.method = "rsync" /\ Sharing(r) \subseteq met'
          /\ Source(t)' = DatasetOf[r.snap] /\ Dir(t)' = MountPoint[r.snap]
          /\ MeetsRemains(r) => t \in met'
      BY <1>9, <2>2, StartFacts
    <3>2. MountedAt(d, MountPoint[r.snap]) /\ MountPoint[r.snap] # None
      BY <1>1, <1>9, <2>2, <3>1, FirstCommandFacts, TransferAssumption DEF MountedAt
    <3>3. PICK m \in Transfers : Mounter(m, d)
      BY <1>4, <3>2 DEF Kept, MountedAt
    <3>4. m # t /\ Source(m) = d /\ Dir(m) = MountPoint[r.snap]
      BY <1>1, <3>2, <3>3 DEF Mounter, MountedAt
    <3>5. m \in met'
      <4>1. CASE Holds(m, d)
        BY <3>1, <3>4, <4>1 DEF Holds, Sharing
      <4>2. CASE m \in met
        BY <1>1, <4>2
      <4> QED BY <3>3, <4>1, <4>2 DEF Mounter
    <3>6. Source(t)' # d => t \in met'
      BY <3>1, <3>2 DEF MeetsRemains
    <3>7. Source(t)' # d => Collide(d)'
      BY <1>1, <3>1, <3>4, <3>5, <3>6 DEF Collide
    <3> QED BY <2>2, <3>7 DEF Excused
  <2> QED BY <2>1, <2>2
<1>10. ASSUME NEW w \in Transfers, reads'[w] = d PROVE Source(w)' = d
  <2>1. w # t
    BY <1>1, <1>10, TransferAssumption
  <2> QED BY <1>1, <1>4, <1>10, <2>1 DEF Kept
<1> QED BY <1>6, <1>8, <1>9, <1>10 DEF Kept

LEMMA StartInv ==
  ASSUME IInv, NEW t \in Transfers, NEW r \in Requests, Start(t, r)
  PROVE  IInv'
<1>1. TypeOK'
  <2>1. req' \in [Transfers -> Requests \cup {None}]
    BY DEF IInv, TypeOK, Start
  <2>2. pc' \in [Transfers -> Busy \cup {"idle", "done", "count", "dead"}]
    <3>1. FirstCommand(r.method) \in Busy
      BY FirstCommandFacts DEF Busy
    <3> QED BY <3>1, PcFacts DEF IInv, Start, Goto
  <2>3. met' \subseteq Transfers
    BY StartFacts DEF IInv, TypeOK, Sharing
  <2> QED BY <2>1, <2>2, <2>3, StartFacts DEF IInv, TypeOK
<1>2. (crashes = 0 => orphans = {})'
  BY StartFacts DEF IInv
<1> QED BY <1>1, <1>2, StartOwn, StartKeepsOthers, StartKeepsClones DEF IInv

LEMMA WriteInv ==
  ASSUME IInv, NEW d \in Datasets, Write(d)
  PROVE  IInv'
<1>1. /\ UNCHANGED <<clone, exists, received, reads, seen, pc, req, orphans, crashes, answer,
                     counted, verdict, faulted, met>>
      /\ live[d] < MaxVersion /\ live' = [live EXCEPT ![d] = @ + 1]
  BY DEF Write, copyVars, verifyVars
<1>2. live' \in [Datasets -> Versions]
  BY <1>1, TransferAssumption DEF IInv, TypeOK, Versions
<1>3. TypeOK'
  BY <1>1, <1>2 DEF IInv, TypeOK
<1>4. ASSUME NEW t \in Transfers PROVE TransferInv(t)'
  <2>1. TransferInv(t)
    BY DEF IInv
  <2>2. Shape(t)' /\ Outcome(t)' /\ Verification(t)' /\ Work(t)' = Work(t)
    BY <1>1, <2>1 DEF TransferInv, Shape, Outcome, Verification, Failed, Work, Mine, Source, Dir
  <2>3. Unmet(t)' = Unmet(t) /\ \A u \in Transfers : UsesClone(u)' = UsesClone(u)
    BY <1>1 DEF Unmet, UsesClone, InFlight
  <2>4. Alone(t) => Alone(t)'
    BY <1>1, <2>3 DEF Alone, MountedAt, Source, Dir
  <2> QED BY <2>1, <2>2, <2>3, <2>4 DEF TransferInv
<1>5. \A e \in Datasets : CloneInv(e)'
  BY <1>1 DEF IInv, CloneInv, Excused, Collide, Faulty, Kept, Holds, Mounter, UsesClone,
              InFlight, MountedAt, Source, Dir
<1> QED BY <1>1, <1>3, <1>4, <1>5 DEF IInv

LEMMA OrphanEndsInv ==
  ASSUME IInv, NEW d \in Datasets, OrphanEnds(d)
  PROVE  IInv'
<1>1. /\ UNCHANGED <<clone, live, exists, received, reads, seen, pc, req, crashes, answer,
                     counted, verdict, faulted, met>>
      /\ orphans' = orphans \ {d}
  BY DEF OrphanEnds, copyVars, verifyVars
<1>2. TypeOK'
  BY <1>1 DEF IInv, TypeOK
<1>3. ASSUME NEW t \in Transfers PROVE TransferInv(t)'
  <2>1. TransferInv(t)
    BY DEF IInv
  <2>2. Shape(t)' /\ Outcome(t)' /\ Verification(t)' /\ Work(t)' = Work(t)
    BY <1>1, <2>1 DEF TransferInv, Shape, Outcome, Verification, Failed, Work, Mine, Source, Dir
  <2>3. Unmet(t)' = Unmet(t) /\ \A u \in Transfers : UsesClone(u)' = UsesClone(u)
    BY <1>1 DEF Unmet, UsesClone, InFlight
  <2>4. Alone(t) => Alone(t)'
    BY <1>1, <2>3 DEF Alone, MountedAt, Source, Dir
  <2> QED BY <2>1, <2>2, <2>3, <2>4 DEF TransferInv
<1>4. \A e \in Datasets : CloneInv(e)'
  BY <1>1 DEF IInv, CloneInv, Excused, Collide, Faulty, Kept, Holds, Mounter, UsesClone,
              InFlight, MountedAt, Source, Dir
<1> QED BY <1>1, <1>2, <1>3, <1>4 DEF IInv

\* Nobody is in flight after a crash, and every clone is excused.
LEMMA CrashInv ==
  ASSUME IInv, Crash
  PROVE  IInv'
<1>1. /\ UNCHANGED <<clone, live, exists, received, seen, req, answer, counted, verdict,
                     faulted, met>>
      /\ crashes' = crashes + 1 /\ crashes < MaxCrashes
      /\ pc' = [t \in Transfers |-> IF pc[t] \in {"idle", "done"} THEN pc[t] ELSE "dead"]
      /\ reads' = [t \in Transfers |-> None]
      /\ TypeOK
  BY DEF Crash, verifyVars, IInv
<1>2. orphans' \subseteq Datasets
  BY <1>1, TransferAssumption DEF Crash, TypeOK
<1>3. crashes' \in 0..MaxCrashes /\ crashes' # 0
  BY <1>1, TransferAssumption DEF TypeOK
<1>4. pc' \in [Transfers -> Busy \cup {"idle", "done", "count", "dead"}]
  BY <1>1 DEF TypeOK
<1>5. reads' \in [Transfers -> Datasets \cup {None}]
  BY <1>1
<1>6. TypeOK'
  BY <1>1, <1>2, <1>3, <1>4, <1>5 DEF TypeOK
<1>7. ASSUME NEW t \in Transfers PROVE TransferInv(t)'
  <2>1. /\ pc'[t] \in {"idle", "done", "dead"} /\ reads'[t] = None
        /\ pc'[t] # "dead" => pc'[t] = pc[t]
        /\ pc[t] = "done" => pc'[t] = "done"
    BY <1>1
  <2>2. TransferInv(t)
    BY DEF IInv
  <2>3. ~Unmet(t)'
    BY <2>1 DEF Unmet, UsesClone, InFlight, Busy
  <2>4. Shape(t)' /\ Outcome(t)' /\ Verification(t)'
    BY <1>1, <2>1, <2>2 DEF TransferInv, Shape, Outcome, Verification, Failed, Busy
  <2> QED BY <2>3, <2>4 DEF TransferInv
<1>8. \A d \in Datasets : CloneInv(d)'
  BY <1>3 DEF CloneInv, Excused
<1> QED BY <1>3, <1>6, <1>7, <1>8 DEF IInv

LEMMA StutterInv ==
  ASSUME IInv, UNCHANGED vars
  PROVE  IInv'
<1>1. UNCHANGED <<clone, live, exists, received, reads, seen, pc, req, orphans, crashes, answer,
                  counted, verdict, faulted, met>>
  BY DEF vars, copyVars, verifyVars
<1>2. TypeOK'
  BY <1>1 DEF IInv, TypeOK
<1>3. \A t \in Transfers : TransferInv(t)' = TransferInv(t)
  BY <1>1 DEF TransferInv, Shape, Unmet, Alone, Work, Outcome, Verification, UsesClone,
              InFlight, MountedAt, Source, Dir, Mine, Failed
<1>4. \A d \in Datasets : CloneInv(d)' = CloneInv(d)
  BY <1>1 DEF CloneInv, Excused, Collide, Faulty, Kept, Holds, Mounter, UsesClone,
              InFlight, MountedAt, Source, Dir
<1> QED BY <1>1, <1>2, <1>3, <1>4 DEF IInv

LEMMA InitInv == Init => IInv
<1> SUFFICES ASSUME Init PROVE IInv
  OBVIOUS
<1>1. TypeOK
  BY Data, TransferAssumption DEF Init, TypeOK
<1>2. \A t \in Transfers : TransferInv(t)
  BY Data DEF Init, TransferInv, Shape, Unmet, UsesClone, InFlight, Busy, Outcome,
              Verification
<1>3. \A d \in Datasets : CloneInv(d)
  BY TransferAssumption DEF Init, CloneInv, Kept, UsesClone, InFlight, Busy, MountedAt
<1> QED BY <1>1, <1>2, <1>3 DEF IInv, Init

LEMMA NextInv == IInv /\ [Next]_vars => IInv'
<1> SUFFICES ASSUME IInv, [Next]_vars PROVE IInv'
  OBVIOUS
<1>1. CASE \E t \in Transfers : TransferStep(t)
  BY <1>1, StepInv
<1>2. CASE \E t \in Transfers : \E r \in Requests : Start(t, r)
  BY <1>2, StartInv
<1>3. CASE \E d \in Datasets : Write(d)
  BY <1>3, WriteInv
<1>4. CASE \E d \in Datasets : OrphanEnds(d)
  BY <1>4, OrphanEndsInv
<1>5. CASE Crash
  BY <1>5, CrashInv
<1>6. CASE UNCHANGED vars
  BY <1>6, StutterInv
<1> QED BY <1>1, <1>2, <1>3, <1>4, <1>5, <1>6 DEF Next

LEMMA Invariance == Spec => []IInv
BY InitInv, NextInv, PTL DEF Spec

-----------------------------------------------------------------------------
(* Theorems. *)

\* Every clone, target and transfer keeps its type.
THEOREM TypeCorrect == Spec => []TypeOK
<1>1. IInv => TypeOK
  BY DEF IInv
<1> QED BY <1>1, Invariance, PTL

\* transfer_volume_data answers success only when the target holds the snapshot,
\* for any number of transfers, unless a local rsync shared its clone or directory.
THEOREM SuccessCorrect == Spec => []SuccessDelivers
<1>1. IInv => SuccessDelivers
  BY DEF IInv, TransferInv, Outcome, SuccessDelivers
<1> QED BY <1>1, Invariance, PTL

\* mount_snapshot_for_rsync gets past what earlier crashes and cleanups left: a
\* local rsync that met no other one fails only with a command of its own.
THEOREM RemainsCorrect == Spec => []RemainsAreOvercome
<1>1. IInv => RemainsAreOvercome
  BY DEF IInv, TransferInv, Outcome, Failed, RemainsAreOvercome
<1> QED BY <1>1, Invariance, PTL

\* The last transfer of a dataset takes the clone away, however many there are
\* and whichever of them destroys, remounts or reads the clone of another.
THEOREM CloneCorrect == Spec => []NoCloneIsLeft
<1>1. IInv => NoCloneIsLeft
  BY DEF IInv, CloneInv, Excused, Faulty, Kept, Holds, NoCloneIsLeft
<1> QED BY <1>1, Invariance, PTL

\* verify_transfer never calls an emptied target the same as its source, unless
\* one of its two counts failed.
THEOREM EmptiedCorrect == Spec => []EmptiedIsNoticed
<1>1. IInv => EmptiedIsNoticed
  BY DEF IInv, TransferInv, Verification, EmptiedIsNoticed
<1> QED BY <1>1, Invariance, PTL
====
