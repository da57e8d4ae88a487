------------------------ MODULE MigrationIntegrityProofs ------------------------
(***************************************************************************)
(* Proofs about MigrationIntegrity, for any calls, files and bounds.       *)
(*                                                                         *)
(* A call that is calm works on files nobody else has written since it     *)
(* began, so what it has found, transferred or copied so far is still so:  *)
(* the invariant states it of the part of the work that is done.  A backup *)
(* name that one call alone took holds nothing before that call writes,    *)
(* and a ZFS snapshot is written once.  What a verification has found to   *)
(* match, the target has held since it began, calm or not.                 *)
(***************************************************************************)
EXTENDS MigrationIntegrity, TLAPS

Shape(c) ==
  /\ pc[c] # "done" => answer[c] = "none"
  /\ pc[c] = "idle" => named[c] = None /\ tally[c] = Untold
  /\ pc[c] \in Busy \cup {"orphan"} => req[c] \in Requests
  /\ pc[c] = "scan" => req[c].op = "key"
  /\ pc[c] \in {"probe", "dataset", "snapshot", "copy", "confirm"} => req[c].op = "safety"
  /\ pc[c] \in {"rsync", "orphan"} => req[c].op = "resume"
  /\ pc[c] = "dry_run" => req[c].op = "dry_run"
  /\ pc[c] = "walk" => req[c].op = "checksums"
  /\ pc[c] \in {"test", "digest"} => req[c].op = "verify"
  /\ pc[c] \in {"probe", "dataset"} => named[c] = None
  /\ pc[c] \in {"snapshot", "copy", "confirm"} => named[c] \in Names
  /\ pc[c] = "snapshot" => named[c].kind = "snapshot"
  /\ pc[c] = "copy" => named[c].kind = "directory"

\* The target as it is now is among what the verification has seen.
Watched(c) == \A f \in Files : <<f, target[f]>> \in seen[c]

Verifying(c) ==
  Verifies(c) =>
    /\ Watched(c)
    /\ \A f \in Files : tally[c][f] = "matched" => <<f, expected[c][f]>> \in seen[c]
    /\ \A f \in Files : f \in todo[c] \/ tally[c][f] # "none" => expected[c][f] # 0
    /\ pc[c] = "digest" => todo[c] # {}
    /\ \A f \in Files : expected[c][f] # 0 /\ f \notin todo[c] => tally[c][f] # "none"
    /\ calm[c] => \A f \in Files : tally[c][f] = "matched" => target[f] = expected[c][f]

Resuming(c) ==
  pc[c] = "rsync" /\ calm[c] =>
    /\ expected[c] = source
    /\ \A f \in Files : source[f] # 0 /\ f \notin todo[c] => target[f] = source[f]

BackingUp(c) ==
  calm[c] /\ Own(c) =>
    /\ pc[c] = "copy" /\ todo[c] # Files =>
         /\ backup[named[c]] # None
         /\ \A f \in Files \ todo[c] : backup[named[c]][f] = target[f]
    /\ pc[c] = "confirm" => backup[named[c]] = target

CallInv(c) == Shape(c) /\ Verifying(c) /\ Resuming(c) /\ BackingUp(c)

\* The call has begun to write the backup it named.
Wrote(c) == pc[c] \in {"confirm", "done"} \/ (pc[c] = "copy" /\ todo[c] # Files)

Owned ==
  \A n \in Names : backup[n] # None => \E d \in Calls : named[d] = n /\ Wrote(d)

IInv == TypeOK /\ Owned /\ \A c \in Calls : CallInv(c)

\* What a step of c may do to the work of others that are calm or verify.
Quiet(c) ==
  \A d \in Calls \ {c} :
    /\ calm'[d] => calm[d] /\ (UNCHANGED files \/ pc[d] \in {"idle", "done"})
    /\ Verifies(d) => seen[d] \subseteq seen'[d] /\ Watched(d)'

\* c writes no backup but its own, and a snapshot only once.
Saves(c) ==
  \A n \in Names : backup'[n] # backup[n] =>
                     n = named[c] /\ (n.kind = "snapshot" => backup[n] = None)

\* What a step of c leaves to the other calls.
Frame(c) ==
  /\ \A d \in Calls \ {c} :
       UNCHANGED <<pc[d], req[d], answer[d], todo[d], expected[d], tally[d], named[d]>>
  /\ Quiet(c)
  /\ named[c] # None => named'[c] = named[c]
  /\ Saves(c)

-----------------------------------------------------------------------------
LEMMA NamesTyped ==
  ASSUME TypeOK, NEW c \in Calls, Shape(c), pc[c] \in {"snapshot", "copy", "confirm"}
  PROVE  named[c] \in Names /\ named[c] # None
  BY IntegrityAssumption DEF Shape

\* A directory name of its own holds nothing before its call writes.
LEMMA NothingThere ==
  ASSUME IInv, NEW c \in Calls, Own(c), pc[c] = "copy", todo[c] = Files
  PROVE  backup[named[c]] = None
<1>1. named[c] \in Names /\ named[c].kind = "directory"
  BY NamesTyped DEF IInv, CallInv, Shape
<1>2. ~Wrote(c)
  BY DEF Wrote
<1>3. \A d \in Calls : named[d] = named[c] => d = c
  BY <1>1 DEF Own
<1> QED BY <1>1, <1>2, <1>3 DEF IInv, Owned

LEMMA OthersKeep ==
  ASSUME IInv, NEW c \in Calls, Frame(c), NEW d \in Calls \ {c}
  PROVE  CallInv(d)'
<1>1. /\ pc'[d] = pc[d] /\ req'[d] = req[d] /\ answer'[d] = answer[d]
      /\ todo'[d] = todo[d] /\ expected'[d] = expected[d] /\ tally'[d] = tally[d]
      /\ named'[d] = named[d]
      /\ calm'[d] => calm[d]
      /\ calm'[d] /\ pc[d] \notin {"idle", "done"} => source' = source /\ target' = target
      /\ Verifies(d) => seen[d] \subseteq seen'[d] /\ Watched(d)'
  BY DEF Frame, Quiet, files
<1>2. CallInv(d) /\ TypeOK
  BY DEF IInv
<1>3. Shape(d)'
  BY <1>1, <1>2 DEF CallInv, Shape
<1>4. Verifying(d)'
  BY <1>1, <1>2 DEF CallInv, Verifying, Verifies
<1>5. Resuming(d)'
  BY <1>1, <1>2 DEF CallInv, Resuming
<1>6. BackingUp(d)'
  <2> SUFFICES ASSUME calm'[d], Own(d)', pc[d] \in {"copy", "confirm"}
               PROVE  BackingUp(d)'
    BY <1>1 DEF BackingUp
  <2>1. named[d] \in Names /\ named[d] # None
    BY <1>2, NamesTyped DEF CallInv
  <2>2. calm[d] /\ source' = source /\ target' = target
    BY <1>1
  <2>3. CASE named[d].kind = "snapshot"
    <3>1. pc[d] = "confirm" /\ Own(d)
      BY <1>2, <2>3 DEF CallInv, Shape, Names, Own
    <3>2. backup[named[d]] = target /\ target # None
      BY <1>2, <2>2, <3>1, IntegrityAssumption DEF CallInv, BackingUp, TypeOK
    <3>3. backup'[named[d]] = backup[named[d]]
      BY <2>1, <2>3, <3>2 DEF Frame, Saves
    <3> QED BY <1>1, <2>2, <3>1, <3>2, <3>3 DEF BackingUp
  <2>4. CASE named[d].kind # "snapshot"
    <3>1. \A x \in Calls \ {d} : named'[x] # named'[d]
      BY <1>1, <2>4 DEF Own
    <3>2. \A x \in Calls : named[x] = named[d] => named'[x] = named'[d]
      BY <1>1, <2>1 DEF Frame
    <3>3. Own(d) /\ named[d] # named[c]
      BY <3>1, <3>2 DEF Own
    <3>4. backup'[named[d]] = backup[named[d]]
      BY <2>1, <3>3 DEF Frame, Saves
    <3> QED BY <1>1, <1>2, <2>2, <3>3, <3>4 DEF CallInv, BackingUp
  <2> QED BY <2>3, <2>4
<1> QED BY <1>3, <1>4, <1>5, <1>6 DEF CallInv

LEMMA OwnedStays ==
  ASSUME IInv, NEW c \in Calls, Frame(c), Wrote(c) => Wrote(c)',
         backup' = backup \/ (Wrote(c)' /\ named'[c] = named[c])
  PROVE  Owned'
<1> SUFFICES ASSUME NEW n \in Names, backup'[n] # None
             PROVE  \E d \in Calls : named'[d] = n /\ Wrote(d)'
  BY DEF Owned
<1>1. CASE backup'[n] = backup[n]
  <2>1. PICK d \in Calls : named[d] = n /\ Wrote(d)
    BY <1>1 DEF IInv, Owned
  <2>2. n # None
    BY IntegrityAssumption
  <2>3. CASE d = c
    BY <2>1, <2>2, <2>3 DEF Frame
  <2>4. CASE d # c
    <3>1. pc'[d] = pc[d] /\ todo'[d] = todo[d] /\ named'[d] = named[d]
      BY <2>4 DEF Frame
    <3> QED BY <2>1, <3>1 DEF Wrote
  <2> QED BY <2>3, <2>4
<1>2. CASE backup'[n] # backup[n]
  <2>1. n = named[c]
    BY <1>2 DEF Frame, Saves
  <2> QED BY <1>2, <2>1
<1> QED BY <1>1, <1>2

\* The step of one call: only its own work is left to prove.
LEMMA OneCall ==
  ASSUME IInv, NEW c \in Calls, Frame(c), TypeOK', CallInv(c)',
         Wrote(c) => Wrote(c)',
         backup' = backup \/ (Wrote(c)' /\ named'[c] = named[c])
  PROVE  IInv'
<1>1. \A d \in Calls : CallInv(d)'
  BY OthersKeep
<1>2. Owned'
  BY OwnedStays
<1> QED BY <1>1, <1>2 DEF IInv

-----------------------------------------------------------------------------
(* What the operators of the model do to the state of calls. *)

DataTyped ==
  /\ source' \in Listing /\ target' \in Listing
  /\ zfs' \in BOOLEAN
  /\ known' \in [Ports -> 0..1]
  /\ checkpoint' \in [Ids -> BOOLEAN]
  /\ sums' \in [Ids -> Listing \cup {None}]
  /\ backup' \in [Names -> Listing \cup {None}]
  /\ calm' \in [Calls -> BOOLEAN]
  /\ seen' \in [Calls -> SUBSET (Files \X Version)]
  /\ writes' \in 0..MaxWrites /\ crashes' \in 0..MaxCrashes

WorkTyped ==
  /\ todo' \in [Calls -> SUBSET Files]
  /\ expected' \in [Calls -> Listing]
  /\ tally' \in [Calls -> [Files -> Findings]]

LEMMA Constants ==
  /\ 0 \in Version /\ MaxVersion \in Nat /\ Nothing \in Listing
  /\ Untold \in [Files -> Findings]
  BY IntegrityAssumption DEF Version, Nothing, Listing, Untold, Findings

LEMMA DataStays ==
  ASSUME TypeOK, UNCHANGED <<files, zfs, stored, history, limits>>
  PROVE  DataTyped
  BY DEF TypeOK, DataTyped, files, stored, history, limits

LEMMA WorkStays ==
  ASSUME TypeOK, UNCHANGED work
  PROVE  WorkTyped
  BY DEF TypeOK, WorkTyped, work

LEMMA Typed ==
  ASSUME DataTyped, WorkTyped,
         pc' \in [Calls -> Busy \cup {"idle", "orphan", "done"}],
         req' \in [Calls -> Requests \cup {None}],
         answer' \in [Calls -> {"none", "ok", "failed"}],
         named' \in [Calls -> Names \cup {None}]
  PROVE  TypeOK'
  BY DEF TypeOK, DataTyped, WorkTyped

LEMMA GotoFacts ==
  ASSUME TypeOK, NEW c \in Calls, NEW state \in Busy, Goto(c, state)
  PROVE  /\ pc' \in [Calls -> Busy \cup {"idle", "orphan", "done"}]
         /\ pc'[c] = state /\ req' = req /\ answer' = answer
         /\ \A d \in Calls \ {c} : pc'[d] = pc[d]
  BY DEF TypeOK, Goto

LEMMA AnswerFacts ==
  ASSUME TypeOK, NEW c \in Calls, NEW verdict \in {"none", "ok", "failed"},
         Answer(c, verdict)
  PROVE  /\ pc' \in [Calls -> Busy \cup {"idle", "orphan", "done"}]
         /\ req' \in [Calls -> Requests \cup {None}]
         /\ answer' \in [Calls -> {"none", "ok", "failed"}]
         /\ WorkTyped
         /\ pc'[c] = "done" /\ answer'[c] = verdict
         /\ \A d \in Calls \ {c} :
              UNCHANGED <<pc[d], req[d], answer[d], todo[d], expected[d], tally[d]>>
<1>1. /\ todo' = [todo EXCEPT ![c] = {}] /\ expected' = [expected EXCEPT ![c] = Nothing]
      /\ tally' = [tally EXCEPT ![c] = Untold]
  BY DEF Answer
<1>2. WorkTyped /\ \A d \in Calls \ {c} : UNCHANGED <<todo[d], expected[d], tally[d]>>
  BY <1>1, Constants DEF TypeOK, WorkTyped
<1>3. /\ pc' = [pc EXCEPT ![c] = "done"] /\ req' = [req EXCEPT ![c] = None]
      /\ answer' = [answer EXCEPT ![c] = verdict]
  BY DEF Answer
<1> QED BY <1>2, <1>3 DEF TypeOK

\* A call that is over has no work left to speak of.
LEMMA DoneKeeps ==
  ASSUME NEW c \in Calls, pc'[c] = "done"
  PROVE  CallInv(c)' /\ Wrote(c)'
  BY DEF CallInv, Shape, Verifying, Verifies, Resuming, BackingUp, Wrote, Busy

LEMMA QuietStays ==
  ASSUME IInv, NEW c \in Calls, UNCHANGED <<files, history>>
  PROVE  Quiet(c)
<1>1. UNCHANGED <<source, target, calm, seen>>
  BY DEF files, history
<1>2. \A d \in Calls : Verifies(d) => Watched(d)
  BY DEF IInv, CallInv, Verifying
<1> QED BY <1>1, <1>2 DEF Quiet, Watched, files

\* A write is seen by whoever verifies, and by those only.
LEMMA DisturbsSeen ==
  ASSUME TypeOK, NEW c, Disturbs(c), target' \in Listing
  PROVE  /\ seen' \in [Calls -> SUBSET (Files \X Version)]
         /\ \A d \in Calls : Verifies(d) => seen[d] \subseteq seen'[d] /\ Watched(d)'
<1>1. seen' = [d \in Calls |-> seen[d] \cup IF Verifies(d) THEN Contents(target') ELSE {}]
  BY DEF Disturbs
<1>2. Contents(target') \subseteq Files \X Version
  BY DEF Contents, Listing
<1>3. seen' \in [Calls -> SUBSET (Files \X Version)]
  BY <1>1, <1>2 DEF TypeOK
<1>4. ASSUME NEW d \in Calls, Verifies(d)
      PROVE  seen[d] \subseteq seen'[d] /\ Watched(d)'
  <2>1. seen'[d] = seen[d] \cup Contents(target')
    BY <1>1, <1>4
  <2> QED BY <2>1 DEF Watched, Contents
<1> QED BY <1>3, <1>4

LEMMA DisturbsFacts ==
  ASSUME TypeOK, NEW c \in Calls, Disturbs(c), target' \in Listing
  PROVE  /\ calm' \in [Calls -> BOOLEAN] /\ calm'[c] = calm[c] /\ Quiet(c)
         /\ seen' \in [Calls -> SUBSET (Files \X Version)]
<1>1. calm' = [d \in Calls |-> calm[d] /\ (d = c \/ pc[d] \in {"idle", "done"})]
  BY DEF Disturbs
<1>2. calm' \in [Calls -> BOOLEAN] /\ calm'[c] = calm[c]
  BY <1>1 DEF TypeOK
<1>3. \A d \in Calls \ {c} : calm'[d] => calm[d] /\ pc[d] \in {"idle", "done"}
  BY <1>1
<1> QED BY <1>2, <1>3, DisturbsSeen DEF Quiet

\* The end of a call.
LEMMA Ends ==
  ASSUME IInv, NEW c \in Calls, NEW verdict \in {"none", "ok", "failed"},
         Answer(c, verdict), DataTyped, Quiet(c), UNCHANGED <<named, backup>>
  PROVE  IInv'
<1>1. TypeOK
  BY DEF IInv
<1>2. TypeOK'
  BY <1>1, AnswerFacts, Typed DEF TypeOK
<1>3. Frame(c)
  BY <1>1, AnswerFacts DEF Frame, Saves
<1>4. CallInv(c)' /\ Wrote(c)'
  BY <1>1, AnswerFacts, DoneKeeps
<1> QED BY <1>2, <1>3, <1>4, OneCall

LEMMA EndsQuietly ==
  ASSUME IInv, NEW c \in Calls, NEW verdict \in {"none", "ok", "failed"},
         Answer(c, verdict), UNCHANGED <<files, zfs, stored, named, history, limits>>
  PROVE  IInv'
<1>1. DataTyped /\ Quiet(c) /\ UNCHANGED backup
  BY DataStays, QuietStays DEF IInv, stored
<1> QED BY <1>1, Ends

\* A call that is answered at once.
LEMMA AtOnceInv ==
  ASSUME IInv, NEW c \in Calls, NEW verdict \in {"ok", "failed"},
         AnswerAtOnce(c, verdict), UNCHANGED <<files, zfs, known, sums, backup, work, named, limits>>,
         checkpoint' \in [Ids -> BOOLEAN]
  PROVE  IInv'
<1>1. TypeOK
  BY DEF IInv
<1>2. /\ pc' = [pc EXCEPT ![c] = "done"] /\ answer' = [answer EXCEPT ![c] = verdict]
      /\ UNCHANGED <<req, calm, seen, source, target, writes, crashes, todo, expected, tally>>
  BY DEF AnswerAtOnce, files, limits, work, history
<1>3. DataTyped /\ WorkTyped
  BY <1>1, <1>2 DEF TypeOK, DataTyped, WorkTyped
<1>4. /\ pc' \in [Calls -> Busy \cup {"idle", "orphan", "done"}]
      /\ answer' \in [Calls -> {"none", "ok", "failed"}]
      /\ pc'[c] = "done"
      /\ \A d \in Calls \ {c} : pc'[d] = pc[d] /\ answer'[d] = answer[d]
  BY <1>1, <1>2 DEF TypeOK
<1>5. TypeOK'
  BY <1>1, <1>2, <1>3, <1>4, Typed DEF TypeOK
<1>6. Frame(c)
  <2>1. Quiet(c)
    BY <1>2, QuietStays DEF files, history
  <2> QED BY <1>2, <1>4, <2>1 DEF Frame, Saves
<1> QED BY <1>4, <1>5, <1>6, DoneKeeps, OneCall

\* A call goes on with its work.
LEMMA GoesOn ==
  ASSUME IInv, NEW c \in Calls,
         UNCHANGED <<req, answer>>,
         pc' \in [Calls -> Busy \cup {"idle", "orphan", "done"}],
         \A d \in Calls \ {c} :
           UNCHANGED <<pc[d], todo[d], expected[d], tally[d]>>,
         DataTyped, WorkTyped, Quiet(c), named' = named,
         CallInv(c)', Wrote(c) => Wrote(c)',
         \/ backup' = backup
         \/ Wrote(c)' /\ Saves(c)
  PROVE  IInv'
<1>1. TypeOK'
  BY Typed DEF IInv, TypeOK
<1>2. Frame(c)
  BY DEF Frame, Saves
<1> QED BY <1>1, <1>2, OneCall

-----------------------------------------------------------------------------
(* Requests. *)

Opens(op, state) ==
  \/ op = "key" /\ state = "scan"
  \/ op = "safety" /\ state = "probe"
  \/ op = "resume" /\ state = "rsync"
  \/ op = "dry_run" /\ state = "dry_run"
  \/ op = "checksums" /\ state = "walk"
  \/ op = "verify" /\ state = "test"

LEMMA StartInv ==
  ASSUME IInv, NEW c \in Calls, NEW r \in Asks[c], NEW state,
         Start(c, r, state), Opens(r.op, state),
         UNCHANGED <<files, zfs, stored, answer, tally, named, limits>>,
         todo' \in [Calls -> SUBSET Files], expected' \in [Calls -> Listing],
         \A d \in Calls \ {c} : UNCHANGED <<todo[d], expected[d]>>,
         state = "test" => \A f \in Files : expected'[c][f] # 0 <=> f \in todo'[c],
         state = "rsync" => /\ expected'[c] = source
                            /\ \A f \in Files : source[f] # 0 => f \in todo'[c]
  PROVE  IInv'
<1>1. TypeOK /\ CallInv(c) /\ r \in Requests
  BY IntegrityAssumption DEF IInv
<1>2. /\ pc[c] = "idle" /\ state \in Busy
      /\ req' = [req EXCEPT ![c] = r] /\ calm' = [calm EXCEPT ![c] = TRUE]
      /\ seen' = [seen EXCEPT ![c] = IF state = "test" THEN Contents(target) ELSE {}]
      /\ pc' = [pc EXCEPT ![c] = state]
      /\ UNCHANGED <<source, target, known, checkpoint, sums, backup, writes, crashes>>
  BY DEF Start, Runs, In, Opens, Busy, files, stored, limits
<1>3. /\ pc' \in [Calls -> Busy \cup {"idle", "orphan", "done"}]
      /\ req' \in [Calls -> Requests \cup {None}]
      /\ calm' \in [Calls -> BOOLEAN]
      /\ pc'[c] = state /\ req'[c] = r /\ calm'[c] = TRUE
      /\ \A d \in Calls \ {c} : pc'[d] = pc[d] /\ req'[d] = req[d] /\ calm'[d] = calm[d]
  BY <1>1, <1>2 DEF TypeOK
<1>4. /\ seen' \in [Calls -> SUBSET (Files \X Version)]
      /\ state = "test" => seen'[c] = Contents(target)
      /\ \A d \in Calls \ {c} : seen'[d] = seen[d]
  <2>1. Contents(target) \subseteq Files \X Version
    BY <1>1 DEF Contents, TypeOK, Listing
  <2> QED BY <1>1, <1>2, <2>1 DEF TypeOK
<1>5. DataTyped /\ WorkTyped
  BY <1>1, <1>2, <1>3, <1>4 DEF TypeOK, DataTyped, WorkTyped
<1>6. TypeOK'
  BY <1>1, <1>3, <1>5, Typed DEF TypeOK
<1>7. Frame(c)
  <2>1. \A d \in Calls : Verifies(d) => Watched(d)
    BY DEF IInv, CallInv, Verifying
  <2>2. Quiet(c)
    BY <1>2, <1>3, <1>4, <2>1 DEF Quiet, Watched, files
  <2> QED BY <1>2, <1>3, <2>2 DEF Frame, Saves
<1>8. /\ answer'[c] = "none" /\ named'[c] = None
      /\ tally'[c] = [f \in Files |-> "none"]
  BY <1>1, <1>2 DEF CallInv, Shape, Untold
<1>9. Shape(c)'
  BY <1>1, <1>3, <1>8 DEF Shape, Opens, Busy
<1>10. Verifying(c)'
  <2>1. state = "test" => Watched(c)'
    BY <1>2, <1>4 DEF Watched, Contents
  <2> QED BY <1>3, <1>8, <2>1 DEF Verifying, Verifies, Opens
<1>11. Resuming(c)'
  BY <1>2, <1>3 DEF Resuming, Opens
<1>12. BackingUp(c)' /\ ~Wrote(c)
  BY <1>2, <1>3 DEF BackingUp, Opens, Wrote
<1> QED BY <1>2, <1>6, <1>7, <1>9, <1>10, <1>11, <1>12, OneCall DEF CallInv

LEMMA ListedTyped ==
  ASSUME NEW listing
  PROVE  /\ Listed(listing) \in SUBSET Files
         /\ \A f \in Files : listing[f] # 0 <=> f \in Listed(listing)
  BY DEF Listed

LEMMA RequestInv ==
  ASSUME IInv, NEW c \in Calls, NEW r \in Asks[c], Request(c, r)
  PROVE  IInv'
<1>1. TypeOK /\ r \in Requests
      /\ todo \in [Calls -> SUBSET Files] /\ expected \in [Calls -> Listing]
      /\ source \in Listing
  BY IntegrityAssumption DEF IInv, TypeOK
<1>2. r.op # "key" => r.id \in Ids
  BY <1>1, IntegrityAssumption
<1>3. CASE StartAddHostKey(c, r)
  BY <1>1, <1>3, StartInv DEF StartAddHostKey, Opens, work
<1>4. CASE StartSafety(c, r)
  BY <1>1, <1>4, StartInv DEF StartSafety, Opens, work
<1>5. CASE StartDryRun(c, r)
  BY <1>1, <1>5, StartInv DEF StartDryRun, Opens, work
<1>6. CASE CreateCheckpoint(c, r)
  <2>1. r.id \in Ids
    BY <1>2, <1>6 DEF CreateCheckpoint
  <2>2. checkpoint' \in [Ids -> BOOLEAN]
    BY <1>1, <1>6, <2>1 DEF CreateCheckpoint, TypeOK
  <2> QED BY <1>6, <2>2, AtOnceInv DEF CreateCheckpoint
<1>7. CASE VerifyEndpoint(c, r)
  <2>1. /\ AnswerAtOnce(c, "failed") /\ checkpoint' \in [Ids -> BOOLEAN]
        /\ UNCHANGED <<files, zfs, known, sums, backup, work, named, limits>>
    BY <1>1, <1>7 DEF VerifyEndpoint, stored, TypeOK
  <2> QED BY <2>1, AtOnceInv
<1>8. CASE StartResume(c, r)
  <2>1. CASE /\ Start(c, r, "rsync")
             /\ todo' = [todo EXCEPT ![c] = Listed(source)]
             /\ expected' = [expected EXCEPT ![c] = source]
             /\ UNCHANGED answer
    <3>1. /\ todo' \in [Calls -> SUBSET Files] /\ expected' \in [Calls -> Listing]
          /\ todo'[c] = Listed(source) /\ expected'[c] = source
          /\ \A d \in Calls \ {c} : UNCHANGED <<todo[d], expected[d]>>
      BY <1>1, <2>1, ListedTyped
    <3> QED BY <1>8, <2>1, <3>1, ListedTyped, StartInv DEF StartResume, Opens
  <2>2. CASE AnswerAtOnce(c, "failed") /\ UNCHANGED <<todo, expected>>
    <3>1. /\ checkpoint' \in [Ids -> BOOLEAN]
          /\ UNCHANGED <<files, zfs, known, sums, backup, work, named, limits>>
      BY <1>1, <1>8, <2>2 DEF StartResume, stored, TypeOK, work
    <3> QED BY <2>2, <3>1, AtOnceInv
  <2> QED BY <1>8, <2>1, <2>2 DEF StartResume
<1>9. CASE StartChecksums(c, r)
  <2>1. /\ todo' \in [Calls -> SUBSET Files] /\ expected' = expected
        /\ \A d \in Calls \ {c} : UNCHANGED <<todo[d], expected[d]>>
    BY <1>1, <1>9, ListedTyped DEF StartChecksums
  <2> QED BY <1>1, <1>9, <2>1, StartInv DEF StartChecksums, Opens
<1>10. CASE StartVerify(c, r)
  <2>1. sums[r.id] \in Listing
    BY <1>1, <1>2, <1>10 DEF StartVerify, TypeOK
  <2>2. /\ todo' \in [Calls -> SUBSET Files] /\ expected' \in [Calls -> Listing]
        /\ todo'[c] = Listed(sums[r.id]) /\ expected'[c] = sums[r.id]
        /\ \A d \in Calls \ {c} : UNCHANGED <<todo[d], expected[d]>>
    BY <1>1, <1>10, <2>1, ListedTyped DEF StartVerify
  <2> QED BY <1>10, <2>2, ListedTyped, StartInv DEF StartVerify, Opens
<1> QED BY <1>3, <1>4, <1>5, <1>6, <1>7, <1>8, <1>9, <1>10 DEF Request

-----------------------------------------------------------------------------
(* The host key and the safety snapshot. *)

LEMMA AddHostKeyInv ==
  ASSUME IInv, NEW c \in Calls, AddHostKey(c)
  PROVE  IInv'
<1>1. /\ TypeOK /\ CallInv(c) /\ pc[c] = "scan"
      /\ UNCHANGED <<files, zfs, checkpoint, sums, backup, named, history, limits>>
  BY DEF AddHostKey, IInv, Runs, In
<1>2. req[c].port \in Ports
  BY <1>1, IntegrityAssumption DEF CallInv, Shape, Busy
<1>3. \E verdict \in {"ok", "failed"} : Answer(c, verdict)
  BY DEF AddHostKey, Fails
<1>4. known' \in [Ports -> 0..1]
  <2>1. CASE known' = known
    BY <1>1, <2>1 DEF TypeOK
  <2>2. CASE ~HostIsNamed /\ known' = [known EXCEPT ![req[c].port] = @ + 1]
    <3>1. known \in [Ports -> 0..1]
      BY <1>1 DEF TypeOK
    <3>2. known[req[c].port] = 0
      BY <1>2, <2>2, <3>1 DEF HostIsNamed
    <3> QED BY <1>2, <2>2, <3>1, <3>2
  <2> QED BY <2>1, <2>2 DEF AddHostKey
<1>5. DataTyped /\ Quiet(c)
  BY <1>1, <1>4, QuietStays DEF TypeOK, DataTyped, files, history, limits
<1> QED BY <1>1, <1>3, <1>5, Ends

\* A backup that is named has a name of its kind, which no call had taken away.
LEMMA NamedFacts ==
  ASSUME TypeOK, NEW c \in Calls, Id(c) \in Ids, NEW kind \in {"snapshot", "directory"},
         NameBackup(c, kind)
  PROVE  /\ named' \in [Calls -> Names \cup {None}]
         /\ named'[c] \in Names /\ named'[c].kind = kind
         /\ \A d \in Calls \ {c} : named'[d] = named[d]
<1>1. PICK t \in 1..MaxTime :
        named' = [named EXCEPT ![c] = [kind |-> kind, id |-> Id(c), at |-> t]]
  BY DEF NameBackup
<1>2. [kind |-> kind, id |-> Id(c), at |-> t] \in Names
  BY DEF Names
<1> QED BY <1>1, <1>2 DEF TypeOK

\* A call that names its backup has written nothing of it yet.
LEMMA NamesInv ==
  ASSUME IInv, NEW c \in Calls, pc[c] \in {"probe", "dataset"},
         NEW kind \in {"snapshot", "directory"}, NameBackup(c, kind),
         \/ kind = "snapshot" /\ Goto(c, "snapshot") /\ UNCHANGED work
         \/ /\ kind = "directory" /\ Goto(c, "copy")
            /\ todo' = [todo EXCEPT ![c] = Files]
            /\ UNCHANGED <<expected, tally>>,
         UNCHANGED <<files, zfs, stored, history, limits>>
  PROVE  IInv'
<1>1. TypeOK /\ CallInv(c)
  BY DEF IInv
<1>2. /\ req[c] \in Requests /\ req[c].op = "safety" /\ named[c] = None
      /\ answer[c] = "none" /\ Id(c) \in Ids
  BY <1>1, IntegrityAssumption DEF CallInv, Shape, Busy, Id
<1>3. /\ named' \in [Calls -> Names \cup {None}]
      /\ named'[c] \in Names /\ named'[c].kind = kind
      /\ \A d \in Calls \ {c} : named'[d] = named[d]
  BY <1>1, <1>2, NamedFacts
<1>4. DataTyped /\ Quiet(c) /\ backup' = backup
  BY <1>1, DataStays, QuietStays DEF stored
<1>5. /\ pc' \in [Calls -> Busy \cup {"idle", "orphan", "done"}]
      /\ req' = req /\ answer' = answer
      /\ \A d \in Calls \ {c} : pc'[d] = pc[d]
      /\ \/ pc'[c] = "snapshot" /\ kind = "snapshot"
         \/ pc'[c] = "copy" /\ kind = "directory"
  BY <1>1, GotoFacts DEF Busy
<1>6. /\ WorkTyped
      /\ \A d \in Calls \ {c} : UNCHANGED <<todo[d], expected[d], tally[d]>>
      /\ kind = "directory" => todo'[c] = Files
  <2>1. CASE kind = "snapshot" /\ UNCHANGED work
    BY <1>1, <2>1, WorkStays DEF work
  <2>2. CASE todo' = [todo EXCEPT ![c] = Files] /\ UNCHANGED <<expected, tally>>
    BY <1>1, <2>2 DEF TypeOK, WorkTyped
  <2> QED BY <2>1, <2>2
<1>7. TypeOK'
  BY <1>1, <1>3, <1>4, <1>5, <1>6, Typed DEF TypeOK
<1>8. Frame(c)
  BY <1>2, <1>3, <1>4, <1>5, <1>6 DEF Frame, Saves
<1>9. CallInv(c)' /\ ~Wrote(c)
  BY <1>1, <1>2, <1>3, <1>5, <1>6
     DEF CallInv, Shape, Verifying, Verifies, Resuming, BackingUp, Wrote, Busy
<1> QED BY <1>4, <1>7, <1>8, <1>9, OneCall

LEMMA ProbeInv ==
  ASSUME IInv, NEW c \in Calls, ProbeTarget(c)
  PROVE  IInv'
<1>1. /\ TypeOK /\ CallInv(c) /\ pc[c] = "probe"
      /\ UNCHANGED <<files, zfs, stored, history, limits>>
  BY DEF ProbeTarget, IInv, Runs, In
<1>2. CASE Goto(c, "dataset") /\ UNCHANGED <<work, named>>
  <2>1. /\ pc' \in [Calls -> Busy \cup {"idle", "orphan", "done"}]
        /\ pc'[c] = "dataset" /\ req' = req /\ answer' = answer
        /\ \A d \in Calls \ {c} : pc'[d] = pc[d]
    BY <1>1, <1>2, GotoFacts DEF Busy
  <2>2. /\ DataTyped /\ WorkTyped /\ Quiet(c)
        /\ UNCHANGED <<todo, expected, tally, backup, named>>
    BY <1>1, <1>2, WorkStays, DataStays, QuietStays DEF work, stored
  <2>3. CallInv(c)' /\ ~Wrote(c)
    BY <1>1, <2>1, <2>2
       DEF CallInv, Shape, Verifying, Verifies, Watched, Resuming, BackingUp, Wrote,
           Busy, history
  <2> QED BY <1>1, <2>1, <2>2, <2>3, GoesOn
<1>3. CASE ~(Goto(c, "dataset") /\ UNCHANGED <<work, named>>)
  <2>1. /\ NameBackup(c, "directory") /\ Goto(c, "copy")
        /\ todo' = [todo EXCEPT ![c] = Files]
        /\ UNCHANGED <<expected, tally>>
    BY <1>3 DEF ProbeTarget
  <2> QED BY <1>1, <2>1, NamesInv
<1> QED BY <1>2, <1>3

LEMMA FindDatasetInv ==
  ASSUME IInv, NEW c \in Calls, FindDataset(c)
  PROVE  IInv'
<1>1. pc[c] = "dataset" /\ UNCHANGED <<files, zfs, stored, history, limits>>
  BY DEF FindDataset, Runs, In
<1>2. CASE Fails(c) /\ UNCHANGED named
  BY <1>1, <1>2, EndsQuietly DEF Fails
<1>3. CASE NameBackup(c, "snapshot") /\ Goto(c, "snapshot") /\ UNCHANGED work
  BY <1>1, <1>3, NamesInv
<1> QED BY <1>2, <1>3 DEF FindDataset

LEMMA ZfsSnapshotInv ==
  ASSUME IInv, NEW c \in Calls, CreateZfsSnapshot(c)
  PROVE  IInv'
<1>1. /\ TypeOK /\ CallInv(c) /\ pc[c] = "snapshot"
      /\ UNCHANGED <<files, zfs, known, checkpoint, sums, named, history, limits>>
  BY DEF CreateZfsSnapshot, IInv, Runs, In
<1>2. /\ named[c] \in Names /\ named[c].kind = "snapshot"
      /\ req[c] \in Requests /\ req[c].op = "safety" /\ answer[c] = "none"
  BY <1>1, NamesTyped DEF CallInv, Shape, Busy
<1>3. CASE Fails(c) /\ UNCHANGED backup
  BY <1>1, <1>3, EndsQuietly DEF Fails, stored
<1>4. CASE /\ backup[named[c]] = None
           /\ backup' = [backup EXCEPT ![named[c]] = target]
           /\ Goto(c, "confirm") \/ Fails(c)
  <2>1. /\ backup' \in [Names -> Listing \cup {None}]
        /\ backup'[named[c]] = target /\ Saves(c)
    BY <1>1, <1>2, <1>4 DEF TypeOK, Saves
  <2>2. DataTyped /\ Quiet(c) /\ target' = target
    BY <1>1, <2>1, QuietStays DEF TypeOK, DataTyped, files, history, limits
  <2>3. CASE Fails(c)
    <3>1. TypeOK'
      BY <1>1, <2>2, <2>3, AnswerFacts, Typed DEF Fails, TypeOK
    <3>2. Frame(c)
      BY <1>1, <2>1, <2>2, <2>3, AnswerFacts DEF Frame, Quiet, Fails
    <3>3. CallInv(c)' /\ Wrote(c)'
      BY <1>1, <2>3, AnswerFacts, DoneKeeps DEF Fails
    <3> QED BY <1>1, <3>1, <3>2, <3>3, OneCall
  <2>4. CASE Goto(c, "confirm") /\ UNCHANGED work
    <3>1. /\ pc' \in [Calls -> Busy \cup {"idle", "orphan", "done"}]
          /\ pc'[c] = "confirm" /\ req' = req /\ answer' = answer
          /\ \A d \in Calls \ {c} : pc'[d] = pc[d]
      BY <1>1, <2>4, GotoFacts DEF Busy
    <3>2. WorkTyped /\ UNCHANGED <<todo, expected, tally>>
      BY <1>1, <2>4, WorkStays DEF work
    <3>4. CallInv(c)' /\ Wrote(c)'
      BY <1>1, <1>2, <2>1, <2>2, <3>1
         DEF CallInv, Shape, Verifying, Verifies, Resuming, BackingUp, Wrote, Busy
    <3> QED BY <1>1, <2>1, <2>2, <3>1, <3>2, <3>4, GoesOn
  <2> QED BY <1>4, <2>3, <2>4 DEF CreateZfsSnapshot, Fails, Goto, Answer
<1> QED BY <1>3, <1>4 DEF CreateZfsSnapshot

LEMMA CopyInv ==
  ASSUME IInv, NEW c \in Calls, NEW f \in Files, CopyToBackup(c, f)
  PROVE  IInv'
<1>1. /\ TypeOK /\ CallInv(c) /\ pc[c] = "copy" /\ f \in todo[c]
      /\ UNCHANGED <<files, zfs, known, checkpoint, sums, pc, req, answer, expected, tally,
                     named, history, limits>>
  BY DEF CopyToBackup, IInv, In
<1>2. named[c] \in Names /\ named[c].kind = "directory"
  BY <1>1, NamesTyped DEF CallInv, Shape
<1>3. /\ todo' \in [Calls -> SUBSET Files] /\ f \notin todo'[c] /\ todo'[c] # Files
      /\ \A d \in Calls \ {c} : todo'[d] = todo[d]
  <2>1. /\ todo \in [Calls -> SUBSET Files]
        /\ \E left \in SUBSET todo[c] : f \notin left /\ todo' = [todo EXCEPT ![c] = left]
    <3>1. CASE todo' = [todo EXCEPT ![c] = {}]
      BY <1>1, <3>1 DEF TypeOK
    <3>2. CASE todo' = [todo EXCEPT ![c] = @ \ {f}]
      BY <1>1, <3>2 DEF TypeOK
    <3> QED BY <3>1, <3>2 DEF CopyToBackup
  <2>2. PICK left \in SUBSET todo[c] : f \notin left /\ todo' = [todo EXCEPT ![c] = left]
    BY <2>1
  <2>3. left \in SUBSET Files /\ left # Files
    BY <2>1, <2>2
  <2> QED BY <2>1, <2>2, <2>3
<1>4. WorkTyped /\ Quiet(c) /\ target' = target
  BY <1>1, <1>3, QuietStays DEF TypeOK, WorkTyped, files
<1>5. Shape(c)' /\ Verifying(c)' /\ Resuming(c)' /\ Wrote(c)'
  BY <1>1, <1>3 DEF CallInv, Shape, Verifying, Verifies, Resuming, Wrote, Busy
<1>6. CASE todo[c] = Files /\ backup[named[c]] # None
  <2>1. backup' = backup
    BY <1>6 DEF CopyToBackup
  <2>2. ~Own(c)
    BY <1>1, <1>6, NothingThere
  <2>3. BackingUp(c)'
    BY <1>1, <2>2 DEF BackingUp, Own, history
  <2>4. DataTyped
    BY <1>1, <2>1 DEF TypeOK, DataTyped, files, history, limits
  <2> QED BY <1>1, <1>3, <1>4, <1>5, <2>1, <2>3, <2>4, GoesOn DEF CallInv, Busy, TypeOK
<1>7. CASE ~(todo[c] = Files /\ backup[named[c]] # None)
  <2> DEFINE copy == [(IF backup[named[c]] = None THEN Nothing ELSE backup[named[c]])
                        EXCEPT ![f] = target[f]]
  <2>1. /\ todo' = [todo EXCEPT ![c] = @ \ {f}]
        /\ backup' = [backup EXCEPT ![named[c]] = copy]
    BY <1>7 DEF CopyToBackup
  <2>2. /\ backup[named[c]] \in Listing \cup {None} /\ target[f] \in Version
        /\ Nothing \in Listing
    BY <1>1, <1>2, Constants DEF TypeOK, Listing
  <2>3. /\ copy \in Listing /\ copy # None /\ copy[f] = target[f]
        /\ backup[named[c]] # None => \A g \in Files \ {f} : copy[g] = backup[named[c]][g]
    BY <2>2, IntegrityAssumption DEF Listing
  <2> HIDE DEF copy
  <2>4. /\ backup' \in [Names -> Listing \cup {None}]
        /\ backup'[named[c]] = copy /\ Saves(c)
    BY <1>1, <1>2, <2>1, <2>3 DEF TypeOK, Saves
  <2>5. DataTyped
    BY <1>1, <2>4 DEF TypeOK, DataTyped, files, history, limits
  <2>6. todo'[c] = todo[c] \ {f}
    BY <1>1, <2>1 DEF TypeOK
  <2>7. BackingUp(c)'
    <3> SUFFICES ASSUME calm[c], Own(c), NEW g \in Files \ todo'[c]
                 PROVE  copy[g] = target[g]
      BY <1>1, <1>2, <1>4, <2>3, <2>4 DEF BackingUp, Own, history
    <3>1. CASE g = f
      BY <2>3, <3>1
    <3>2. CASE g # f
      <4>1. g \in Files \ todo[c] /\ todo[c] # Files
        BY <2>6, <3>2
      <4>2. backup[named[c]] # None /\ backup[named[c]][g] = target[g]
        BY <1>1, <4>1 DEF CallInv, BackingUp
      <4> QED BY <2>3, <3>2, <4>2
    <3> QED BY <3>1, <3>2
  <2> QED BY <1>1, <1>3, <1>4, <1>5, <2>4, <2>5, <2>7, GoesOn DEF CallInv, Busy, TypeOK
<1> QED BY <1>6, <1>7

LEMMA EndBackupInv ==
  ASSUME IInv, NEW c \in Calls, EndBackup(c)
  PROVE  IInv'
<1>1. /\ TypeOK /\ CallInv(c) /\ pc[c] = "copy"
      /\ UNCHANGED <<files, zfs, stored, named, history, limits>>
  BY DEF EndBackup, IInv, Runs, In
<1>2. CASE Fails(c)
  BY <1>1, <1>2, EndsQuietly DEF Fails
<1>3. CASE todo[c] = {} /\ Goto(c, "confirm") /\ UNCHANGED work
  <2>1. /\ pc' \in [Calls -> Busy \cup {"idle", "orphan", "done"}]
        /\ pc'[c] = "confirm" /\ req' = req /\ answer' = answer
        /\ \A d \in Calls \ {c} : pc'[d] = pc[d]
    BY <1>1, <1>3, GotoFacts DEF Busy
  <2>2. named[c] \in Names
    BY <1>1, NamesTyped DEF CallInv
  <2>3. /\ WorkTyped /\ DataTyped /\ Quiet(c)
        /\ UNCHANGED <<todo, expected, tally, source, target, backup>>
    BY <1>1, <1>3, WorkStays, DataStays, QuietStays DEF work, files, stored
  <2>4. calm[c] /\ Own(c) => backup[named[c]] = target
    <3> SUFFICES ASSUME calm[c], Own(c) PROVE backup[named[c]] = target
      OBVIOUS
    <3>1. todo[c] # Files
      BY <1>3, IntegrityAssumption
    <3>2. /\ backup[named[c]] # None
          /\ \A f \in Files : backup[named[c]][f] = target[f]
      BY <1>1, <1>3, <3>1 DEF CallInv, BackingUp
    <3>3. backup[named[c]] \in Listing /\ target \in Listing
      BY <1>1, <2>2, <3>2 DEF TypeOK
    <3> QED BY <3>2, <3>3 DEF Listing
  <2>5. BackingUp(c)'
    BY <1>1, <2>1, <2>2, <2>3, <2>4 DEF BackingUp, Own, history
  <2>6. Shape(c)' /\ Verifying(c)' /\ Resuming(c)' /\ Wrote(c)'
    BY <1>1, <2>1 DEF CallInv, Shape, Verifying, Verifies, Resuming, Wrote, Busy
  <2> QED BY <1>1, <2>1, <2>3, <2>5, <2>6, GoesOn DEF CallInv, Busy
<1> QED BY <1>2, <1>3 DEF EndBackup

-----------------------------------------------------------------------------
(* Transfers. *)

LEMMA TransferInv ==
  ASSUME IInv, NEW c \in Calls, NEW f \in Files, TransferFile(c, f)
  PROVE  IInv'
<1>1. /\ TypeOK /\ CallInv(c) /\ pc[c] \in {"rsync", "orphan"} /\ Disturbs(c)
      /\ UNCHANGED <<source, zfs, stored, pc, req, answer, expected, tally, named, limits>>
      /\ todo' = [todo EXCEPT ![c] = @ \ {f}]
      /\ target' = [target EXCEPT ![f] = source[f]]
  BY DEF TransferFile, IInv
<1>2. /\ todo' \in [Calls -> SUBSET Files] /\ todo'[c] = todo[c] \ {f}
      /\ \A d \in Calls \ {c} : todo'[d] = todo[d]
  BY <1>1 DEF TypeOK
<1>3. /\ target' \in Listing /\ target'[f] = source[f]
      /\ \A g \in Files \ {f} : target'[g] = target[g]
  BY <1>1 DEF TypeOK, Listing
<1>4. /\ calm' \in [Calls -> BOOLEAN] /\ calm'[c] = calm[c] /\ Quiet(c)
      /\ seen' \in [Calls -> SUBSET (Files \X Version)]
  BY <1>1, <1>3, DisturbsFacts
<1>5. DataTyped /\ WorkTyped /\ backup' = backup
  BY <1>1, <1>2, <1>3, <1>4 DEF TypeOK, DataTyped, WorkTyped, stored, limits
<1>6. Shape(c)' /\ Verifying(c)' /\ BackingUp(c)'
  BY <1>1 DEF CallInv, Shape, Verifying, Verifies, BackingUp, Busy
<1>7. Resuming(c)'
  BY <1>1, <1>2, <1>3, <1>4 DEF CallInv, Resuming
<1>8. ~Wrote(c)
  BY <1>1 DEF Wrote
<1> QED BY <1>1, <1>2, <1>4, <1>5, <1>6, <1>7, <1>8, GoesOn DEF CallInv, TypeOK

LEMMA DeleteTyped ==
  ASSUME TypeOK, NEW c \in Calls, DeleteOthers(c)
  PROVE  /\ target' \in Listing /\ calm' \in [Calls -> BOOLEAN] /\ Quiet(c)
         /\ seen' \in [Calls -> SUBSET (Files \X Version)]
<1>1. target' \in Listing
  BY Constants DEF TypeOK, DeleteOthers, Listing
<1> QED BY <1>1, DisturbsFacts DEF DeleteOthers

\* A transfer ends, with or without its deletions.
LEMMA EndTransferInv ==
  ASSUME IInv, NEW c \in Calls, NEW verdict \in {"none", "ok", "failed"},
         Answer(c, verdict), UNCHANGED <<source, zfs, stored, named, limits>>,
         DeleteOthers(c) \/ UNCHANGED <<target, history>>
  PROVE  IInv'
<1>1. TypeOK
  BY DEF IInv
<1>2. /\ target' \in Listing /\ calm' \in [Calls -> BOOLEAN] /\ Quiet(c)
      /\ seen' \in [Calls -> SUBSET (Files \X Version)]
  <2>1. CASE DeleteOthers(c)
    BY <1>1, <2>1, DeleteTyped
  <2>2. CASE UNCHANGED <<target, history>>
    BY <1>1, <2>2, QuietStays DEF TypeOK, files, history
  <2> QED BY <2>1, <2>2
<1>3. DataTyped
  BY <1>1, <1>2 DEF TypeOK, DataTyped, stored, limits
<1> QED BY <1>2, <1>3, Ends DEF stored

LEMMA EndResumeInv ==
  ASSUME IInv, NEW c \in Calls, EndResume(c)
  PROVE  IInv'
<1>1. /\ UNCHANGED <<source, zfs, stored, named, limits>>
      /\ DeleteOthers(c) \/ UNCHANGED <<target, history>>
      /\ \E verdict \in {"ok", "failed"} : Answer(c, verdict)
  BY DEF EndResume, Fails
<1> QED BY <1>1, EndTransferInv

LEMMA OrphanInv ==
  ASSUME IInv, NEW c \in Calls, OrphanEnds(c)
  PROVE  IInv'
  BY EndTransferInv DEF OrphanEnds

-----------------------------------------------------------------------------
(* Checksums and their verification. *)

LEMMA ChecksumInv ==
  ASSUME IInv, NEW c \in Calls, NEW f \in Files, ChecksumFile(c, f)
  PROVE  IInv'
<1>1. /\ TypeOK /\ CallInv(c) /\ pc[c] = "walk"
      /\ UNCHANGED <<files, zfs, stored, pc, req, answer, tally, named, history, limits>>
      /\ todo' = [todo EXCEPT ![c] = @ \ {f}]
      /\ expected' = expected \/ expected' = [expected EXCEPT ![c][f] = source[f]]
  BY DEF ChecksumFile, IInv, In
<1>2. /\ expected' \in [Calls -> Listing]
      /\ \A d \in Calls \ {c} : expected'[d] = expected[d]
  <2>1. CASE expected' = expected
    BY <1>1, <2>1 DEF TypeOK
  <2>2. CASE expected' = [expected EXCEPT ![c][f] = source[f]]
    <3>1. [expected[c] EXCEPT ![f] = source[f]] \in Listing
      BY <1>1 DEF TypeOK, Listing
    <3> QED BY <1>1, <2>2, <3>1 DEF TypeOK
  <2> QED BY <1>1, <2>1, <2>2
<1>3. /\ todo' \in [Calls -> SUBSET Files]
      /\ \A d \in Calls \ {c} : todo'[d] = todo[d]
  BY <1>1 DEF TypeOK
<1>4. /\ DataTyped /\ WorkTyped /\ Quiet(c) /\ backup' = backup
  BY <1>1, <1>2, <1>3, DataStays, QuietStays DEF TypeOK, WorkTyped, stored
<1>5. CallInv(c)' /\ ~Wrote(c)
  BY <1>1 DEF CallInv, Shape, Verifying, Verifies, Resuming, BackingUp, Wrote, Busy
<1> QED BY <1>1, <1>2, <1>3, <1>4, <1>5, GoesOn DEF TypeOK

LEMMA EndChecksumsInv ==
  ASSUME IInv, NEW c \in Calls, EndChecksums(c)
  PROVE  IInv'
<1>1. /\ TypeOK /\ CallInv(c) /\ pc[c] = "walk"
      /\ UNCHANGED <<files, zfs, known, checkpoint, backup, named, history, limits>>
      /\ Answer(c, "ok") /\ sums' = [sums EXCEPT ![Id(c)] = expected[c]]
  BY DEF EndChecksums, IInv, In
<1>2. sums' \in [Ids -> Listing \cup {None}]
  BY <1>1 DEF TypeOK
<1>3. DataTyped /\ Quiet(c)
  BY <1>1, <1>2, QuietStays DEF TypeOK, DataTyped, files, history, limits
<1> QED BY <1>1, <1>3, Ends

LEMMA CurrentIsNext ==
  ASSUME NEW c \in Calls, todo[c] # {}
  PROVE  Current(c) \in todo[c]
  BY DEF Current

\* A file is found to be so, and the verification goes on.
LEMMA FoundInv ==
  ASSUME IInv, NEW c \in Calls, pc[c] \in {"test", "digest"}, todo[c] # {},
         NEW what \in Findings \ {"none"}, Found(c, what),
         what = "matched" => target[Current(c)] = expected[c][Current(c)],
         UNCHANGED <<req, answer, files, zfs, stored, named, history, limits>>,
         pc' = [pc EXCEPT ![c] = "test"]
  PROVE  IInv'
<1> DEFINE f == Current(c)
<1>1. /\ TypeOK /\ CallInv(c) /\ f \in todo[c] /\ f \in Files
  BY CurrentIsNext DEF IInv, TypeOK
<1>2. /\ tally' = [tally EXCEPT ![c][f] = what]
      /\ todo' = [todo EXCEPT ![c] = @ \ {f}] /\ expected' = expected
  BY DEF Found
<1> HIDE DEF f
<1>3. /\ tally' \in [Calls -> [Files -> Findings]]
      /\ tally'[c] = [tally[c] EXCEPT ![f] = what]
      /\ \A d \in Calls \ {c} : tally'[d] = tally[d]
  <2>1. [tally[c] EXCEPT ![f] = what] \in [Files -> Findings]
    BY <1>1 DEF TypeOK
  <2> QED BY <1>1, <1>2, <2>1 DEF TypeOK
<1>4. /\ tally'[c][f] = what
      /\ \A g \in Files \ {f} : tally'[c][g] = tally[c][g]
  BY <1>1, <1>3 DEF TypeOK
<1>5. /\ todo' \in [Calls -> SUBSET Files] /\ todo'[c] = todo[c] \ {f}
      /\ \A d \in Calls \ {c} : todo'[d] = todo[d]
      /\ pc' \in [Calls -> Busy \cup {"idle", "orphan", "done"}]
      /\ pc'[c] = "test"
      /\ \A d \in Calls \ {c} : pc'[d] = pc[d]
  BY <1>1, <1>2 DEF TypeOK, Busy
<1>6. /\ DataTyped /\ WorkTyped /\ Quiet(c) /\ backup' = backup
      /\ target' = target
  BY <1>1, <1>2, <1>3, <1>5, DataStays, QuietStays DEF TypeOK, WorkTyped, stored, files
<1>7. what = "matched" => target[f] = expected[c][f]
  BY DEF f
<1>8. Verifying(c)'
  <2>1. Verifies(c) /\ Watched(c)' /\ <<f, target[f]>> \in seen[c] /\ seen' = seen
    BY <1>1, <1>6 DEF CallInv, Verifying, Verifies, Watched, history
  <2> QED BY <1>1, <1>2, <1>4, <1>5, <1>6, <1>7, <2>1 DEF CallInv, Verifying, history
<1>9. Shape(c)' /\ Resuming(c)' /\ BackingUp(c)' /\ ~Wrote(c)
  BY <1>1, <1>5 DEF CallInv, Shape, Resuming, BackingUp, Wrote, Busy
<1> QED BY <1>2, <1>3, <1>5, <1>6, <1>8, <1>9, GoesOn DEF CallInv

LEMMA TestInv ==
  ASSUME IInv, NEW c \in Calls, TestFile(c)
  PROVE  IInv'
<1>1. /\ TypeOK /\ CallInv(c) /\ pc[c] = "test" /\ todo[c] # {}
      /\ UNCHANGED <<files, zfs, stored, named, history, limits>>
  BY DEF TestFile, IInv, Runs, In
<1>2. CASE Goto(c, "digest") /\ UNCHANGED work
  <2>1. /\ pc' \in [Calls -> Busy \cup {"idle", "orphan", "done"}]
        /\ pc'[c] = "digest" /\ req' = req /\ answer' = answer
        /\ \A d \in Calls \ {c} : pc'[d] = pc[d]
    BY <1>1, <1>2, GotoFacts DEF Busy
  <2>2. /\ DataTyped /\ WorkTyped /\ Quiet(c)
        /\ UNCHANGED <<todo, expected, tally, source, target, backup>>
    BY <1>1, <1>2, WorkStays, DataStays, QuietStays DEF work, files, stored
  <2>3. CallInv(c)' /\ ~Wrote(c)
    BY <1>1, <2>1, <2>2 DEF CallInv, Shape, Verifying, Verifies, Watched, Resuming, BackingUp, Wrote,
           Busy, history
  <2> QED BY <1>1, <2>1, <2>2, <2>3, GoesOn
<1>3. CASE Found(c, "missing") /\ UNCHANGED <<pc, req, answer>>
  <2>1. pc' = [pc EXCEPT ![c] = "test"]
    BY <1>1, <1>3 DEF TypeOK
  <2> QED BY <1>1, <1>3, <2>1, FoundInv DEF Findings
<1> QED BY <1>2, <1>3 DEF TestFile

LEMMA CompareInv ==
  ASSUME IInv, NEW c \in Calls, CompareFile(c)
  PROVE  IInv'
<1>1. /\ CallInv(c) /\ pc[c] = "digest"
      /\ UNCHANGED <<req, answer, files, zfs, stored, named, history, limits>>
      /\ pc' = [pc EXCEPT ![c] = "test"]
  BY DEF CompareFile, Goto, IInv, Runs, In
<1>2. todo[c] # {}
  BY <1>1 DEF CallInv, Verifying, Verifies
<1>3. \E what \in Findings \ {"none"} :
        /\ Found(c, what)
        /\ what = "matched" => target[Current(c)] = expected[c][Current(c)]
  BY DEF CompareFile, Findings
<1> QED BY <1>1, <1>2, <1>3, FoundInv

LEMMA EndVerifyInv ==
  ASSUME IInv, NEW c \in Calls, EndVerify(c)
  PROVE  IInv'
<1>1. /\ TypeOK /\ UNCHANGED <<files, zfs, stored, named, calm, limits>>
      /\ seen' = [seen EXCEPT ![c] = {}]
      /\ \E verdict \in {"ok", "failed"} : Answer(c, verdict)
  BY DEF EndVerify, IInv
<1>2. /\ seen' \in [Calls -> SUBSET (Files \X Version)]
      /\ \A d \in Calls \ {c} : seen'[d] = seen[d]
  BY <1>1 DEF TypeOK
<1>3. DataTyped
  BY <1>1, <1>2 DEF TypeOK, DataTyped, files, stored, history, limits
<1>4. Quiet(c)
  <2>1. \A d \in Calls : Verifies(d) => Watched(d)
    BY DEF IInv, CallInv, Verifying
  <2> QED BY <1>1, <1>2, <2>1 DEF Quiet, Watched, files
<1> QED BY <1>1, <1>3, <1>4, Ends DEF stored

LEMMA CallStepInv ==
  ASSUME IInv, NEW c \in Calls, CallStep(c)
  PROVE  IInv'
<1>1. CASE ConfirmBackup(c)
  BY <1>1, EndsQuietly DEF ConfirmBackup
<1>2. CASE EndDryRun(c)
  BY <1>2, EndsQuietly DEF EndDryRun, Fails
<1>3. CASE EndVerify(c)
  BY <1>3, EndVerifyInv
<1> QED BY <1>1, <1>2, <1>3, AddHostKeyInv, ProbeInv, FindDatasetInv, ZfsSnapshotInv, EndBackupInv,
           EndResumeInv, EndChecksumsInv, TestInv, CompareInv DEF CallStep

-----------------------------------------------------------------------------
(* The rest of the world. *)

\* Somebody else writes: whoever is at work is calm no more.
LEMMA WriteInv ==
  ASSUME IInv, Disturbs(None), source' \in Listing, target' \in Listing,
         writes' \in 0..MaxWrites,
         UNCHANGED <<zfs, stored, pc, req, answer, work, named, crashes>>
  PROVE  IInv'
<1>1. /\ TypeOK /\ Owned
      /\ calm' = [c \in Calls |-> calm[c] /\ (c = None \/ pc[c] \in {"idle", "done"})]
      /\ UNCHANGED <<known, checkpoint, sums, backup, todo, expected, tally>>
  BY DEF IInv, Disturbs, stored, work
<1>2. /\ calm' \in [Calls -> BOOLEAN]
      /\ seen' \in [Calls -> SUBSET (Files \X Version)]
      /\ \A d \in Calls : Verifies(d) => seen[d] \subseteq seen'[d] /\ Watched(d)'
  BY <1>1, DisturbsSeen DEF TypeOK
<1>3. TypeOK'
  BY <1>1, <1>2, Typed DEF TypeOK, DataTyped, WorkTyped
<1>4. Owned'
  BY <1>1 DEF Owned, Wrote
<1>5. ASSUME NEW d \in Calls PROVE CallInv(d)'
  <2>1. CallInv(d) /\ (calm'[d] => calm[d] /\ pc[d] \in {"idle", "done"})
    BY <1>1, IntegrityAssumption DEF IInv, TypeOK
  <2>2. Shape(d)'
    BY <1>1, <2>1 DEF CallInv, Shape
  <2>3. Verifying(d)'
    BY <1>1, <1>2, <2>1 DEF CallInv, Verifying, Verifies
  <2>4. Resuming(d)' /\ BackingUp(d)'
    BY <1>1, <2>1 DEF CallInv, Resuming, BackingUp
  <2> QED BY <2>2, <2>3, <2>4 DEF CallInv
<1> QED BY <1>3, <1>4, <1>5 DEF IInv

\* The service goes down: the calls are over, but for an rsync it started.
LEMMA CrashInv ==
  ASSUME IInv, Crash
  PROVE  IInv'
<1>1. /\ TypeOK /\ Owned
      /\ crashes < MaxCrashes /\ crashes' = crashes + 1
      /\ pc' = [c \in Calls |-> CASE pc[c] = "rsync" -> "orphan"
                                 [] pc[c] \in Busy \ {"rsync"} -> "done"
                                 [] OTHER -> pc[c]]
      /\ req' = [c \in Calls |-> IF pc[c] \in Busy \ {"rsync"} THEN None ELSE req[c]]
      /\ tally' = [c \in Calls |-> Untold]
      /\ todo' = [c \in Calls |-> IF pc[c] \in {"rsync", "orphan"} THEN todo[c] ELSE {}]
      /\ expected' = [c \in Calls |->
                        IF pc[c] \in {"rsync", "orphan"} THEN expected[c] ELSE Nothing]
      /\ UNCHANGED <<source, target, zfs, known, checkpoint, sums, backup, answer, named,
                     calm, writes>>
  BY DEF IInv, Crash, files, stored
<1>2. ASSUME NEW c \in Calls
      PROVE  /\ pc'[c] \in {"idle", "orphan", "done"}
             /\ pc[c] \in {"idle", "orphan", "done"} => pc'[c] = pc[c] /\ req'[c] = req[c]
             /\ pc[c] = "rsync" => pc'[c] = "orphan" /\ req'[c] = req[c]
             /\ pc[c] \in Busy \ {"rsync"} => pc'[c] = "done" /\ req'[c] = None
  BY <1>1 DEF TypeOK, Busy
<1>3. /\ pc' \in [Calls -> Busy \cup {"idle", "orphan", "done"}]
      /\ req' \in [Calls -> Requests \cup {None}]
  BY <1>1, <1>2 DEF TypeOK
<1>4. WorkTyped
  BY <1>1, Constants DEF TypeOK, WorkTyped
<1>5. DataTyped
  <2>1. seen' \in [Calls -> SUBSET (Files \X Version)]
    BY DEF Crash
  <2> QED BY <1>1, <2>1, IntegrityAssumption DEF TypeOK, DataTyped
<1>6. TypeOK'
  BY <1>1, <1>3, <1>4, <1>5, Typed DEF TypeOK
<1>7. Owned'
  BY <1>1, <1>2 DEF Owned, Wrote, Busy
<1>8. ASSUME NEW c \in Calls PROVE CallInv(c)'
  <2>1. Shape(c) /\ pc[c] \in Busy \cup {"idle", "orphan", "done"}
        /\ tally'[c] = Untold
    BY <1>1 DEF IInv, CallInv, TypeOK
  <2>2. Shape(c)'
    BY <1>1, <1>2, <2>1 DEF Shape, Busy
  <2>3. Verifying(c)' /\ Resuming(c)' /\ BackingUp(c)'
    BY <1>2 DEF Verifying, Verifies, Resuming, BackingUp
  <2> QED BY <2>2, <2>3 DEF CallInv
<1> QED BY <1>6, <1>7, <1>8 DEF IInv

LEMMA InitInv ==
  ASSUME Init
  PROVE  IInv
<1>1. TypeOK
  BY IntegrityAssumption, Constants DEF Init, TypeOK, Busy
<1>2. Owned
  BY DEF Init, Owned
<1>3. ASSUME NEW c \in Calls PROVE CallInv(c)
  BY DEF Init, CallInv, Shape, Verifying, Verifies, Resuming, BackingUp, Busy
<1> QED BY <1>1, <1>2, <1>3 DEF IInv

LEMMA StutterInv ==
  ASSUME IInv, UNCHANGED vars
  PROVE  IInv'
  BY DEF IInv, TypeOK, Owned, Wrote, CallInv, Shape, Verifying, Verifies, Resuming, BackingUp,
         Own, Watched, Verifies, Id, vars, history, files, stored, work, limits

LEMMA NextInv ==
  ASSUME IInv, [Next]_vars
  PROVE  IInv'
<1>1. CASE \E c \in Calls : \E r \in Asks[c] : Request(c, r)
  BY <1>1, RequestInv
<1>2. CASE \E c \in Calls : CallStep(c) \/ OrphanEnds(c)
  BY <1>2, CallStepInv, OrphanInv
<1>3. CASE \E c \in Calls, f \in Files : FileStep(c, f)
  BY <1>3, CopyInv, TransferInv, ChecksumInv DEF FileStep
<1>4. ASSUME NEW f \in Files, NEW v \in Version, WriteSource(f, v) \/ WriteTarget(f, v)
      PROVE  IInv'
  <2>1. TypeOK
    BY DEF IInv
  <2>2. source' \in Listing /\ target' \in Listing
    <3>1. CASE WriteSource(f, v)
      BY <2>1, <3>1 DEF TypeOK, Listing, WriteSource
    <3>2. CASE WriteTarget(f, v)
      BY <2>1, <3>2 DEF TypeOK, Listing, WriteTarget
    <3> QED BY <1>4, <3>1, <3>2
  <2>3. writes < MaxWrites /\ writes' = writes + 1
    BY <1>4 DEF WriteSource, WriteTarget
  <2>4. writes' \in 0..MaxWrites
    BY <2>1, <2>3, IntegrityAssumption DEF TypeOK
  <2>5. /\ Disturbs(None)
        /\ UNCHANGED <<zfs, stored, pc, req, answer, work, named, crashes>>
    BY <1>4 DEF WriteSource, WriteTarget
  <2> QED BY <2>2, <2>4, <2>5, WriteInv
<1>5. CASE Crash
  BY <1>5, CrashInv
<1>6. CASE UNCHANGED vars
  BY <1>6, StutterInv
<1> QED BY <1>1, <1>2, <1>3, <1>4, <1>5, <1>6 DEF Next

THEOREM Invariance == Spec => []IInv
<1>1. Init => IInv
  BY InitInv
<1>2. IInv /\ [Next]_vars => IInv'
  BY NextInv
<1> QED BY <1>1, <1>2, PTL DEF Spec

\* Every call keeps to the states its operation has, whatever fails and whenever
\* the service goes down.
THEOREM TypeCorrect == Spec => []TypeOK
<1>1. IInv => TypeOK
  BY DEF IInv
<1> QED BY <1>1, Invariance, PTL

-----------------------------------------------------------------------------
(* How calls end. *)

\* The steps of others and those that only go on end nothing; what is at work
\* ends by a step of its own or with the service.
LEMMA HowCallsEnd ==
  ASSUME IInv, Next, NEW c \in Calls, NEW op, NEW verdict, verdict # "none",
         Answers(c, op, verdict)
  PROVE  CallStep(c)
<1>1. TypeOK /\ Shape(c) /\ pc[c] # "done" /\ answer[c] = "none" /\ pc'[c] = "done"
      /\ pc[c] # "idle" /\ pc[c] # "orphan" /\ answer'[c] = verdict
  BY DEF IInv, CallInv, Shape, Answers, Busy
<1>2. \A d \in Calls : \A r \in Asks[d] : ~Request(d, r)
  <2> SUFFICES ASSUME NEW d \in Calls, NEW r \in Asks[d], Request(d, r)
               PROVE  FALSE
    OBVIOUS
  <2>1. pc[d] = "idle" /\ \E state : pc' = [pc EXCEPT ![d] = state]
    BY DEF Request, StartAddHostKey, StartSafety, CreateCheckpoint, StartResume, StartDryRun,
           StartChecksums, VerifyEndpoint, StartVerify, Start, AnswerAtOnce, Runs, In
  <2> QED BY <1>1, <2>1 DEF TypeOK
<1>3. \A d \in Calls : ~OrphanEnds(d)
  <2> SUFFICES ASSUME NEW d \in Calls, OrphanEnds(d) PROVE FALSE
    OBVIOUS
  <2>1. pc[d] = "orphan" /\ pc' = [pc EXCEPT ![d] = "done"]
    BY DEF OrphanEnds, In, Answer
  <2> QED BY <1>1, <2>1 DEF TypeOK
<1>4. \A d \in Calls : CallStep(d) => d = c
  <2> SUFFICES ASSUME NEW d \in Calls, CallStep(d), d # c PROVE FALSE
    OBVIOUS
  <2>1. \E state : pc' = [pc EXCEPT ![d] = state]
    BY <1>1 DEF CallStep, AddHostKey, ProbeTarget, FindDataset, CreateZfsSnapshot, EndBackup,
           ConfirmBackup, EndResume, EndDryRun, EndChecksums, TestFile, CompareFile, EndVerify,
           Fails, Answer, Goto, TypeOK
  <2> QED BY <1>1, <2>1 DEF TypeOK
<1>5. \A d \in Calls, f \in Files : ~FileStep(d, f)
  BY <1>1 DEF FileStep, CopyToBackup, TransferFile, ChecksumFile
<1>6. \A f \in Files, v \in Version : ~WriteSource(f, v) /\ ~WriteTarget(f, v)
  BY <1>1 DEF WriteSource, WriteTarget
<1>7. ~Crash
  BY <1>1 DEF Crash
<1> QED BY <1>2, <1>3, <1>4, <1>5, <1>6, <1>7 DEF Next

\* The step in which a call answers as it does.
LEMMA EndsOfCalls ==
  ASSUME IInv, Next, NEW c \in Calls
  PROVE  /\ Answers(c, "verify", "ok") =>
              pc[c] = "test" /\ todo[c] = {} /\ Passed(c)
         /\ Answers(c, "resume", "ok") =>
              /\ pc[c] = "rsync" /\ todo[c] = {} /\ source' = source
              /\ target' = [f \in Files |-> IF expected[c][f] = 0 THEN 0 ELSE target[f]]
         /\ Answers(c, "safety", "ok") => pc[c] = "confirm"
<1>1. CallInv(c) /\ TypeOK
  BY DEF IInv
<1>2. ASSUME NEW op \in {"verify", "resume", "safety"}, Answers(c, op, "ok")
      PROVE  \/ op = "verify" /\ pc[c] \in {"test", "digest"}
             \/ op = "resume" /\ pc[c] = "rsync"
             \/ op = "safety" /\ pc[c] \in {"probe", "dataset", "snapshot", "copy", "confirm"}
  BY <1>1, <1>2 DEF Answers, CallInv, Shape, Busy
<1>3. ASSUME NEW op \in {"verify", "resume", "safety"}, Answers(c, op, "ok")
      PROVE  CallStep(c) /\ pc[c] # "done" /\ pc'[c] = "done" /\ answer'[c] = "ok"
  BY <1>3, HowCallsEnd DEF Answers, Busy
<1>4. ASSUME NEW state, Goto(c, state), pc'[c] = "done" PROVE state = "done"
  BY <1>1, <1>4 DEF Goto, TypeOK
<1>5. ASSUME NEW verdict, Answer(c, verdict), answer'[c] = "ok" PROVE verdict = "ok"
  BY <1>1, <1>5 DEF Answer, TypeOK
<1>6. ASSUME Answers(c, "verify", "ok")
      PROVE  pc[c] = "test" /\ todo[c] = {} /\ Passed(c)
  <2>1. TestFile(c) \/ CompareFile(c) \/ EndVerify(c)
    BY <1>2, <1>3, <1>6 DEF CallStep, AddHostKey, ProbeTarget, FindDataset, CreateZfsSnapshot, EndBackup,
       ConfirmBackup, EndResume, EndDryRun, EndChecksums, Runs, In
  <2>2. ~TestFile(c)
    BY <1>3, <1>4, <1>6 DEF TestFile
  <2>3. ~CompareFile(c)
    BY <1>3, <1>4, <1>6 DEF CompareFile
  <2> QED BY <1>3, <1>5, <1>6, <2>1, <2>2, <2>3 DEF EndVerify, Runs, In
<1>7. ASSUME Answers(c, "resume", "ok")
      PROVE  /\ pc[c] = "rsync" /\ todo[c] = {} /\ source' = source
             /\ target' = [f \in Files |-> IF expected[c][f] = 0 THEN 0 ELSE target[f]]
  <2>1. EndResume(c) /\ pc[c] = "rsync"
    BY <1>2, <1>3, <1>7 DEF CallStep, AddHostKey, ProbeTarget, FindDataset, CreateZfsSnapshot, EndBackup,
       ConfirmBackup, TestFile, CompareFile, EndVerify, EndDryRun, EndChecksums, Runs, In
  <2>2. ~Fails(c)
    BY <1>3, <1>5, <1>7 DEF Fails
  <2> QED BY <2>1, <2>2 DEF EndResume, DeleteOthers
<1>8. ASSUME Answers(c, "safety", "ok")
      PROVE  pc[c] = "confirm"
  <2>1. ProbeTarget(c) \/ FindDataset(c) \/ CreateZfsSnapshot(c) \/ EndBackup(c) \/ ConfirmBackup(c)
    BY <1>2, <1>3, <1>8 DEF CallStep, AddHostKey, EndResume, TestFile, CompareFile,
       EndVerify, EndDryRun, EndChecksums, Runs, In
  <2>2. ~Fails(c)
    BY <1>3, <1>5, <1>8 DEF Fails
  <2>3. ~ProbeTarget(c) /\ ~FindDataset(c) /\ ~CreateZfsSnapshot(c) /\ ~EndBackup(c)
    BY <1>3, <1>4, <1>8, <2>2 DEF ProbeTarget, FindDataset, CreateZfsSnapshot, EndBackup
  <2> QED BY <2>1, <2>3 DEF ConfirmBackup, Runs, In
<1> QED BY <1>6, <1>7, <1>8

-----------------------------------------------------------------------------
(* What the answers are worth. *)

\* A verification that passes has found, for every file of its checksums but those
\* it had no checksum of, what the target held at some moment since it began, and
\* holds still when nobody else wrote; and there is such a file.
THEOREM VerifiedCorrect == Spec => VerifiedIsTrue
<1> DEFINE Verified(c) ==
             Answers(c, "verify", "ok") =>
               /\ Told(c) # {}
               /\ \A f \in Told(c) : <<f, expected[c][f]>> \in seen[c]
               /\ calm[c] => \A f \in Told(c) : target[f] = expected[c][f]
<1>1. ASSUME IInv, Next, NEW c \in Calls
      PROVE  Verified(c)
  <2> SUFFICES ASSUME Answers(c, "verify", "ok")
               PROVE  /\ Told(c) # {}
                      /\ \A f \in Told(c) : <<f, expected[c][f]>> \in seen[c]
                      /\ calm[c] => \A f \in Told(c) : target[f] = expected[c][f]
    OBVIOUS
  <2>1. /\ pc[c] = "test" /\ todo[c] = {} /\ Passed(c)
        /\ Verifies(c) /\ Verifying(c) /\ TypeOK
    BY <1>1, EndsOfCalls DEF Verifies, IInv, CallInv
  <2>2. ASSUME NEW f \in Told(c) PROVE f \in Files /\ tally[c][f] = "matched"
    <3>1. f \in Files /\ expected[c][f] # 0 /\ tally[c][f] # "error"
      BY DEF Told, Listed
    <3>2. tally[c][f] \in Findings /\ tally[c][f] # "none"
      BY <2>1, <3>1 DEF Verifying, TypeOK
    <3> QED BY <2>1, <3>1, <3>2 DEF Passed, Has, Findings
  <2>3. Told(c) # {}
    <3>1. PICK f \in Files : tally[c][f] = "matched"
      BY <2>1 DEF Passed, Has
    <3>2. expected[c][f] # 0
      BY <2>1, <3>1 DEF Verifying
    <3> QED BY <3>1, <3>2 DEF Told, Listed
  <2> QED BY <2>1, <2>2, <2>3 DEF Verifying
<1>2. ASSUME UNCHANGED vars, NEW c \in Calls
      PROVE  Verified(c)
  BY <1>2 DEF Answers, Busy, vars
<1> HIDE DEF Verified
<1>3. IInv /\ [Next]_vars => [\A c \in Calls : Verified(c)]_vars
  BY <1>1
<1>4. Spec => [][\A c \in Calls : Verified(c)]_vars
  BY <1>3, Invariance, PTL DEF Spec
<1> QED BY <1>4 DEF VerifiedIsTrue, Verified

\* A resumption that succeeds while nobody else writes leaves the target as the
\* source: all it listed has arrived, and what it did not list is deleted.
THEOREM ResumedCorrect == Spec => ResumedIsComplete
<1> DEFINE Resumed(c) == Answers(c, "resume", "ok") /\ calm[c] => target' = source
<1>1. ASSUME IInv, Next, NEW c \in Calls
      PROVE  Resumed(c)
  <2> SUFFICES ASSUME Answers(c, "resume", "ok"), calm[c]
               PROVE  target' = source
    OBVIOUS
  <2>1. /\ pc[c] = "rsync" /\ todo[c] = {}
        /\ target' = [f \in Files |-> IF expected[c][f] = 0 THEN 0 ELSE target[f]]
    BY <1>1, EndsOfCalls
  <2>2. /\ expected[c] = source
        /\ \A f \in Files : source[f] # 0 => target[f] = source[f]
    BY <1>1, <2>1 DEF IInv, CallInv, Resuming
  <2>3. source \in [Files -> Version]
    BY <1>1 DEF IInv, TypeOK, Listing
  <2>4. \A f \in Files : target'[f] = source[f]
    BY <2>1, <2>2
  <2> QED BY <2>1, <2>3, <2>4
<1>2. ASSUME UNCHANGED vars, NEW c \in Calls
      PROVE  Resumed(c)
  BY <1>2 DEF Answers, Busy, vars
<1> HIDE DEF Resumed
<1>3. IInv /\ [Next]_vars => [\A c \in Calls : Resumed(c)]_vars
  BY <1>1
<1>4. Spec => [][\A c \in Calls : Resumed(c)]_vars
  BY <1>3, Invariance, PTL DEF Spec
<1> QED BY <1>4 DEF ResumedIsComplete, Resumed

\* A safety snapshot that is reported holds the whole target, if nobody wrote
\* meanwhile and, when it is a directory, no other backup took its name.
THEOREM RollbackCorrect == Spec => RollbackIsThere
<1> DEFINE Rollback(c) ==
      Answers(c, "safety", "ok") /\ calm[c] /\ Own(c) => backup[named[c]] = target
<1>1. ASSUME IInv, Next, NEW c \in Calls
      PROVE  Rollback(c)
  <2>1. Answers(c, "safety", "ok") => pc[c] = "confirm"
    BY <1>1, EndsOfCalls
  <2> QED BY <1>1, <2>1 DEF IInv, CallInv, BackingUp
<1>2. ASSUME UNCHANGED vars, NEW c \in Calls
      PROVE  Rollback(c)
  BY <1>2 DEF Answers, Busy, vars
<1> HIDE DEF Rollback
<1>3. IInv /\ [Next]_vars => [\A c \in Calls : Rollback(c)]_vars
  BY <1>1
<1>4. Spec => [][\A c \in Calls : Rollback(c)]_vars
  BY <1>3, Invariance, PTL DEF Spec
<1> QED BY <1>4 DEF RollbackIsThere, Rollback

=============================================================================
