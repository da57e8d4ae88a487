-------------------------------- MODULE ZfsHost --------------------------------
(***************************************************************************)
(* The dataset and the pool service at work on one pool: their calls       *)
(* interleave at every command, and what one does to the pool and its      *)
(* datasets is what the next command of the others finds.                  *)
(***************************************************************************)
EXTENDS PoolService, DatasetService

vars == <<poolVars, callVars, stateSeen, datasetVars>>

Init == InitCalls /\ InitPool /\ InitDataset

TypeOK ==
  /\ PoolTypeOK
  /\ CallTypeOK(PoolCommands \cup DatasetCommands)
  /\ stateSeen \in [Calls -> States \cup {"UNKNOWN"}]
  /\ DatasetTypeOK

\* Exporting a pool unmounts its datasets, importing it mounts them.
PoolMoves ==
  /\ ds' = IF imported' = imported THEN ds
           ELSE [n \in Names |-> IF ds[n] = Absent THEN Absent
                                 ELSE [ds[n] EXCEPT !.mounted = imported']]
  /\ UNCHANGED <<ids, view>>

Next ==
  \/ \E c \in Calls : \E r \in Asks[c] :
       \/ PoolEndpoint(c, r) /\ UNCHANGED datasetVars
       \/ DatasetEndpoint(c, r) /\ UNCHANGED stateSeen
  \/ \E c \in Calls : PoolStep(c) /\ PoolMoves
  \/ \E c \in Calls : DatasetStep(c) /\ UNCHANGED stateSeen
  \/ (PoolChanges \/ ScrubEnds) /\ UNCHANGED datasetVars

Spec == Init /\ [][Next]_vars

-----------------------------------------------------------------------------
Promise == [start |-> "started", stop |-> "stopped", export |-> "exported",
            import |-> "imported", create |-> "created", destroy |-> "destroyed",
            set |-> "set", mount |-> "mounted", unmount |-> "unmounted"]

\* The dataset id bears the name n, or bore it when it was there.
Was(n, id) ==
  \/ id # 0 /\ id = FirstId[n]
  \/ \E d \in Calls : <<"created", id, 0>> \in effects[d] /\ Name(d) = n

\* The names whose datasets c may change.
Scope(c) == {Name(c)} \cup IF Op(c) = "destroy" /\ req[c].recursive THEN Under[Name(c)] ELSE {}

\* A call that answers with success has itself brought about what was asked for,
\* on the dataset it was asked for, and no call, however it ends, does anything
\* else or touches another dataset, but for those below the one it was told to
\* destroy with them: a start or a stop that finds the work done by another call is
\* a failure, a command that was killed is never taken for a success, and reading
\* changes nothing.
AnswersAreTrue ==
  \A c \in Calls :
    /\ answer[c] = "ok" /\ Op(c) \in DOMAIN Promise =>
         \E e \in effects[c] : /\ e[1] = Promise[Op(c)]
                               /\ Op(c) \in DatasetOps => Was(Name(c), e[2])
    /\ \A e \in effects[c] :
         /\ Op(c) \in DOMAIN Promise /\ e[1] = Promise[Op(c)]
         /\ Op(c) \in DatasetOps => \E n \in Scope(c) : Was(n, e[2])

Gone(id) == \A n \in Names : ds[n] # Absent => ds[n].id # id

DoneBefore(c) == UNION {effects[d] : d \in {e \in before[c] : answer[e] = "ok"}}

\* What create, get and monitor show is read by two commands with other calls in
\* between.  The dataset the first was about is gone if the second was about
\* another; a create shows what it created unless that is gone; and nothing shown
\* is older than what was acknowledged before the call was made: no dataset whose
\* destruction was, no properties from before a write that was.
ReadsAreCurrent ==
  \A c \in Calls :
    answer[c] = "ok" /\ Op(c) \in {"create", "get", "monitor"} =>
      /\ view[c].first # view[c].second => Gone(view[c].first)
      /\ \A e \in effects[c] : e[2] = view[c].second \/ Gone(e[2])
      /\ \A e \in DoneBefore(c) :
           /\ e[1] = "destroyed" => e[2] \notin {view[c].first, view[c].second}
           /\ e[1] = "set" /\ e[2] = view[c].second /\ Op(c) # "monitor" =>
                e[3] <= view[c].version
===============================================================================
