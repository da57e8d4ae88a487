------------------------------- MODULE ZfsCalls -------------------------------
(***************************************************************************)
(* What the calls of the dataset and the pool service share: the table of  *)
(* API calls in flight, the pool they work on and how one command ends for *)
(* its caller (CommandExecutor, backend/zfs_operations/infrastructure/     *)
(* command_executor.py).                                                   *)
(*                                                                         *)
(* A call suspends only while one of its commands runs; pc[c] is the       *)
(* command the call c waits for.                                           *)
(***************************************************************************)
EXTENDS Naturals

CONSTANTS Calls,        \* API calls
          Requests,     \* what they may ask for
          Asks,         \* Asks[c]: what c may ask for
          States,       \* states a pool can be in, "ONLINE" among them
          MaxScrubs,    \* bound on the scrubs of the pool
          NoRequest

VARIABLES imported,     \* whether the pool is there
          state,        \* its state
          scrub,        \* the number of the scrub that runs, or 0
          scrubs,       \* scrubs started so far
          pc, req, answer,
          effects,      \* history: what the commands of a call really did
          before        \* history: the calls answered before a call was made

poolVars == <<imported, state, scrub, scrubs>>

callVars == <<pc, req, answer, effects, before>>

Effect == {"started", "stopped", "exported", "imported", "created", "destroyed",
           "set", "mounted", "unmounted"}

ASSUME CallAssumption ==
  /\ Asks \in [Calls -> SUBSET Requests]
  /\ "ONLINE" \in States
  /\ MaxScrubs \in Nat
  /\ NoRequest \notin Requests

PoolTypeOK ==
  /\ imported \in BOOLEAN
  /\ state \in States
  /\ scrubs \in 0..MaxScrubs
  /\ scrub \in 0..scrubs

CallTypeOK(commands) ==
  /\ pc \in [Calls -> commands \cup {"idle", "answered"}]
  /\ req \in [Calls -> Requests \cup {NoRequest}]
  /\ answer \in [Calls -> {"none", "ok", "error", "failed"}]
  /\ effects \in [Calls -> SUBSET (Effect \X Nat \X Nat)]
  /\ before \in [Calls -> SUBSET Calls]

InitCalls ==
  /\ imported = TRUE
  /\ state = "ONLINE"
  /\ scrub = 0
  /\ scrubs = 0
  /\ pc = [c \in Calls |-> "idle"]
  /\ req = [c \in Calls |-> NoRequest]
  /\ answer = [c \in Calls |-> "none"]
  /\ effects = [c \in Calls |-> {}]
  /\ before = [c \in Calls |-> {}]

Op(c) == req[c].op

\* The commands of c did these things, each <<what, to which one, version>>.
Did(c, things) ==
  /\ effects' = [effects EXCEPT ![c] = @ \cup things]
  /\ UNCHANGED before

NoEffect == UNCHANGED <<poolVars, effects, before>>

Begin(c, r, command) ==
  /\ pc[c] = "idle"
  /\ req' = [req EXCEPT ![c] = r]
  /\ pc' = [pc EXCEPT ![c] = command]
  /\ before' = [before EXCEPT ![c] = {d \in Calls : pc[d] = "answered"}]
  /\ UNCHANGED <<answer, effects>>

Goto(c, command) ==
  /\ pc' = [pc EXCEPT ![c] = command]
  /\ UNCHANGED <<req, answer>>

\* Every failure reaches the client as a 500: the HTTPException a router raises
\* for it is caught by its own `except Exception`.  "error" is a success to HTTP
\* whose body holds the error.
Answer(c, verdict) ==
  /\ pc' = [pc EXCEPT ![c] = "answered"]
  /\ answer' = [answer EXCEPT ![c] = verdict]
  /\ UNCHANGED req

\* A command did its work, did nothing, or was killed by the timeout and reads
\* like a failure though its work may be done.
Outcomes == {"ok", "failed", "late"}

===============================================================================
