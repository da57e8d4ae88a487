------------------------------- MODULE EventHub -------------------------------
(***************************************************************************)
(* The WebSocket hub (backend/api/websocket.py): ConnectionManager, which  *)
(* keeps four maps about connections, EventBroadcaster, which sends queued *)
(* events to all of them, and the endpoint coroutines of the connections.  *)
(*                                                                         *)
(* Code suspends only in a send, in a receive and in the wait for the      *)
(* queue.  An action is all the code between two of these.  In particular  *)
(* `disconnect`, `subscribe` and `unsubscribe` never suspend.              *)
(***************************************************************************)
EXTENDS Naturals, Sequences, FiniteSets

CONSTANTS Users,
          Anonymous,        \* a connection without a token
          MaxConnections, MaxEvents, MaxStarts      \* bounds on counters

ASSUME HubAssumption ==
  /\ Anonymous \notin Users
  /\ MaxConnections \in Nat /\ MaxEvents \in Nat /\ MaxStarts \in Nat

VARIABLES connection_counter,
          active_connections,   \* the keys of the map
          user_connections, connection_users,
          subscriptions,        \* the keys of the map
          socket,               \* id -> the peer's end of the connection
          pc,                   \* id -> where its endpoint is suspended
          event_queue, running,
          worker, bc,           \* the broadcaster's task and its broadcast
          notice,               \* the message that goes to one user
          emitted, starts, finished,    \* events put, starts, task_done calls
          inbox                 \* history: id -> the events sent to it

maps == <<active_connections, user_connections, connection_users, subscriptions>>

queueVars == <<event_queue, running, worker, bc, emitted, starts, finished, inbox>>

vars == <<connection_counter, maps, socket, pc, notice, queueVars>>

\* Connection ids are handed out in order, which is also the order in which
\* active_connections iterates.
Ids == 1..MaxConnections

Events == 1..MaxEvents

\* event; the size and the counter when the iteration began; the connection
\* being sent to; disconnected_connections.
Broadcast == [event : 0..MaxEvents, size : 0..MaxConnections,
              known : 0..MaxConnections, at : 0..MaxConnections,
              failed : SUBSET Ids]

NoBroadcast == [event |-> 0, size |-> 0, known |-> 0, at |-> 0, failed |-> {}]

\* left: what is left of the loop over the copy of the user's connections;
\* missed: history, whom it passed without a message.
Notice == [left : SUBSET Ids, missed : SUBSET Ids]

NoNotice == [left |-> {}, missed |-> {}]

TypeOK ==
  /\ connection_counter \in 0..MaxConnections
  /\ active_connections \subseteq 1..connection_counter
  /\ user_connections \in UNION {[U -> SUBSET Ids] : U \in SUBSET Users}
  /\ connection_users \in UNION {[C -> Users] : C \in SUBSET Ids}
  /\ subscriptions \subseteq Ids
  /\ socket \in [Ids -> {"none", "open", "draining", "closed"}]
  /\ pc \in [Ids -> {"none", "sending", "receiving", "ended"}]
  /\ event_queue \in Seq(Events)
  /\ running \in BOOLEAN
  /\ worker \in {"down", "waiting", "sending"}
  /\ bc \in Broadcast
  /\ notice \in Notice
  /\ emitted \in 0..MaxEvents /\ starts \in 0..MaxStarts /\ finished \in 0..emitted
  /\ inbox \in [Ids -> Seq(Events)]

Nowhere == [x \in {} |-> {}]

Init ==
  /\ connection_counter = 0
  /\ active_connections = {}
  /\ user_connections = Nowhere
  /\ connection_users = Nowhere
  /\ subscriptions = {}
  /\ socket = [c \in Ids |-> "none"]
  /\ pc = [c \in Ids |-> "none"]
  /\ event_queue = <<>>
  /\ running = FALSE
  /\ worker = "down"
  /\ bc = NoBroadcast
  /\ notice = NoNotice
  /\ emitted = 0 /\ starts = 0 /\ finished = 0
  /\ inbox = [c \in Ids |-> <<>>]

-----------------------------------------------------------------------------
(* ConnectionManager *)

Without(f, D) == [x \in DOMAIN f \ D |-> f[x]]

\* A defaultdict creates the entry it is asked for.
At(f, x) == IF x \in DOMAIN f THEN f[x] ELSE {}

With(f, x, S) == [y \in DOMAIN f \cup {x} |-> IF y = x THEN S ELSE f[y]]

OwnedBy(u, D) == {c \in D \cap DOMAIN connection_users : connection_users[c] = u}

Emptied(D) == {u \in DOMAIN user_connections :
                 OwnedBy(u, D) # {} /\ user_connections[u] \subseteq OwnedBy(u, D)}

\* Mutant: a user without connections keeps an empty entry.
Disconnect_KeepsUser(D) ==
  /\ active_connections' = active_connections \ D
  /\ user_connections' = [u \in DOMAIN user_connections |->
                            user_connections[u] \ OwnedBy(u, D)]
  /\ connection_users' = Without(connection_users, D)
  /\ subscriptions' = subscriptions \ D

\* disconnect, of every connection in D.
Disconnect(D) ==
  /\ active_connections' = active_connections \ D
  /\ user_connections' = [u \in DOMAIN user_connections \ Emptied(D) |->
                            user_connections[u] \ OwnedBy(u, D)]
  /\ connection_users' = Without(connection_users, D)
  /\ subscriptions' = subscriptions \ D

\* How a send to c ends: only to a peer that is gone can it fail, and it need
\* not fail then.
SendResult(c, ok) == ok \in {b \in BOOLEAN : socket[c] = "open" => b}

\* The websocket was accepted; a user is sent a welcome.
Connect(u) ==
  LET c == connection_counter + 1
  IN  /\ connection_counter < MaxConnections
      /\ connection_counter' = c
      /\ active_connections' = active_connections \cup {c}
      /\ socket' = [socket EXCEPT ![c] = "open"]
      /\ IF u = Anonymous
         THEN /\ pc' = [pc EXCEPT ![c] = "receiving"]
              /\ UNCHANGED <<user_connections, connection_users>>
         ELSE /\ pc' = [pc EXCEPT ![c] = "sending"]
              /\ user_connections' =
                   With(user_connections, u, At(user_connections, u) \cup {c})
              /\ connection_users' = With(connection_users, c, u)
      /\ UNCHANGED <<subscriptions, notice, queueVars>>

\* Mutant: whoever sends a message is taken to be connected.
Subscribe_Unguarded(c) == subscriptions' = subscriptions \cup {c}

\* The entry of c is there from the first subscription on; what is in it, and
\* so all that unsubscribe does, makes no difference: broadcast never looks.
Subscribe(c) ==
  IF c \in active_connections
  THEN subscriptions' = subscriptions \cup {c}
  ELSE UNCHANGED subscriptions

-----------------------------------------------------------------------------
(* The endpoint of connection c *)

\* A message of the client was received and handled up to the reply; there is
\* none to a connection that the hub has dropped.
Receive(c) ==
  /\ pc[c] = "receiving" /\ socket[c] \in {"open", "draining"}
  /\ Subscribe(c) \/ UNCHANGED subscriptions
  /\ pc' = [pc EXCEPT ![c] = IF c \in active_connections THEN "sending" ELSE "receiving"]
  /\ socket' = [socket EXCEPT ![c] = IF @ = "draining" THEN "closed" ELSE @]
  /\ UNCHANGED <<connection_counter, active_connections, user_connections,
                 connection_users, notice, queueVars>>

\* send_personal_message of a welcome or a reply is over.
Replied(c) ==
  /\ pc[c] = "sending"
  /\ \E ok \in BOOLEAN :
       /\ SendResult(c, ok)
       /\ Disconnect(IF ok THEN {} ELSE {c})
  /\ pc' = [pc EXCEPT ![c] = "receiving"]
  /\ UNCHANGED <<connection_counter, socket, notice, queueVars>>

\* Mutant: the endpoint leaves the clean-up to the next failed send.
SeeDisconnect_NoFinally(c) ==
  /\ pc[c] = "receiving" /\ socket[c] = "closed"
  /\ pc' = [pc EXCEPT ![c] = "ended"]
  /\ UNCHANGED <<connection_counter, maps, socket, notice, queueVars>>

SeeDisconnect(c) ==
  /\ pc[c] = "receiving" /\ socket[c] = "closed"
  /\ Disconnect({c})
  /\ pc' = [pc EXCEPT ![c] = "ended"]
  /\ UNCHANGED <<connection_counter, socket, notice, queueVars>>

\* receive_text finds no text in a binary frame: the exception ends the endpoint
\* like a disconnect does, with the peer still there until the server closes the
\* connection (PeerLeaves).
ReceiveBytes(c) ==
  /\ pc[c] = "receiving" /\ socket[c] \in {"open", "draining"}
  /\ Disconnect({c})
  /\ pc' = [pc EXCEPT ![c] = "ended"]
  /\ socket' = [socket EXCEPT ![c] = IF @ = "draining" THEN "closed" ELSE @]
  /\ UNCHANGED <<connection_counter, notice, queueVars>>

\* The peer goes away, perhaps with a last message on its way.
PeerLeaves(c) ==
  /\ socket[c] = "open"
  /\ \E s \in {"draining", "closed"} : socket' = [socket EXCEPT ![c] = s]
  /\ UNCHANGED <<connection_counter, maps, pc, notice, queueVars>>

EndpointStep(c) ==
  \/ Replied(c) \/ SeeDisconnect(c)
  \/ socket[c] = "draining" /\ (Receive(c) \/ ReceiveBytes(c))

-----------------------------------------------------------------------------
(* A message to all connections of a user: send_user_message. *)

EmitToUser(u) ==
  /\ notice.left = {}
  /\ notice' = [left |-> At(user_connections, u), missed |-> {}]
  /\ UNCHANGED <<connection_counter, maps, socket, pc, queueVars>>

\* Mutant: the loop runs over the set itself, and breaks off when it changed.
NoticeSent_Live ==
  \E c \in notice.left, ok \in BOOLEAN :
    LET reached == ok /\ c \in active_connections
    IN  /\ SendResult(c, ok)
        /\ Disconnect(IF ok \/ c \notin active_connections THEN {} ELSE {c})
        /\ notice' = IF reached THEN [notice EXCEPT !.left = @ \ {c}]
                                ELSE [left |-> {}, missed |-> notice.missed \cup notice.left]
        /\ UNCHANGED <<connection_counter, socket, pc, queueVars>>

\* One turn of its loop, which skips who is no longer connected.
NoticeSent ==
  \E c \in notice.left, ok \in BOOLEAN :
    LET reached == ok /\ c \in active_connections
    IN  /\ SendResult(c, ok)
        /\ Disconnect(IF ok \/ c \notin active_connections THEN {} ELSE {c})
        /\ notice' = [left |-> notice.left \ {c},
                      missed |-> IF reached THEN notice.missed ELSE notice.missed \cup {c}]
        /\ UNCHANGED <<connection_counter, socket, pc, queueVars>>

-----------------------------------------------------------------------------
(* EventBroadcaster *)

\* The emit_* functions: every event for all goes through the queue.
Emit ==
  /\ emitted < MaxEvents
  /\ emitted' = emitted + 1
  /\ event_queue' = Append(event_queue, emitted + 1)
  /\ UNCHANGED <<connection_counter, maps, socket, pc, notice,
                 running, worker, bc, starts, finished, inbox>>

Resting(goesOn) == IF goesOn THEN "waiting" ELSE "down"

IsFirst(c, S) == c \in S /\ \A d \in S : c \leq d

\* _worker has an event and enters the loop of broadcast.
Take(goesOn) ==
  /\ worker = "waiting" /\ event_queue # <<>>
  /\ event_queue' = Tail(event_queue)
  /\ running' = goesOn
  /\ IF active_connections = {}
     THEN /\ finished' = finished + 1
          /\ worker' = Resting(goesOn)
          /\ UNCHANGED bc
     ELSE /\ worker' = "sending"
          /\ \E c \in Ids :
               /\ IsFirst(c, active_connections)
               /\ bc' = [event |-> Head(event_queue),
                         size |-> Cardinality(active_connections),
                         known |-> connection_counter, at |-> c, failed |-> {}]
          /\ UNCHANGED finished
  /\ UNCHANGED <<connection_counter, maps, socket, pc, notice, emitted, starts, inbox>>

\* active_connections got a new key since the iteration began.  At the same
\* size the iterator does not notice; depending on where the dict keeps its
\* entries it goes on, jumps over some, ends early, or raises an error.
Grown == connection_counter # bc.known

SameSize == Cardinality(active_connections) = bc.size

Later == {c \in active_connections : c > bc.at}

GoesOnTo(c) ==
  /\ SameSize /\ c \in Later
  /\ Grown \/ IsFirst(c, Later)

Ends == SameSize /\ (Later = {} \/ Grown)

Breaks == ~SameSize \/ Grown

\* Mutant: an event whose broadcast failed is put back.
BroadcastFails_Requeues ==
  /\ event_queue' = Append(event_queue, bc.event)
  /\ worker' = Resting(running)
  /\ bc' = NoBroadcast
  /\ UNCHANGED <<maps, finished>>

\* Mutant: the worker returns from its except clause.
BroadcastFails_Returns ==
  /\ worker' = "down"
  /\ bc' = NoBroadcast
  /\ UNCHANGED <<maps, event_queue, finished>>

\* RuntimeError: the event is dropped, and so is what was to be disconnected.
BroadcastFails ==
  /\ worker' = Resting(running)
  /\ bc' = NoBroadcast
  /\ UNCHANGED <<maps, event_queue, finished>>

\* Mutant: broadcast calls task_done, and so does the worker.
BroadcastEnds_DoneTwice(failed) ==
  /\ Disconnect(failed)
  /\ finished' = finished + 2
  /\ worker' = Resting(running)
  /\ bc' = NoBroadcast
  /\ UNCHANGED event_queue

BroadcastEnds(failed) ==
  /\ Disconnect(failed)
  /\ finished' = finished + 1
  /\ worker' = Resting(running)
  /\ bc' = NoBroadcast
  /\ UNCHANGED event_queue

\* Mutant: a failed send ends the loop.
BroadcastSent_Returns ==
  /\ worker = "sending"
  /\ \E ok \in BOOLEAN :
       LET failed == IF ok THEN bc.failed ELSE bc.failed \cup {bc.at}
       IN  /\ SendResult(bc.at, ok)
           /\ inbox' = IF ok THEN [inbox EXCEPT ![bc.at] = Append(@, bc.event)] ELSE inbox
           /\ \/ \E c \in Ids : /\ GoesOnTo(c) /\ ok
                                /\ bc' = [bc EXCEPT !.at = c, !.failed = failed]
                                /\ UNCHANGED <<maps, event_queue, worker, finished>>
              \/ (Ends \/ ~ok) /\ BroadcastEnds(failed)
              \/ Breaks /\ BroadcastFails
  /\ UNCHANGED <<connection_counter, socket, pc, notice, running, emitted, starts>>

\* The send to bc.at is over; the loop asks for the next connection.
BroadcastSent ==
  /\ worker = "sending"
  /\ \E ok \in BOOLEAN :
       LET failed == IF ok THEN bc.failed ELSE bc.failed \cup {bc.at}
       IN  /\ SendResult(bc.at, ok)
           /\ inbox' = IF ok THEN [inbox EXCEPT ![bc.at] = Append(@, bc.event)] ELSE inbox
           /\ \/ \E c \in Ids : /\ GoesOnTo(c)
                                /\ bc' = [bc EXCEPT !.at = c, !.failed = failed]
                                /\ UNCHANGED <<maps, event_queue, worker, finished>>
              \/ Ends /\ BroadcastEnds(failed)
              \/ Breaks /\ BroadcastFails
  /\ UNCHANGED <<connection_counter, socket, pc, notice, running, emitted, starts>>

Start ==
  /\ ~running /\ worker = "down"
  /\ starts < MaxStarts
  /\ starts' = starts + 1
  /\ running' = TRUE
  /\ worker' = "waiting"
  /\ UNCHANGED <<connection_counter, maps, socket, pc, notice,
                 event_queue, bc, emitted, finished, inbox>>

\* stop cancels the worker and waits for its end.  A cancelled broadcast is
\* over, whether or not its last send went out.  A wait that has its message
\* already may return it all the same (Python 3.11): that one is broadcast.
Stop ==
  /\ running
  /\ \/ Take(FALSE)
     \/ /\ running' = FALSE
        /\ worker' = "down"
        /\ bc' = NoBroadcast
        /\ \/ UNCHANGED inbox
           \/ /\ worker = "sending"
              /\ inbox' = [inbox EXCEPT ![bc.at] = Append(@, bc.event)]
        /\ UNCHANGED <<connection_counter, maps, socket, pc, notice,
                       event_queue, emitted, starts, finished>>

WorkerStep == Take(TRUE) \/ BroadcastSent

Next ==
  \/ \E u \in Users \cup {Anonymous} : Connect(u)
  \/ \E c \in Ids : \/ Receive(c) \/ ReceiveBytes(c) \/ Replied(c)
                    \/ SeeDisconnect(c) \/ PeerLeaves(c)
  \/ \E u \in Users : EmitToUser(u)
  \/ NoticeSent
  \/ Emit \/ WorkerStep \/ Start \/ Stop

Spec == Init /\ [][Next]_vars

\* The event loop resumes whoever can go on.  Sends end: the server's
\* keep-alive closes a connection whose peer has stopped reading.
FairSpec == Spec /\ WF_vars(WorkerStep) /\ \A c \in Ids : WF_vars(EndpointStep(c))

-----------------------------------------------------------------------------
(* Properties. *)

\* The four maps agree at every suspension, although broadcasts, notices and
\* the endpoint itself all disconnect: a user's entry lists exactly its
\* connections and none is empty, and a dropped connection leaves nothing
\* behind, not even by a message that its endpoint still handles.  Who is
\* connected has an endpoint that has not returned.
MapsAgree ==
  /\ DOMAIN connection_users \subseteq active_connections
  /\ subscriptions \subseteq active_connections
  /\ DOMAIN user_connections = {connection_users[c] : c \in DOMAIN connection_users}
  /\ \A u \in DOMAIN user_connections :
       user_connections[u] = {c \in DOMAIN connection_users : connection_users[c] = u}
  /\ \A c \in active_connections : pc[c] \in {"sending", "receiving"}

\* Events reach a connection in the order they were emitted and none twice,
\* across failed broadcasts, stops and restarts of the broadcaster.
BroadcastsInOrder ==
  \A c \in Ids : \A i, j \in 1..Len(inbox[c]) : i < j => inbox[c][i] < inbox[c][j]

\* A notice to a user passes by none of the user's connections that still
\* works, also when others of them go away under way.
NoticeReachesUser ==
  \A c \in notice.missed : ~(c \in active_connections /\ socket[c] = "open")

Holds(s, e) == \E i \in 1..Len(s) : s[i] = e

\* A broadcast that is done, with nobody connecting under way, was sent to all
\* that are connected.
DoneReachesAll ==
  [][worker = "sending" /\ finished' # finished /\ connection_counter = bc.known
       => \A c \in active_connections' : socket[c] = "open" => Holds(inbox'[c], bc.event)]_vars

\* A peer that went away is eventually forgotten, whatever its endpoint was
\* busy with and whether or not anything is broadcast.
GoneAreForgotten ==
  \A c \in Ids : socket[c] \in {"draining", "closed"} ~> c \notin active_connections

\* While the broadcaster runs, no event stays in the queue, however many come
\* after it: no failed broadcast stops the worker.
QueueDrains ==
  \A e \in Events : Holds(event_queue, e) ~> ~Holds(event_queue, e) \/ ~running
===============================================================================
