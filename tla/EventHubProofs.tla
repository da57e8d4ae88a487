---------------------------- MODULE EventHubProofs ----------------------------
(***************************************************************************)
(* Proofs about EventHub, for any users and bounds.                        *)
(*                                                                         *)
(* MapsAgree is inductive with the types.  The order of events needs that  *)
(* every event is in one place only: sent, being sent to the connections   *)
(* from bc.at on, or in the queue, in this order.  That a broadcast        *)
(* without new connections reaches all needs a count: as long as the map   *)
(* has its size and got no new key, no key was lost either, and everything *)
(* before bc.at was dealt with.                                            *)
(***************************************************************************)
EXTENDS EventHub, FiniteSetTheorems, TLAPS

MapTypes ==
  /\ active_connections \subseteq 1..connection_counter
  /\ user_connections \in UNION {[U -> SUBSET Ids] : U \in SUBSET Users}
  /\ connection_users \in UNION {[C -> Users] : C \in SUBSET Ids}
  /\ subscriptions \subseteq Ids

Agree ==
  /\ DOMAIN connection_users \subseteq active_connections
  /\ subscriptions \subseteq active_connections
  /\ DOMAIN user_connections = {connection_users[c] : c \in DOMAIN connection_users}
  /\ \A u \in DOMAIN user_connections :
       user_connections[u] = {c \in DOMAIN connection_users : connection_users[c] = u}

Alive == \A c \in active_connections : pc[c] \in {"sending", "receiving"}

MapInv == MapTypes /\ Agree /\ Alive

\* The part of the state that is neither map nor queue.
EndpointTypes ==
  /\ connection_counter \in 0..MaxConnections
  /\ socket \in [Ids -> {"none", "open", "draining", "closed"}]
  /\ pc \in [Ids -> {"none", "sending", "receiving", "ended"}]
  /\ notice \in Notice
  /\ notice.left \cup notice.missed \subseteq 1..connection_counter

Busy == IF worker = "sending" THEN 1 ELSE 0

QueueTypes ==
  /\ event_queue \in Seq(Events)
  /\ running \in BOOLEAN
  /\ worker \in {"down", "waiting", "sending"}
  /\ bc \in Broadcast
  /\ worker = "sending" => bc.event \in Events /\ bc.at \in Ids
  /\ emitted \in 0..MaxEvents /\ starts \in 0..MaxStarts /\ finished \in Nat
  /\ inbox \in [Ids -> Seq(Events)]
  /\ finished + Len(event_queue) + Busy \leq emitted

Increasing(s) == \A i, j \in 1..Len(s) : i < j => s[i] < s[j]

Below(s, e) == \A i \in 1..Len(s) : s[i] < e

\* Everything in the inboxes and under way comes before everything in the
\* queue; the broadcast has not come to the connections from bc.at on.
Ordered ==
  /\ Increasing(event_queue)
  /\ Below(event_queue, emitted + 1)
  /\ \A c \in Ids : /\ Increasing(inbox[c])
                    /\ Below(inbox[c], emitted + 1)
                    /\ \A i \in 1..Len(event_queue) : Below(inbox[c], event_queue[i])
  /\ worker = "sending" =>
       /\ bc.event \leq emitted
       /\ \A i \in 1..Len(event_queue) : bc.event < event_queue[i]
       /\ \A c \in Ids : /\ Below(inbox[c], bc.event + 1)
                         /\ c \geq bc.at => Below(inbox[c], bc.event)

\* A broadcast that met no new key and finds the size it knows has dealt with
\* all keys below bc.at.
Covered ==
  worker = "sending" =>
    /\ bc.known \leq connection_counter
    /\ ~Grown => Cardinality(active_connections) \leq bc.size
    /\ ~Grown /\ SameSize =>
         \A c \in active_connections :
           c < bc.at /\ socket[c] = "open" => Holds(inbox[c], bc.event)

IInv == MapInv /\ EndpointTypes /\ QueueTypes /\ Ordered /\ Covered /\ NoticeReachesUser

-----------------------------------------------------------------------------
(* Facts about data. *)

LEMMA PartialFunctions ==
  ASSUME NEW S, NEW T, NEW f
  PROVE  f \in UNION {[C -> T] : C \in SUBSET S}
           <=> DOMAIN f \subseteq S /\ f \in [DOMAIN f -> T]
  OBVIOUS

LEMMA IdsFacts ==
  /\ Ids \subseteq Nat /\ IsFiniteSet(Ids)
  /\ Cardinality(Ids) = MaxConnections
  /\ \A S \in SUBSET Ids : /\ IsFiniteSet(S) /\ Cardinality(S) \in 0..MaxConnections
                           /\ \A T \in SUBSET S :
                                /\ Cardinality(T) \leq Cardinality(S)
                                /\ Cardinality(T) = Cardinality(S) => T = S
<1>1. MaxConnections \in Nat
  BY HubAssumption
<1>2. IsFiniteSet(Ids) /\ Cardinality(Ids) = MaxConnections
  BY <1>1, FS_Interval DEF Ids
<1>3. ASSUME NEW S \in SUBSET Ids
      PROVE  IsFiniteSet(S) /\ Cardinality(S) \in 0..MaxConnections
  BY <1>1, <1>2, FS_Subset, FS_CardinalityType
<1>4. ASSUME NEW S \in SUBSET Ids, NEW T \in SUBSET S
      PROVE  /\ Cardinality(T) \leq Cardinality(S)
             /\ Cardinality(T) = Cardinality(S) => T = S
  BY <1>3, FS_Subset
<1> QED BY <1>1, <1>2, <1>3, <1>4 DEF Ids

LEMMA EventFacts ==
  /\ Events \subseteq Nat
  /\ \A s \in Seq(Events) : /\ Len(s) \in Nat
                             /\ \A i \in 1..Len(s) : s[i] \in Events /\ s[i] \in Nat
  BY HubAssumption DEF Events

-----------------------------------------------------------------------------
(* The maps. *)

LEMMA DisconnectKeepsMaps ==
  ASSUME MapTypes, Agree, NEW D \in SUBSET Ids, Disconnect(D),
         connection_counter' = connection_counter
  PROVE  MapTypes' /\ Agree' /\ active_connections' = active_connections \ D
<1> DEFINE CU == connection_users
           UC == user_connections
<1>1. /\ DOMAIN CU \subseteq Ids /\ CU \in [DOMAIN CU -> Users]
      /\ DOMAIN UC \subseteq Users /\ UC \in [DOMAIN UC -> SUBSET Ids]
  BY PartialFunctions DEF MapTypes
<1>2. /\ DOMAIN CU' = DOMAIN CU \ D
      /\ \A c \in DOMAIN CU \ D : CU'[c] = CU[c]
      /\ CU' \in [DOMAIN CU' -> Users]
  BY <1>1 DEF Disconnect, Without
<1>3. /\ DOMAIN UC' = DOMAIN UC \ Emptied(D)
      /\ \A u \in DOMAIN UC \ Emptied(D) : UC'[u] = UC[u] \ OwnedBy(u, D)
      /\ UC' \in [DOMAIN UC' -> SUBSET Ids]
  BY <1>1 DEF Disconnect
<1>4. MapTypes'
  <2>1. CU' \in UNION {[C -> Users] : C \in SUBSET Ids}
    BY <1>1, <1>2, PartialFunctions
  <2>2. UC' \in UNION {[U -> SUBSET Ids] : U \in SUBSET Users}
    BY <1>1, <1>3, PartialFunctions
  <2> QED BY <2>1, <2>2 DEF MapTypes, Disconnect
<1>5. \A u \in DOMAIN UC' : UC'[u] = {c \in DOMAIN CU' : CU'[c] = u}
  BY <1>1, <1>2, <1>3 DEF Agree, OwnedBy
<1>6. DOMAIN UC' = {CU'[c] : c \in DOMAIN CU'}
  <2>1. ASSUME NEW u \in DOMAIN UC'
        PROVE  \E c \in DOMAIN CU' : CU'[c] = u
    <3>1. u \in DOMAIN UC /\ u \notin Emptied(D)
      BY <1>3
    <3>2. UC[u] # {}
      BY <3>1 DEF Agree
    <3>3. \E c \in UC[u] : c \notin OwnedBy(u, D)
      BY <3>1, <3>2 DEF Emptied
    <3> QED BY <3>1, <3>3, <1>2 DEF Agree, OwnedBy
  <2>2. ASSUME NEW c \in DOMAIN CU'
        PROVE  CU'[c] \in DOMAIN UC'
    <3>1. c \in DOMAIN CU /\ c \notin D /\ CU'[c] = CU[c] /\ CU[c] \in DOMAIN UC
      BY <1>2 DEF Agree
    <3>2. c \in UC[CU[c]] /\ c \notin OwnedBy(CU[c], D)
      BY <3>1 DEF Agree, OwnedBy
    <3> QED BY <3>1, <3>2, <1>3 DEF Emptied
  <2> QED BY <2>1, <2>2
<1> QED BY <1>2, <1>4, <1>5, <1>6 DEF Agree, Disconnect

LEMMA ConnectKeepsMaps ==
  ASSUME MapTypes, Agree, EndpointTypes, NEW u \in Users \cup {Anonymous}, Connect(u)
  PROVE  MapTypes' /\ Agree'
<1> DEFINE c == connection_counter + 1
           CU == connection_users
           UC == user_connections
<1>1. /\ DOMAIN CU \subseteq Ids /\ CU \in [DOMAIN CU -> Users]
      /\ DOMAIN UC \subseteq Users /\ UC \in [DOMAIN UC -> SUBSET Ids]
  BY PartialFunctions DEF MapTypes
<1>2. /\ c \in Ids /\ c \notin active_connections /\ c \notin DOMAIN CU
      /\ connection_counter' = c /\ active_connections' = active_connections \cup {c}
      /\ active_connections' \subseteq 1..connection_counter'
      /\ subscriptions' = subscriptions
  BY HubAssumption DEF Connect, EndpointTypes, MapTypes, Agree, Ids
<1>3. CASE u = Anonymous
  BY <1>2, <1>3 DEF Connect, MapTypes, Agree
<1>4. CASE u \in Users
  <2>1. /\ CU' = With(CU, c, u)
        /\ UC' = With(UC, u, At(UC, u) \cup {c})
    BY <1>4, HubAssumption DEF Connect
  <2>2. /\ DOMAIN CU' = DOMAIN CU \cup {c} /\ CU'[c] = u
        /\ \A d \in DOMAIN CU : CU'[d] = CU[d]
        /\ CU' \in [DOMAIN CU' -> Users]
    BY <2>1, <1>1, <1>2, <1>4 DEF With
  <2>3. /\ DOMAIN UC' = DOMAIN UC \cup {u} /\ UC'[u] = At(UC, u) \cup {c}
        /\ \A v \in DOMAIN UC \ {u} : UC'[v] = UC[v]
    BY <2>1 DEF With
  <2>4. At(UC, u) = {d \in DOMAIN CU : CU[d] = u}
    BY DEF At, Agree
  <2>5. UC' \in [DOMAIN UC' -> SUBSET Ids]
    <3>1. UC'[u] \subseteq Ids
      BY <2>3, <2>4, <1>1, <1>2
    <3>2. \A v \in DOMAIN UC' : UC'[v] \in SUBSET Ids
      BY <3>1, <2>3, <1>1
    <3> QED BY <3>2, <2>1 DEF With
  <2>6. MapTypes'
    <3>1. CU' \in UNION {[C -> Users] : C \in SUBSET Ids}
      <4>1. DOMAIN CU' \subseteq Ids
        BY <1>1, <1>2, <2>2
      <4> QED BY <4>1, <2>2, PartialFunctions
    <3>2. UC' \in UNION {[U -> SUBSET Ids] : U \in SUBSET Users}
      <4>1. DOMAIN UC' \subseteq Users
        BY <1>1, <1>4, <2>3
      <4> QED BY <4>1, <2>5, PartialFunctions
    <3> QED BY <3>1, <3>2, <1>2 DEF MapTypes
  <2>7. \A v \in DOMAIN UC' : UC'[v] = {d \in DOMAIN CU' : CU'[d] = v}
    BY <2>2, <2>3, <2>4, <1>2 DEF Agree
  <2>8. DOMAIN UC' = {CU'[d] : d \in DOMAIN CU'}
    BY <2>2, <2>3 DEF Agree
  <2> QED BY <2>2, <2>6, <2>7, <2>8, <1>2 DEF Agree
<1> QED BY <1>3, <1>4

LEMMA MapStep ==
  ASSUME IInv, Next
  PROVE  MapInv'
<1> USE DEF IInv, MapInv
<1>1. ASSUME UNCHANGED <<connection_counter, maps, pc>>
      PROVE  MapInv'
  BY <1>1 DEF maps, MapTypes, Agree, Alive
<1>2. ASSUME NEW D \in SUBSET Ids, Disconnect(D), UNCHANGED <<connection_counter, pc>>
      PROVE  MapInv'
  BY <1>2, DisconnectKeepsMaps DEF Alive
<1>3. ASSUME NEW u \in Users \cup {Anonymous}, Connect(u)
      PROVE  MapInv'
  <2>1. Alive'
    BY <1>3, HubAssumption DEF Connect, Alive, EndpointTypes, MapTypes, Ids
  <2> QED BY <1>3, <2>1, ConnectKeepsMaps
<1>4. ASSUME NEW c \in Ids, Receive(c)
      PROVE  MapInv'
  <2>1. /\ UNCHANGED <<connection_counter, active_connections, user_connections,
                       connection_users>>
        /\ \E s \in {"sending", "receiving"} : pc' = [pc EXCEPT ![c] = s]
    BY <1>4 DEF Receive
  <2>2. \/ subscriptions' = subscriptions
        \/ c \in active_connections /\ subscriptions' = subscriptions \cup {c}
    BY <1>4 DEF Receive, Subscribe
  <2>3. Alive'
    BY <2>1 DEF Alive, EndpointTypes
  <2>4. /\ subscriptions' \subseteq Ids
        /\ subscriptions' \subseteq active_connections'
    BY <1>4, <2>1, <2>2 DEF MapTypes, Agree
  <2>5. MapTypes'
    BY <2>1, <2>4 DEF MapTypes
  <2>6. Agree'
    BY <2>1, <2>4 DEF Agree
  <2> QED BY <2>3, <2>5, <2>6
<1>5. ASSUME NEW c \in Ids, Replied(c)
      PROVE  MapInv'
  <2>1. PICK D \in SUBSET Ids : Disconnect(D)
    BY <1>5 DEF Replied
  <2>2. pc' = [pc EXCEPT ![c] = "receiving"] /\ connection_counter' = connection_counter
    BY <1>5 DEF Replied
  <2> QED BY <2>1, <2>2, DisconnectKeepsMaps DEF Alive, EndpointTypes
<1>6. ASSUME NEW c \in Ids, SeeDisconnect(c) \/ ReceiveBytes(c)
      PROVE  MapInv'
  <2>1. /\ Disconnect({c}) /\ pc' = [pc EXCEPT ![c] = "ended"]
        /\ connection_counter' = connection_counter
    BY <1>6 DEF SeeDisconnect, ReceiveBytes
  <2> QED BY <2>1, DisconnectKeepsMaps DEF Alive, EndpointTypes
<1>7. ASSUME NEW c \in Ids, PeerLeaves(c)
      PROVE  MapInv'
  BY <1>1, <1>7 DEF PeerLeaves
<1>8. ASSUME NEW u \in Users, EmitToUser(u)
      PROVE  MapInv'
  BY <1>1, <1>8 DEF EmitToUser
<1>9. CASE NoticeSent
  <2>1. PICK D \in SUBSET Ids : Disconnect(D) /\ UNCHANGED <<connection_counter, pc>>
    BY <1>9 DEF NoticeSent, EndpointTypes, Notice
  <2> QED BY <1>2, <2>1
<1>10. ASSUME NEW g \in BOOLEAN, Take(g)
       PROVE  MapInv'
  BY <1>1, <1>10 DEF Take
<1>11. CASE BroadcastSent
  <2>1. bc.failed \cup {bc.at} \subseteq Ids
    BY <1>11 DEF BroadcastSent, QueueTypes, Broadcast
  <2>2. UNCHANGED maps \/ \E D \in SUBSET Ids : Disconnect(D)
    <3>1. PICK ok \in BOOLEAN :
            LET failed == IF ok THEN bc.failed ELSE bc.failed \cup {bc.at}
            IN  UNCHANGED maps \/ BroadcastEnds(failed)
      BY <1>11 DEF BroadcastSent, BroadcastFails
    <3> QED BY <3>1, <2>1 DEF BroadcastEnds
  <2> QED BY <1>1, <1>2, <1>11, <2>2 DEF BroadcastSent
<1>12. CASE Emit
  BY <1>1, <1>12 DEF Emit
<1>13. CASE Start
  BY <1>1, <1>13 DEF Start
<1>14. CASE Stop
  BY <1>1, <1>10, <1>14 DEF Stop
<1> QED
  BY <1>3, <1>4, <1>5, <1>6, <1>7, <1>8, <1>9, <1>10, <1>11, <1>12, <1>13, <1>14
  DEF Next, WorkerStep

-----------------------------------------------------------------------------
(* Endpoints and notices. *)

LEMMA EndpointKeepsTypes ==
  ASSUME IInv, Next
  PROVE  EndpointTypes'
<1> USE DEF IInv, EndpointTypes, Notice
<1>1. ASSUME NEW u \in Users \cup {Anonymous}, Connect(u)
      PROVE  EndpointTypes'
  <2>1. /\ connection_counter' = connection_counter + 1
        /\ connection_counter' \in 0..MaxConnections
        /\ connection_counter + 1 \in Ids
        /\ notice' = notice
        /\ socket' = [socket EXCEPT ![connection_counter + 1] = "open"]
    BY <1>1, HubAssumption DEF Connect, Ids
  <2>2. \E s \in {"sending", "receiving"} : pc' = [pc EXCEPT ![connection_counter + 1] = s]
    BY <1>1 DEF Connect
  <2>3. notice'.left \cup notice'.missed \subseteq 1..connection_counter'
    BY <2>1
  <2>4. /\ socket' \in [Ids -> {"none", "open", "draining", "closed"}]
        /\ pc' \in [Ids -> {"none", "sending", "receiving", "ended"}]
    BY <2>1, <2>2
  <2> QED BY <2>1, <2>3, <2>4
<1>2. ASSUME NEW c \in Ids, Receive(c)
      PROVE  EndpointTypes'
  BY <1>2 DEF Receive
<1>3. ASSUME NEW c \in Ids, Replied(c)
      PROVE  EndpointTypes'
  BY <1>3 DEF Replied
<1>4. ASSUME NEW c \in Ids, SeeDisconnect(c) \/ ReceiveBytes(c)
      PROVE  EndpointTypes'
  BY <1>4 DEF SeeDisconnect, ReceiveBytes
<1>5. ASSUME NEW c \in Ids, PeerLeaves(c)
      PROVE  EndpointTypes'
  BY <1>5 DEF PeerLeaves
<1>6. ASSUME NEW u \in Users, EmitToUser(u)
      PROVE  EndpointTypes'
  <2>1. At(user_connections, u) \subseteq active_connections
    BY DEF MapInv, Agree, At
  <2>2. /\ notice' = [left |-> At(user_connections, u), missed |-> {}]
        /\ UNCHANGED <<connection_counter, socket, pc>>
    BY <1>6 DEF EmitToUser
  <2>3. At(user_connections, u) \subseteq 1..connection_counter
    BY <2>1 DEF MapInv, MapTypes
  <2>4. 1..connection_counter \subseteq Ids
    BY HubAssumption DEF Ids
  <2> HIDE DEF At
  <2> QED BY <2>2, <2>3, <2>4
<1>7. CASE NoticeSent
  <2>1. PICK c \in notice.left, ok \in BOOLEAN :
          notice' = [left |-> notice.left \ {c},
                     missed |-> IF ok /\ c \in active_connections
                                THEN notice.missed ELSE notice.missed \cup {c}]
    BY <1>7 DEF NoticeSent
  <2>2. /\ notice' \in Notice
        /\ notice'.left \cup notice'.missed \subseteq 1..connection_counter
    BY <2>1
  <2> QED BY <1>7, <2>2 DEF NoticeSent
<1>8. ASSUME UNCHANGED <<connection_counter, socket, pc, notice>>
      PROVE  EndpointTypes'
  BY <1>8
<1> QED
  BY <1>1, <1>2, <1>3, <1>4, <1>5, <1>6, <1>7, <1>8
  DEF Next, WorkerStep, Take, BroadcastSent, Emit, Start, Stop

\* A connection that no longer works, or is no longer there, stays so.
LEMMA BrokenStaysBroken ==
  ASSUME IInv, Next, NEW c \in Ids, c \in 1..connection_counter,
         ~(c \in active_connections /\ socket[c] = "open")
  PROVE  ~(c \in active_connections' /\ socket'[c] = "open")
<1> USE DEF IInv, EndpointTypes
<1>1. ASSUME active_connections' \subseteq active_connections,
             socket'[c] = "open" => socket[c] = "open"
      PROVE  ~(c \in active_connections' /\ socket'[c] = "open")
  BY <1>1
<1>2. ASSUME NEW D, Disconnect(D), socket' = socket
      PROVE  ~(c \in active_connections' /\ socket'[c] = "open")
  BY <1>1, <1>2 DEF Disconnect
<1>3. ASSUME UNCHANGED <<maps, socket>>
      PROVE  ~(c \in active_connections' /\ socket'[c] = "open")
  BY <1>3 DEF maps
<1>4. ASSUME NEW u \in Users \cup {Anonymous}, Connect(u)
      PROVE  ~(c \in active_connections' /\ socket'[c] = "open")
  BY <1>4, HubAssumption DEF Connect, Ids
<1>5. ASSUME NEW d \in Ids, Receive(d) \/ PeerLeaves(d)
      PROVE  ~(c \in active_connections' /\ socket'[c] = "open")
  BY <1>1, <1>5 DEF Receive, PeerLeaves, maps
<1>6. ASSUME NEW d \in Ids, Replied(d) \/ SeeDisconnect(d) \/ ReceiveBytes(d)
      PROVE  ~(c \in active_connections' /\ socket'[c] = "open")
  <2>1. CASE ReceiveBytes(d)
    BY <1>1, <2>1 DEF ReceiveBytes, Disconnect
  <2> QED BY <1>2, <1>6, <2>1 DEF Replied, SeeDisconnect
<1>7. CASE NoticeSent
  BY <1>2, <1>7 DEF NoticeSent
<1>8. CASE BroadcastSent
  BY <1>2, <1>3, <1>8 DEF BroadcastSent, BroadcastEnds, BroadcastFails, maps
<1>9. ASSUME NEW u \in Users, EmitToUser(u)
      PROVE  ~(c \in active_connections' /\ socket'[c] = "open")
  BY <1>3, <1>9 DEF EmitToUser
<1> QED
  BY <1>3, <1>4, <1>5, <1>6, <1>7, <1>8, <1>9
  DEF Next, WorkerStep, Take, Emit, Start, Stop

LEMMA NoticeStep ==
  ASSUME IInv, Next
  PROVE  NoticeReachesUser'
<1> SUFFICES ASSUME NEW c \in notice'.missed
             PROVE  ~(c \in active_connections' /\ socket'[c] = "open")
  BY DEF NoticeReachesUser
<1>1. c \notin notice.missed \/ (c \in Ids /\ c \in 1..connection_counter)
  BY DEF IInv, EndpointTypes, Notice
<1>2. CASE c \in notice.missed
  BY <1>1, <1>2, BrokenStaysBroken DEF IInv, NoticeReachesUser
<1>3. CASE c \notin notice.missed
  <2>1. ASSUME NEW u \in Users, EmitToUser(u)
        PROVE  FALSE
    BY <2>1 DEF EmitToUser
  <2>2. notice' # notice
    BY <1>3
  <2>3. NoticeSent
    BY <2>1, <2>2
    DEF Next, Connect, Receive, Replied, SeeDisconnect, ReceiveBytes, PeerLeaves,
        WorkerStep, Take, BroadcastSent, Emit, Start, Stop
  <2>4. PICK d \in notice.left, ok \in BOOLEAN :
          /\ SendResult(d, ok)
          /\ Disconnect(IF ok \/ d \notin active_connections THEN {} ELSE {d})
          /\ notice' = [left |-> notice.left \ {d},
                        missed |-> IF ok /\ d \in active_connections
                                   THEN notice.missed ELSE notice.missed \cup {d}]
    BY <2>3 DEF NoticeSent
  <2>5. c = d /\ ~(ok /\ d \in active_connections)
    BY <1>3, <2>4
  <2> QED BY <2>4, <2>5 DEF Disconnect
<1> QED BY <1>2, <1>3

-----------------------------------------------------------------------------
(* Events. *)

\* What BroadcastSent can do: go on, end or break off, after one more event in
\* one inbox or none.
LEMMA QueueStep ==
  ASSUME IInv, Next
  PROVE  QueueTypes' /\ Ordered'
<1> USE DEF IInv
<1> DEFINE Sent == [inbox EXCEPT ![bc.at] = Append(@, bc.event)]
<1>1. ASSUME UNCHANGED queueVars
      PROVE  QueueTypes' /\ Ordered'
  BY <1>1 DEF queueVars, QueueTypes, Ordered, Increasing, Below, Busy
\* After a send: who got the event has it as the last one.
<1>2. ASSUME worker = "sending"
      PROVE  /\ Sent \in [Ids -> Seq(Events)]
             /\ \A c \in Ids : /\ Increasing(Sent[c])
                               /\ Below(Sent[c], emitted + 1)
                               /\ Below(Sent[c], bc.event + 1)
                               /\ c > bc.at => Below(Sent[c], bc.event)
                               /\ \A i \in 1..Len(event_queue) :
                                    Below(Sent[c], event_queue[i])
  <2>1. bc.at \in Ids /\ bc.event \in Events /\ inbox[bc.at] \in Seq(Events)
    BY <1>2 DEF QueueTypes
  <2>2. /\ bc.event \in Nat /\ emitted \in Nat /\ Len(event_queue) \in Nat
        /\ \A i \in 1..Len(event_queue) : event_queue[i] \in Nat
        /\ \A i \in 1..Len(inbox[bc.at]) : inbox[bc.at][i] \in Nat
    BY <2>1, EventFacts DEF QueueTypes, Events
  <2> DEFINE s == inbox[bc.at]
             t == Append(s, bc.event)
  <2>3. /\ t \in Seq(Events) /\ Len(t) = Len(s) + 1 /\ Len(s) \in Nat
        /\ \A i \in 1..Len(s) : t[i] = s[i] /\ t[i] \in Nat
        /\ t[Len(s) + 1] = bc.event
    BY <2>1, <2>2
  <2>4. Increasing(s) /\ Below(s, bc.event)
    BY <1>2, <2>1 DEF Ordered, Ids
  <2>5. \A i \in 1..Len(t) : \/ i \in 1..Len(s) /\ t[i] = s[i] /\ t[i] < bc.event
                             \/ i = Len(s) + 1 /\ t[i] = bc.event
    BY <2>3, <2>4 DEF Below
  <2>6. Sent \in [Ids -> Seq(Events)] /\ Sent[bc.at] = t
        /\ \A c \in Ids \ {bc.at} : Sent[c] = inbox[c]
    BY <2>1, <2>3 DEF QueueTypes
  <2> HIDE DEF Sent, t, s
  <2>7. Increasing(t)
    BY <2>2, <2>3, <2>4, <2>5 DEF Increasing
  <2>8. ASSUME NEW k \in Nat, bc.event < k
        PROVE  Below(t, k)
    BY <2>2, <2>3, <2>5, <2>8 DEF Below
  <2>9. Below(t, bc.event + 1) /\ Below(t, emitted + 1)
    BY <1>2, <2>2, <2>8 DEF Ordered
  <2>10. \A i \in 1..Len(event_queue) : Below(t, event_queue[i])
    BY <1>2, <2>2, <2>8 DEF Ordered
  <2>11. ASSUME NEW c \in Ids
         PROVE  /\ Increasing(Sent[c])
                /\ Below(Sent[c], emitted + 1)
                /\ Below(Sent[c], bc.event + 1)
                /\ c > bc.at => Below(Sent[c], bc.event)
                /\ \A i \in 1..Len(event_queue) : Below(Sent[c], event_queue[i])
    <3>1. CASE c = bc.at
      BY <2>1, <2>6, <2>7, <2>9, <2>10, <3>1, IdsFacts
    <3>2. CASE c # bc.at
      <4>1. c > bc.at => c \geq bc.at
        BY <2>1, HubAssumption DEF Ids
      <4> QED BY <1>2, <2>6, <3>2, <4>1 DEF Ordered
    <3> QED BY <3>1, <3>2
  <2> QED BY <2>6, <2>11
<1>3. CASE Emit
  <2> DEFINE q == event_queue
             r == Append(q, emitted + 1)
  <2>1. /\ event_queue' = r /\ emitted' = emitted + 1 /\ emitted < MaxEvents
        /\ UNCHANGED <<running, worker, bc, starts, finished, inbox>>
    BY <1>3 DEF Emit
  <2>2. /\ emitted \in Nat /\ emitted + 1 \in Events /\ emitted + 1 \in 0..MaxEvents
        /\ q \in Seq(Events) /\ Len(q) \in Nat /\ Busy \in {0, 1} /\ finished \in Nat
        /\ \A i \in 1..Len(q) : q[i] \in Nat
    BY <2>1, EventFacts, HubAssumption DEF QueueTypes, Events, Busy
  <2>3. /\ r \in Seq(Events) /\ Len(r) = Len(q) + 1
        /\ \A i \in 1..Len(q) : r[i] = q[i]
        /\ r[Len(q) + 1] = emitted + 1
    BY <2>2
  <2>4. \A i \in 1..Len(r) : \/ i \in 1..Len(q) /\ r[i] = q[i] /\ q[i] < emitted + 1
                             \/ i = Len(q) + 1 /\ r[i] = emitted + 1
    BY <2>2, <2>3 DEF Ordered, Below
  <2> HIDE DEF q, r
  <2>5. QueueTypes'
    <3>1. finished' + Len(event_queue') + Busy' \leq emitted'
      BY <2>1, <2>2, <2>3 DEF QueueTypes, Busy, q
    <3> QED BY <2>1, <2>2, <2>3, <3>1 DEF QueueTypes
  <2>6. Increasing(r) /\ Below(r, emitted + 2)
    BY <2>2, <2>3, <2>4 DEF Increasing, Below, Ordered, q
  <2>7. ASSUME NEW s \in Seq(Events), NEW k \in Nat, NEW m \in Nat, Below(s, k), k \leq m
        PROVE  Below(s, m)
    BY <2>7, EventFacts DEF Below
  <2>8. ASSUME NEW c \in Ids
        PROVE  /\ Below(inbox[c], emitted + 2)
               /\ \A i \in 1..Len(r) : Below(inbox[c], r[i])
    <3>1. inbox[c] \in Seq(Events) /\ Below(inbox[c], emitted + 1)
      BY DEF QueueTypes, Ordered
    <3>2. \A i \in 1..Len(q) : Below(inbox[c], q[i])
      BY DEF Ordered, q
    <3> QED BY <2>2, <2>4, <2>7, <3>1, <3>2
  <2>9. worker = "sending" => /\ bc.event \leq emitted + 1
                              /\ \A i \in 1..Len(r) : bc.event < r[i]
    <3> SUFFICES ASSUME worker = "sending"
                 PROVE  /\ bc.event \leq emitted + 1
                        /\ \A i \in 1..Len(r) : bc.event < r[i]
      OBVIOUS
    <3>1. bc.event \in Nat /\ bc.event \leq emitted
      BY EventFacts DEF QueueTypes, Ordered
    <3>2. \A i \in 1..Len(q) : bc.event < q[i]
      BY DEF Ordered, q
    <3> QED BY <2>2, <2>4, <3>1, <3>2
  <2>10. emitted' + 1 = emitted + 2
    BY <2>1, <2>2
  <2> QED BY <2>1, <2>5, <2>6, <2>8, <2>9, <2>10 DEF Ordered
<1>4. ASSUME NEW g \in BOOLEAN, Take(g)
      PROVE  QueueTypes' /\ Ordered'
  <2> DEFINE q == event_queue
             r == Tail(q)
  <2>1. /\ worker = "waiting" /\ q # <<>> /\ event_queue' = r
        /\ running' = g
        /\ UNCHANGED <<emitted, starts, inbox>>
    BY <1>4 DEF Take
  <2>2. /\ q \in Seq(Events) /\ Len(q) \in Nat /\ emitted \in Nat /\ finished \in Nat
        /\ \A i \in 1..Len(q) : q[i] \in Nat /\ q[i] \in Events
    BY EventFacts DEF QueueTypes
  <2>3. /\ r \in Seq(Events) /\ Len(r) = Len(q) - 1 /\ Len(r) \in Nat
        /\ 1 \in 1..Len(q) /\ Head(q) = q[1]
        /\ \A i \in 1..Len(r) : i + 1 \in 1..Len(q) /\ r[i] = q[i + 1]
    BY <2>1, <2>2
  <2> HIDE DEF q, r
  <2>4. Increasing(q) /\ Below(q, emitted + 1)
    BY DEF Ordered, q
  <2>5. Increasing(r) /\ Below(r, emitted + 1)
    <3>1. ASSUME NEW i \in 1..Len(r), NEW j \in 1..Len(r), i < j
          PROVE  r[i] < r[j]
      <4>1. i + 1 \in 1..Len(q) /\ j + 1 \in 1..Len(q) /\ i + 1 < j + 1
        BY <2>2, <2>3, <3>1
      <4> QED BY <2>3, <2>4, <4>1 DEF Increasing
    <3>2. Below(r, emitted + 1)
      BY <2>3, <2>4 DEF Below
    <3> QED BY <3>1, <3>2 DEF Increasing
  <2>6. ASSUME NEW c \in Ids
        PROVE  /\ Increasing(inbox[c]) /\ Below(inbox[c], emitted + 1)
               /\ Below(inbox[c], q[1])
               /\ \A i \in 1..Len(r) : Below(inbox[c], r[i])
    BY <2>3 DEF Ordered, q
  <2>7. finished + Len(q) \leq emitted
    BY <2>1, <2>2 DEF QueueTypes, Busy, q
  <2>8. CASE active_connections = {}
    <3>1. finished' = finished + 1 /\ worker' = Resting(g) /\ bc' = bc
      BY <1>4, <2>8 DEF Take
    <3>2. worker' \in {"down", "waiting"}
      BY <3>1 DEF Resting
    <3>3. finished' + Len(event_queue') + Busy' \leq emitted'
      BY <2>1, <2>2, <2>3, <2>7, <3>1, <3>2 DEF Busy
    <3>4. QueueTypes'
      BY <2>1, <2>2, <2>3, <3>1, <3>2, <3>3 DEF QueueTypes
    <3> QED BY <2>1, <2>5, <2>6, <3>2, <3>4 DEF Ordered
  <2>9. CASE active_connections # {}
    <3>1. PICK c \in Ids :
            bc' = [event |-> Head(q), size |-> Cardinality(active_connections),
                   known |-> connection_counter, at |-> c, failed |-> {}]
      BY <1>4, <2>9 DEF Take, q
    <3>2. worker' = "sending" /\ finished' = finished
      BY <1>4, <2>9 DEF Take
    <3>3. bc' \in Broadcast /\ bc'.event = q[1] /\ bc'.at = c
      <4>1. Cardinality(active_connections) \in 0..MaxConnections
        <5>1. active_connections \subseteq Ids
          BY HubAssumption DEF MapInv, MapTypes, EndpointTypes, Ids
        <5> QED BY <5>1, IdsFacts
      <4>2. q[1] \in 0..MaxEvents /\ connection_counter \in 0..MaxConnections
            /\ c \in 0..MaxConnections
        BY <2>2, <2>3, HubAssumption DEF Events, EndpointTypes, Ids
      <4> QED BY <2>3, <3>1, <4>1, <4>2 DEF Broadcast
    <3>4. finished' + Len(event_queue') + Busy' \leq emitted'
      BY <2>1, <2>2, <2>3, <2>7, <3>2 DEF Busy
    <3>5. QueueTypes'
      BY <2>1, <2>2, <2>3, <3>2, <3>3, <3>4 DEF QueueTypes
    <3>6. q[1] \leq emitted /\ \A i \in 1..Len(r) : q[1] < r[i]
      BY <2>2, <2>3, <2>4 DEF Increasing, Below
    <3>7. ASSUME NEW d \in Ids
          PROVE  Below(inbox[d], q[1] + 1)
      <4>1. inbox[d] \in Seq(Events)
        BY DEF QueueTypes
      <4> QED BY <2>2, <2>3, <2>6, <4>1, EventFacts DEF Below
    <3> QED BY <2>1, <2>5, <2>6, <3>3, <3>5, <3>6, <3>7 DEF Ordered
  <2> QED BY <2>8, <2>9
\* The worker lets go of its event, sent to one more connection or to none.
<1>5. ASSUME worker = "sending", worker' \in {"down", "waiting"},
             inbox' \in {inbox, Sent}, bc' = NoBroadcast,
             UNCHANGED <<event_queue, emitted, starts>>, running' \in BOOLEAN,
             finished' \in {finished, finished + 1}
      PROVE  QueueTypes' /\ Ordered'
  <2>1. finished' + Len(event_queue') + Busy' \leq emitted'
    BY <1>5, EventFacts DEF QueueTypes, Busy
  <2>2. bc' \in Broadcast
    BY <1>5, HubAssumption DEF NoBroadcast, Broadcast
  <2>3. QueueTypes'
    <3>1. inbox' \in [Ids -> Seq(Events)]
      BY <1>2, <1>5 DEF QueueTypes
    <3>2. finished' \in Nat /\ worker' # "sending"
      BY <1>5 DEF QueueTypes
    <3> HIDE DEF Sent
    <3> QED BY <1>5, <2>1, <2>2, <3>1, <3>2 DEF QueueTypes
  <2> HIDE DEF Sent
  <2>4. ASSUME NEW c \in Ids
        PROVE  /\ Increasing(inbox'[c]) /\ Below(inbox'[c], emitted + 1)
               /\ \A i \in 1..Len(event_queue) : Below(inbox'[c], event_queue[i])
    BY <1>2, <1>5 DEF Ordered
  <2> QED BY <1>5, <2>3, <2>4 DEF Ordered
<1>6. CASE BroadcastSent
  <2>1. /\ worker = "sending" /\ inbox' \in {inbox, Sent}
        /\ UNCHANGED <<running, emitted, starts, event_queue>>
    BY <1>6 DEF BroadcastSent, BroadcastEnds, BroadcastFails
  <2>2. CASE worker' \in {"down", "waiting"}
    <3>1. bc' = NoBroadcast /\ finished' \in {finished, finished + 1}
      BY <1>6, <2>1, <2>2 DEF BroadcastSent, BroadcastEnds, BroadcastFails
    <3>2. running' \in BOOLEAN
      BY <2>1 DEF QueueTypes
    <3> QED BY <1>5, <2>1, <2>2, <3>1, <3>2
  <2>3. CASE worker' \notin {"down", "waiting"}
    <3>1. PICK ok \in BOOLEAN, c \in Ids :
            /\ GoesOnTo(c)
            /\ bc' = [bc EXCEPT !.at = c,
                               !.failed = IF ok THEN bc.failed ELSE bc.failed \cup {bc.at}]
            /\ UNCHANGED <<worker, finished>>
      BY <1>6, <2>3 DEF BroadcastSent, BroadcastEnds, BroadcastFails, Resting
    <3>2. bc \in Broadcast /\ bc.at \in Ids /\ bc.event \in Events
      BY <2>1 DEF QueueTypes
    <3>3. /\ bc' \in Broadcast /\ bc'.at = c /\ bc'.event = bc.event
      <4>1. /\ c \in 0..MaxConnections
            /\ (IF ok THEN bc.failed ELSE bc.failed \cup {bc.at}) \in SUBSET Ids
        BY <3>2, HubAssumption DEF Broadcast, Ids
      <4> QED BY <3>1, <3>2, <4>1 DEF Broadcast
    <3>4. c > bc.at
      BY <3>1 DEF GoesOnTo, Later
    <3>5. QueueTypes'
      <4>1. finished' + Len(event_queue') + Busy' \leq emitted'
        BY <2>1, <3>1 DEF QueueTypes, Busy
      <4>2. inbox' \in [Ids -> Seq(Events)]
        BY <1>2, <2>1 DEF QueueTypes
      <4> QED BY <2>1, <3>1, <3>2, <3>3, <4>1, <4>2 DEF QueueTypes
    <3> HIDE DEF Sent
    <3>6. ASSUME NEW d \in Ids
          PROVE  /\ Increasing(inbox'[d]) /\ Below(inbox'[d], emitted + 1)
                 /\ Below(inbox'[d], bc.event + 1)
                 /\ d \geq c => Below(inbox'[d], bc.event)
                 /\ \A i \in 1..Len(event_queue) : Below(inbox'[d], event_queue[i])
      <4>1. d \geq c => d > bc.at /\ d \geq bc.at
        BY <3>2, <3>4, HubAssumption DEF Ids
      <4> QED BY <1>2, <2>1, <4>1 DEF Ordered
    <3> QED BY <2>1, <3>1, <3>3, <3>5, <3>6 DEF Ordered
  <2> QED BY <2>2, <2>3
<1>7. CASE Start
  <2>1. /\ worker = "down" /\ worker' = "waiting"
        /\ UNCHANGED <<event_queue, bc, emitted, finished, inbox>>
        /\ running' \in BOOLEAN /\ starts' = starts + 1 /\ starts < MaxStarts
    BY <1>7 DEF Start
  <2>2. QueueTypes'
    BY <2>1, HubAssumption DEF QueueTypes, Busy
  <2> QED BY <2>1, <2>2 DEF Ordered, Increasing, Below
<1>8. CASE Stop
  <2>1. CASE Take(FALSE)
    BY <1>4, <2>1
  <2>2. CASE ~Take(FALSE)
    <3>1. /\ running' = FALSE /\ worker' = "down" /\ bc' = NoBroadcast
          /\ UNCHANGED <<event_queue, emitted, starts, finished>>
          /\ inbox' = inbox \/ (worker = "sending" /\ inbox' = Sent)
      <4> HIDE DEF Sent
      <4>1. \/ UNCHANGED inbox
            \/ /\ worker = "sending"
               /\ inbox' = [inbox EXCEPT ![bc.at] = Append(@, bc.event)]
        BY <1>8, <2>2 DEF Stop
      <4>2. /\ running' = FALSE /\ worker' = "down" /\ bc' = NoBroadcast
            /\ UNCHANGED <<event_queue, emitted, starts, finished>>
        BY <1>8, <2>2 DEF Stop
      <4> QED BY <4>1, <4>2 DEF Sent
    <3>2. CASE worker = "sending"
      BY <1>5, <3>1, <3>2
    <3>3. CASE worker # "sending"
      <4>1. finished' + Len(event_queue') + Busy' \leq emitted'
        BY <3>1, <3>3 DEF QueueTypes, Busy
      <4>2. bc' \in Broadcast
        BY <3>1, HubAssumption DEF NoBroadcast, Broadcast
      <4>3. QueueTypes'
        BY <3>1, <3>3, <4>1, <4>2 DEF QueueTypes
      <4> QED BY <3>1, <3>3, <4>3 DEF Ordered, Increasing, Below
    <3> QED BY <3>2, <3>3
  <2> QED BY <2>1, <2>2
<1> QED
  BY <1>1, <1>3, <1>4, <1>6, <1>7, <1>8
  DEF Next, WorkerStep, Connect, Receive, Replied, SeeDisconnect, ReceiveBytes,
      PeerLeaves, EmitToUser, NoticeSent

\* What is connected only shrinks unless somebody connects.
LEMMA OnlyConnectGrows ==
  ASSUME IInv, Next, connection_counter' = connection_counter
  PROVE  active_connections' \subseteq active_connections
<1>1. ASSUME NEW u \in Users \cup {Anonymous}, Connect(u)
      PROVE  FALSE
  BY <1>1 DEF Connect, IInv, EndpointTypes
<1>2. \A D : Disconnect(D) => active_connections' \subseteq active_connections
  BY DEF Disconnect
<1> QED
  BY <1>1, <1>2
  DEF Next, Receive, Replied, SeeDisconnect, ReceiveBytes, PeerLeaves, EmitToUser,
      NoticeSent, Emit, WorkerStep, Take, BroadcastSent, BroadcastEnds, BroadcastFails,
      Start, Stop, maps

LEMMA CoveredStep ==
  ASSUME IInv, Next
  PROVE  Covered'
<1> USE DEF IInv
<1>1. active_connections \subseteq Ids /\ connection_counter \in Nat
  BY HubAssumption DEF MapInv, MapTypes, EndpointTypes, Ids
<1>2. CASE worker' # "sending"
  BY <1>2 DEF Covered
\* A broadcast begins.
<1>3. ASSUME NEW g \in BOOLEAN, Take(g), worker' = "sending"
      PROVE  Covered'
  <2>1. PICK c \in Ids :
          /\ IsFirst(c, active_connections)
          /\ bc' = [event |-> Head(event_queue),
                    size |-> Cardinality(active_connections),
                    known |-> connection_counter, at |-> c, failed |-> {}]
    BY <1>3 DEF Take, Resting
  <2>2. UNCHANGED <<active_connections, connection_counter, socket, inbox>>
    BY <1>3 DEF Take, maps
  <2>3. Cardinality(active_connections) \in Nat
    BY <1>1, IdsFacts
  <2>4. \A d \in active_connections : ~(d < c)
    <3>1. \A d \in active_connections : d \in Nat /\ c \leq d
      BY <1>1, <2>1, IdsFacts DEF IsFirst
    <3>2. c \in Nat
      BY IdsFacts
    <3> QED BY <3>1, <3>2
  <2> QED BY <1>1, <2>1, <2>2, <2>3, <2>4 DEF Covered
\* It goes on; the send that ended reached its peer, unless that is gone.
<1>4. ASSUME BroadcastSent, worker' = "sending"
      PROVE  Covered'
  <2>1. PICK ok \in BOOLEAN, c \in Ids :
          /\ SendResult(bc.at, ok)
          /\ inbox' = IF ok THEN [inbox EXCEPT ![bc.at] = Append(@, bc.event)] ELSE inbox
          /\ GoesOnTo(c)
          /\ bc' = [bc EXCEPT !.at = c,
                             !.failed = IF ok THEN bc.failed ELSE bc.failed \cup {bc.at}]
          /\ UNCHANGED maps
    <3>1. \A ok \in BOOLEAN :
            ~BroadcastEnds(IF ok THEN bc.failed ELSE bc.failed \cup {bc.at}) /\ ~BroadcastFails
      BY <1>4 DEF BroadcastEnds, BroadcastFails, Resting
    <3> QED BY <1>4, <3>1 DEF BroadcastSent
  <2>2. /\ worker = "sending" /\ UNCHANGED <<connection_counter, socket>>
        /\ bc \in Broadcast /\ bc.at \in Ids /\ bc.event \in Events
        /\ inbox \in [Ids -> Seq(Events)]
    BY <1>4 DEF BroadcastSent, QueueTypes
  <2>3. bc'.size = bc.size /\ bc'.known = bc.known /\ bc'.event = bc.event /\ bc'.at = c
    BY <2>1, <2>2 DEF Broadcast
  <2>4. active_connections' = active_connections
    BY <2>1 DEF maps
  <2>5. Grown' <=> Grown
    BY <2>2, <2>3 DEF Grown
  <2>6. ASSUME ~Grown, SameSize, NEW d \in active_connections, d < c, socket[d] = "open"
        PROVE  Holds(inbox'[d], bc.event)
    <3>1. d \in Ids /\ d \in Nat /\ bc.at \in Nat /\ c \in Nat
      BY <1>1, <2>2, IdsFacts
    <3>2. CASE d < bc.at
      <4>1. Holds(inbox[d], bc.event)
        BY <2>2, <2>6, <3>2 DEF Covered
      <4> QED BY <2>1, <2>2, <3>1, <3>2, <4>1
    <3>3. CASE d = bc.at
      <4>1. ok
        BY <2>1, <2>6, <3>3 DEF SendResult
      <4>2. inbox'[d] = Append(inbox[d], bc.event) /\ inbox[d] \in Seq(Events)
        BY <2>1, <2>2, <3>1, <3>3, <4>1
      <4>3. /\ Len(inbox[d]) + 1 \in 1..Len(inbox'[d])
            /\ inbox'[d][Len(inbox[d]) + 1] = bc.event
        BY <2>2, <4>2
      <4> QED BY <4>3 DEF Holds
    <3>4. CASE d > bc.at
      <4>1. d \in Later /\ c \leq d
        BY <2>1, <2>6, <3>4 DEF GoesOnTo, IsFirst, Later
      <4> QED BY <2>6, <3>1, <4>1
    <3> QED BY <3>1, <3>2, <3>3, <3>4
  <2>7. /\ bc.known \leq connection_counter
        /\ ~Grown => Cardinality(active_connections) \leq bc.size
    BY <2>2 DEF Covered
  <2>8. SameSize' <=> SameSize
    BY <2>3, <2>4 DEF SameSize
  <2> QED BY <2>2, <2>3, <2>4, <2>5, <2>6, <2>7, <2>8 DEF Covered
\* Others act while a send is under way.
<1>5. ASSUME worker = "sending", UNCHANGED <<bc, inbox>>
      PROVE  Covered'
  <2>1. bc \in Broadcast /\ bc.known \in Nat /\ bc.size \in Nat
    BY <1>5, HubAssumption DEF QueueTypes, Broadcast
  <2>2. CASE connection_counter' # connection_counter
    <3>1. connection_counter' = connection_counter + 1
      BY <2>2 DEF Next, Connect, Receive, Replied, SeeDisconnect, ReceiveBytes,
                  PeerLeaves, EmitToUser, NoticeSent, Emit, WorkerStep, Take,
                  BroadcastSent, Start, Stop
    <3> QED BY <1>1, <1>5, <2>1, <3>1 DEF Covered, Grown
  <2>3. CASE connection_counter' = connection_counter
    <3>1. active_connections' \subseteq active_connections
      BY <2>3, OnlyConnectGrows
    <3>2. /\ Cardinality(active_connections') \in Nat
          /\ Cardinality(active_connections) \in Nat
          /\ Cardinality(active_connections') \leq Cardinality(active_connections)
          /\ Cardinality(active_connections') = Cardinality(active_connections)
               => active_connections' = active_connections
      BY <1>1, <3>1, IdsFacts
    <3>3. ASSUME NEW c \in active_connections', socket'[c] = "open"
          PROVE  socket[c] = "open"
      <4>1. c \in Ids /\ c \in active_connections /\ c \in 1..connection_counter
        BY <1>1, <3>1 DEF MapInv, MapTypes
      <4> QED BY <3>3, <4>1, BrokenStaysBroken
    <3>4. Grown' <=> Grown
      BY <1>5, <2>3 DEF Grown
    <3>5. ASSUME ~Grown, SameSize'
          PROVE  SameSize /\ active_connections' = active_connections
      <4>1. Cardinality(active_connections) \leq bc.size
        BY <1>5, <3>5 DEF Covered
      <4>2. Cardinality(active_connections') = bc.size
        BY <1>5, <3>5 DEF SameSize
      <4> QED BY <2>1, <3>2, <4>1, <4>2 DEF SameSize
    <3>6. ~Grown => Cardinality(active_connections') \leq bc.size
      BY <1>5, <2>1, <3>2 DEF Covered
    <3>7. bc.known \leq connection_counter
      BY <1>5 DEF Covered
    <3> QED BY <1>5, <2>3, <3>3, <3>4, <3>5, <3>6, <3>7 DEF Covered
  <2> QED BY <2>2, <2>3
<1>6. ASSUME worker' = "sending", ~BroadcastSent, ~Take(TRUE), ~Take(FALSE)
      PROVE  worker = "sending" /\ UNCHANGED <<bc, inbox>>
  BY <1>6 DEF Next, Connect, Receive, Replied, SeeDisconnect, ReceiveBytes, PeerLeaves,
              EmitToUser, NoticeSent, Emit, WorkerStep, Start, Stop, queueVars
<1> QED BY <1>2, <1>3, <1>4, <1>5, <1>6

-----------------------------------------------------------------------------
(* The invariant and the properties. *)

LEMMA InitInv == Init => IInv
<1> SUFFICES ASSUME Init PROVE IInv
  OBVIOUS
<1>1. 0 \in 0..MaxConnections /\ 0 \in 0..MaxEvents /\ 0 \in 0..MaxStarts
  BY HubAssumption
<1>2. MapInv
  <2>1. \A S, T : Nowhere \in UNION {[C -> T] : C \in SUBSET S}
    <3> TAKE S, T
    <3>1. DOMAIN Nowhere = {} /\ Nowhere \in [DOMAIN Nowhere -> T]
      BY DEF Nowhere
    <3> QED BY <3>1, PartialFunctions
  <2>2. MapTypes
    BY <2>1 DEF Init, MapTypes
  <2>3. DOMAIN Nowhere = {}
    BY DEF Nowhere
  <2> QED BY <2>2, <2>3 DEF Init, MapInv, Agree, Alive
<1>3. EndpointTypes
  BY <1>1 DEF Init, EndpointTypes, Notice, NoNotice
<1>4. QueueTypes
  <2>1. NoBroadcast \in Broadcast
    BY <1>1 DEF NoBroadcast, Broadcast
  <2>2. inbox \in [Ids -> Seq(Events)] /\ event_queue \in Seq(Events)
    BY DEF Init
  <2>3. finished + Len(event_queue) + Busy \leq emitted
    BY DEF Init, Busy
  <2> QED BY <1>1, <2>1, <2>2, <2>3 DEF Init, QueueTypes
<1>5. Ordered
  BY DEF Init, Ordered, Increasing, Below
<1>6. Covered /\ NoticeReachesUser
  BY DEF Init, Covered, NoticeReachesUser, NoNotice
<1> QED BY <1>2, <1>3, <1>4, <1>5, <1>6 DEF IInv

LEMMA StepInv == IInv /\ [Next]_vars => IInv'
<1> SUFFICES ASSUME IInv, [Next]_vars PROVE IInv'
  OBVIOUS
<1>1. CASE Next
  BY <1>1, MapStep, EndpointKeepsTypes, QueueStep, CoveredStep, NoticeStep DEF IInv
<1>2. CASE UNCHANGED vars
  BY <1>2 DEF vars, maps, queueVars, IInv, MapInv, MapTypes, Agree, Alive, EndpointTypes,
              QueueTypes, Busy, Ordered, Increasing, Below, Covered, Grown, SameSize,
              NoticeReachesUser
<1> QED BY <1>1, <1>2

LEMMA Invariance == Spec => []IInv
  BY InitInv, StepInv, PTL DEF Spec

\* Every variable of the hub keeps its type; in particular task_done is never
\* called for an event that was not put, which asyncio would answer with an error.
THEOREM TypeCorrect == Spec => []TypeOK
<1>1. IInv => TypeOK
  <2> SUFFICES ASSUME IInv PROVE TypeOK
    OBVIOUS
  <2>1. finished \in 0..emitted
    BY EventFacts DEF IInv, QueueTypes, Busy
  <2> QED BY <2>1 DEF IInv, MapInv, MapTypes, EndpointTypes, QueueTypes, TypeOK
<1> QED BY <1>1, Invariance, PTL

\* The four maps of the connection manager agree at every suspension, whoever
\* disconnects whom meanwhile.
THEOREM MapsCorrect == Spec => []MapsAgree
<1>1. IInv => MapsAgree
  BY DEF IInv, MapInv, Agree, Alive, MapsAgree
<1> QED BY <1>1, Invariance, PTL

\* No connection gets events out of order or twice.
THEOREM OrderCorrect == Spec => []BroadcastsInOrder
<1>1. IInv => BroadcastsInOrder
  BY DEF IInv, Ordered, Increasing, BroadcastsInOrder
<1> QED BY <1>1, Invariance, PTL

\* A notice passes by no working connection of its user.
THEOREM NoticeCorrect == Spec => []NoticeReachesUser
<1>1. IInv => NoticeReachesUser
  BY DEF IInv
<1> QED BY <1>1, Invariance, PTL

\* A broadcast that is done and met no new connection reached everybody.
THEOREM DoneCorrect == Spec => DoneReachesAll
<1> DEFINE A == /\ worker = "sending" /\ finished' # finished
                /\ connection_counter = bc.known
           B == \A c \in active_connections' :
                  socket[c] = "open" => Holds(inbox'[c], bc.event)
<1>1. IInv /\ [Next]_vars => [A => B]_vars
  <2> SUFFICES ASSUME IInv, Next, A,
                      NEW c \in active_connections', socket[c] = "open"
               PROVE  Holds(inbox'[c], bc.event)
    BY DEF vars, queueVars
  <2>1. PICK ok \in BOOLEAN :
          /\ SendResult(bc.at, ok)
          /\ inbox' = IF ok THEN [inbox EXCEPT ![bc.at] = Append(@, bc.event)] ELSE inbox
          /\ Ends
          /\ active_connections' \subseteq active_connections
    <3>1. BroadcastSent
      BY DEF Next, Connect, Receive, Replied, SeeDisconnect, ReceiveBytes, PeerLeaves,
             EmitToUser, NoticeSent, Emit, WorkerStep, Take, Start, Stop, queueVars
    <3> QED BY <3>1 DEF BroadcastSent, BroadcastEnds, BroadcastFails, Disconnect
  <2>2. /\ bc.at \in Ids /\ bc.event \in Events /\ inbox \in [Ids -> Seq(Events)]
        /\ c \in active_connections /\ c \in Ids /\ c \in Nat /\ bc.at \in Nat
    <3>1. active_connections \subseteq Ids
      BY HubAssumption DEF IInv, MapInv, MapTypes, EndpointTypes, Ids
    <3> QED BY <2>1, <3>1, IdsFacts DEF IInv, QueueTypes
  <2>3. ~Grown /\ SameSize /\ Later = {}
    BY <2>1 DEF Grown, Ends
  <2>4. c \leq bc.at
    BY <2>2, <2>3 DEF Later
  <2>5. CASE c < bc.at
    <3>1. Holds(inbox[c], bc.event)
      BY <2>2, <2>3, <2>5 DEF IInv, Covered
    <3> QED BY <2>1, <2>2, <2>5, <3>1
  <2>6. CASE c = bc.at
    <3>1. ok
      BY <2>1, <2>6 DEF SendResult
    <3>2. inbox'[c] = Append(inbox[c], bc.event) /\ inbox[c] \in Seq(Events)
      BY <2>1, <2>2, <2>6, <3>1
    <3>3. /\ Len(inbox[c]) + 1 \in 1..Len(inbox'[c])
          /\ inbox'[c][Len(inbox[c]) + 1] = bc.event
      BY <2>2, <3>2
    <3> QED BY <3>3 DEF Holds
  <2> QED BY <2>2, <2>4, <2>5, <2>6
<1> QED BY <1>1, Invariance, PTL DEF Spec, DoneReachesAll
-----------------------------------------------------------------------------
(* The safety halves of GoneAreForgotten and QueueDrains: whoever waits    *)
(* comes nearer with every step of the one it waits for, and nobody else   *)
(* can put it off.                                                         *)

\* The sends of the present broadcast that may still come.
SendsLeft == IF worker = "sending" THEN MaxConnections + 1 - bc.at ELSE 0

\* Of an event at place i of the queue: the worker either comes nearer to the
\* end of its broadcast or takes an event, and then that at place i is one
\* place further up.  Nothing overtakes it.
ComesNearer(i) ==
  \/ event_queue' = Tail(event_queue)
  \/ /\ i \leq Len(event_queue') /\ event_queue'[i] = event_queue[i]
     /\ SendsLeft' \leq SendsLeft
     /\ WorkerStep => SendsLeft' < SendsLeft

\* No broadcast goes on for ever, as connections come, go and fail during its
\* sends, and no event is put back or passed by.
QueueMovesOn ==
  [][(SendsLeft \in 0..MaxConnections) /\ \A i \in 1..Len(event_queue) : ComesNearer(i)]_vars

\* How often the endpoint of a connection whose peer is gone will be resumed.
ResumesLeft(c) ==
  CASE pc[c] = "sending" /\ socket[c] = "draining"   -> 4
    [] pc[c] = "receiving" /\ socket[c] = "draining" -> 3
    [] pc[c] = "sending" /\ socket[c] = "closed"     -> 2
    [] pc[c] = "receiving" /\ socket[c] = "closed"   -> 1
    [] OTHER                                         -> 0

Gone(c) == socket[c] \in {"draining", "closed"}

NearerToForgotten(c) ==
  Gone(c) => /\ Gone(c)'
             /\ ResumesLeft(c)' \leq ResumesLeft(c)
             /\ EndpointStep(c) => ResumesLeft(c)' < ResumesLeft(c)
             /\ ResumesLeft(c) = 0 => c \notin active_connections

\* An endpoint whose peer left is resumed at most four more times, and is then
\* forgotten; a notice or a broadcast that fails meanwhile does not keep it.
GoneGoOn == [][\A c \in Ids : NearerToForgotten(c)]_vars

LEMMA SendsLeftFacts ==
  ASSUME QueueTypes
  PROVE  SendsLeft \in 0..MaxConnections
  BY HubAssumption DEF QueueTypes, SendsLeft, Ids

\* A broadcast only moves to later connections, and ends with its last one.
LEMMA WorkerComesNearer ==
  ASSUME QueueTypes, WorkerStep, NEW i \in 1..Len(event_queue)
  PROVE  ComesNearer(i)
<1>1. CASE Take(TRUE)
  BY <1>1 DEF Take, ComesNearer
<1>2. CASE BroadcastSent
  <2>1. SendsLeft = MaxConnections + 1 - bc.at /\ worker = "sending"
    BY <1>2 DEF BroadcastSent, SendsLeft
  <2>2. bc.at \in Ids /\ bc.at \in Nat /\ bc.at \leq MaxConnections /\ MaxConnections \in Nat
    BY <2>1, HubAssumption DEF QueueTypes, Ids
  <2>3. event_queue' = event_queue
    BY <1>2 DEF BroadcastSent, BroadcastEnds, BroadcastFails
  <2>4. CASE \E c \in Ids : GoesOnTo(c) /\ worker' = worker /\ bc'.at = c
    <3>1. PICK c \in Ids : GoesOnTo(c) /\ worker' = worker /\ bc'.at = c
      BY <2>4
    <3>2. c > bc.at /\ c \in Nat
      BY <3>1, HubAssumption DEF GoesOnTo, Later, Ids
    <3>3. SendsLeft' = MaxConnections + 1 - c
      BY <2>1, <3>1, <3>2 DEF SendsLeft
    <3> QED BY <2>1, <2>2, <2>3, <3>2, <3>3 DEF ComesNearer
  <2>5. CASE worker' = Resting(running)
    <3>1. SendsLeft' = 0
      BY <2>5 DEF SendsLeft, Resting
    <3> QED BY <2>1, <2>2, <2>3, <3>1 DEF ComesNearer
  <2>6. \/ worker' = Resting(running)
        \/ \E c \in Ids : GoesOnTo(c) /\ worker' = worker /\ bc'.at = c
    BY <1>2 DEF BroadcastSent, BroadcastEnds, BroadcastFails, QueueTypes, Broadcast
  <2> QED BY <2>4, <2>5, <2>6
<1> QED BY <1>1, <1>2 DEF WorkerStep

\* Nobody else touches a broadcast that goes on, and nobody reorders the queue.
LEMMA OthersLetItCome ==
  ASSUME QueueTypes, Next, ~WorkerStep, NEW i \in 1..Len(event_queue)
  PROVE  ComesNearer(i)
<1>1. SendsLeft \in Nat
  BY SendsLeftFacts, HubAssumption
<1>2. CASE UNCHANGED <<event_queue, worker, bc>>
  <2>1. SendsLeft' = SendsLeft
    BY <1>2 DEF SendsLeft
  <2> QED BY <1>1, <1>2, <2>1 DEF ComesNearer
<1>3. CASE Emit
  <2>1. SendsLeft' = SendsLeft
    BY <1>3 DEF Emit, SendsLeft
  <2>2. event_queue' = Append(event_queue, emitted + 1) /\ event_queue \in Seq(Events)
    BY <1>3 DEF Emit, QueueTypes
  <2>3. i \leq Len(event_queue') /\ event_queue'[i] = event_queue[i]
    BY <2>2
  <2> QED BY <1>1, <2>1, <2>3 DEF ComesNearer
<1>4. CASE Start
  <2>1. SendsLeft = 0 /\ SendsLeft' = 0 /\ event_queue' = event_queue
    BY <1>4 DEF Start, SendsLeft
  <2> QED BY <2>1 DEF ComesNearer
<1>5. CASE Stop
  <2>1. CASE Take(FALSE)
    BY <2>1 DEF Take, ComesNearer
  <2>2. CASE worker' = "down" /\ event_queue' = event_queue
    <3>1. SendsLeft' = 0
      BY <2>2 DEF SendsLeft
    <3> QED BY <1>1, <2>2, <3>1 DEF ComesNearer
  <2> QED BY <1>5, <2>1, <2>2 DEF Stop
<1>6. CASE \/ \E u \in Users \cup {Anonymous} : Connect(u)
           \/ \E c \in Ids : \/ Receive(c) \/ ReceiveBytes(c) \/ Replied(c)
                             \/ SeeDisconnect(c) \/ PeerLeaves(c)
           \/ \E u \in Users : EmitToUser(u)
           \/ NoticeSent
  BY <1>2, <1>6 DEF Connect, Receive, Replied, SeeDisconnect, ReceiveBytes, PeerLeaves,
                    EmitToUser, NoticeSent, queueVars
<1> QED BY <1>3, <1>4, <1>5, <1>6 DEF Next

\* Every step of the worker brings the queue nearer to being empty, whatever the
\* connections do, and nobody takes it back (EventBroadcaster._worker, broadcast).
THEOREM QueueComesForward == Spec => QueueMovesOn
<1>1. IInv /\ [Next]_vars
        => [(SendsLeft \in 0..MaxConnections)
              /\ \A i \in 1..Len(event_queue) : ComesNearer(i)]_vars
  BY SendsLeftFacts, WorkerComesNearer, OthersLetItCome DEF IInv
<1> QED BY <1>1, Invariance, PTL DEF Spec, QueueMovesOn

\* Ids that were not handed out yet belong to nobody.
Unborn == \A c \in Ids : c > connection_counter => socket[c] = "none" /\ pc[c] = "none"

LEMMA StaysUnborn ==
  ASSUME EndpointTypes, Unborn, [Next]_vars
  PROVE  Unborn'
<1>1. CASE UNCHANGED <<connection_counter, pc, socket>>
  BY <1>1 DEF Unborn
<1>2. ASSUME NEW u, Connect(u)
      PROVE  Unborn'
  <2>1. connection_counter' = connection_counter + 1 /\ connection_counter \in Nat
    BY <1>2, HubAssumption DEF Connect, EndpointTypes
  <2>2. ASSUME NEW c \in Ids, c > connection_counter'
        PROVE  socket'[c] = socket[c] /\ pc'[c] = pc[c] /\ c > connection_counter
    BY <1>2, <2>1, <2>2, HubAssumption DEF Connect, EndpointTypes, Ids
  <2> QED BY <2>2 DEF Unborn
<1>3. ASSUME NEW d \in Ids,
             \/ Receive(d) \/ ReceiveBytes(d) \/ Replied(d)
             \/ SeeDisconnect(d) \/ PeerLeaves(d)
      PROVE  Unborn'
  <2>1. connection_counter' = connection_counter
    BY <1>3 DEF Receive, Replied, SeeDisconnect, ReceiveBytes, PeerLeaves
  <2>2. ~(socket[d] = "none" /\ pc[d] = "none")
    BY <1>3 DEF Receive, Replied, SeeDisconnect, ReceiveBytes, PeerLeaves
  <2>3. \A c \in Ids \ {d} : socket'[c] = socket[c] /\ pc'[c] = pc[c]
    BY <1>3 DEF Receive, Replied, SeeDisconnect, ReceiveBytes, PeerLeaves, EndpointTypes
  <2> QED BY <2>1, <2>2, <2>3 DEF Unborn
<1>4. CASE \/ \E u \in Users : EmitToUser(u)
           \/ NoticeSent \/ Emit \/ WorkerStep \/ Start \/ Stop \/ UNCHANGED vars
  BY <1>1, <1>4 DEF EmitToUser, NoticeSent, Emit, WorkerStep, Take, BroadcastSent, Start,
                    Stop, vars
<1> QED BY <1>2, <1>3, <1>4 DEF Next

\* The other endpoints, the broadcaster and the clients leave it where it is.
LEMMA OnlyItsOwn ==
  ASSUME EndpointTypes, Unborn, [Next]_vars, NEW c \in Ids, Gone(c), ~EndpointStep(c)
  PROVE  pc'[c] = pc[c] /\ socket'[c] = socket[c]
<1>1. CASE UNCHANGED <<pc, socket>>
  BY <1>1
<1>2. ASSUME NEW u, Connect(u)
      PROVE  pc'[c] = pc[c] /\ socket'[c] = socket[c]
  <2>1. c # connection_counter + 1
    BY HubAssumption DEF Unborn, Gone, EndpointTypes
  <2> QED BY <1>2, <2>1 DEF Connect, EndpointTypes
<1>3. ASSUME NEW d \in Ids,
             \/ Receive(d) \/ ReceiveBytes(d) \/ Replied(d)
             \/ SeeDisconnect(d) \/ PeerLeaves(d)
      PROVE  pc'[c] = pc[c] /\ socket'[c] = socket[c]
  <2>1. CASE d = c
    <3>1. ~Replied(c) /\ ~SeeDisconnect(c) /\ ~PeerLeaves(c)
      BY DEF EndpointStep, Gone, PeerLeaves
    <3>2. (Receive(c) \/ ReceiveBytes(c)) /\ socket[c] = "closed"
      BY <1>3, <2>1, <3>1 DEF EndpointStep, Gone
    <3> QED BY <3>2 DEF Receive, ReceiveBytes
  <2>2. CASE d # c
    BY <1>3, <2>2 DEF EndpointTypes, Receive, Replied, SeeDisconnect, ReceiveBytes,
                      PeerLeaves
  <2> QED BY <2>1, <2>2
<1>4. CASE \/ \E u \in Users : EmitToUser(u)
           \/ NoticeSent \/ Emit \/ WorkerStep \/ Start \/ Stop \/ UNCHANGED vars
  BY <1>1, <1>4 DEF EmitToUser, NoticeSent, Emit, WorkerStep, Take, BroadcastSent, Start,
                    Stop, vars
<1> QED BY <1>2, <1>3, <1>4 DEF Next

LEMMA EndpointGoesOn ==
  ASSUME EndpointTypes, NEW c \in Ids, Gone(c), EndpointStep(c)
  PROVE  Gone(c)' /\ ResumesLeft(c)' < ResumesLeft(c) /\ ResumesLeft(c)' \leq ResumesLeft(c)
<1>1. CASE Replied(c)
  <2>1. pc[c] = "sending" /\ pc'[c] = "receiving" /\ socket'[c] = socket[c]
    BY <1>1 DEF Replied, EndpointTypes
  <2> QED BY <2>1 DEF Gone, ResumesLeft
<1>2. CASE SeeDisconnect(c)
  <2>1. /\ pc[c] = "receiving" /\ socket[c] = "closed"
        /\ pc'[c] = "ended" /\ socket'[c] = socket[c]
    BY <1>2 DEF SeeDisconnect, EndpointTypes
  <2> QED BY <2>1 DEF Gone, ResumesLeft
<1>3. CASE socket[c] = "draining" /\ (Receive(c) \/ ReceiveBytes(c))
  <2>1. /\ pc[c] = "receiving" /\ socket[c] = "draining" /\ socket'[c] = "closed"
        /\ pc'[c] \in {"sending", "receiving", "ended"}
    BY <1>3 DEF Receive, ReceiveBytes, EndpointTypes
  <2> QED BY <2>1 DEF Gone, ResumesLeft
<1> QED BY <1>1, <1>2, <1>3 DEF EndpointStep

\* A connection whose peer left is dropped after at most four steps of its own
\* endpoint (websocket_endpoint, websocket_user_endpoint).
THEOREM GoneComeForward == Spec => GoneGoOn
<1>1. Init => Unborn
  BY DEF Init, Unborn
<1>2. IInv /\ Unborn /\ [Next]_vars => Unborn'
  BY StaysUnborn DEF IInv
<1>3. ASSUME IInv, Unborn, [Next]_vars, NEW c \in Ids
      PROVE  NearerToForgotten(c)
  <2> SUFFICES ASSUME Gone(c) PROVE NearerToForgotten(c)
    BY DEF NearerToForgotten
  <2>1. EndpointTypes
    BY <1>3 DEF IInv
  <2>2. ResumesLeft(c) \in 0..4
    BY DEF ResumesLeft
  <2>3. ResumesLeft(c) = 0 => c \notin active_connections
    BY <1>3 DEF IInv, MapInv, Alive, Gone, ResumesLeft
  <2>4. CASE EndpointStep(c)
    BY <2>1, <2>3, <2>4, EndpointGoesOn DEF NearerToForgotten
  <2>5. CASE ~EndpointStep(c)
    <3>1. pc'[c] = pc[c] /\ socket'[c] = socket[c]
      BY <1>3, <2>1, <2>5, OnlyItsOwn
    <3>2. ResumesLeft(c)' = ResumesLeft(c) /\ Gone(c)'
      BY <3>1 DEF ResumesLeft, Gone
    <3> QED BY <2>2, <2>3, <2>5, <3>2 DEF NearerToForgotten
  <2> QED BY <2>4, <2>5
<1>4. IInv /\ Unborn /\ [Next]_vars => [\A c \in Ids : NearerToForgotten(c)]_vars
  BY <1>3
<1> QED BY <1>1, <1>2, <1>4, Invariance, PTL DEF Spec, GoneGoOn
===============================================================================
