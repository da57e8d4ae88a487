----------------------------- MODULE DockerHosts -----------------------------
(***************************************************************************)
(* What DockerOperations (backend/docker_ops.py) does to the two Docker    *)
(* daemons of a migration.  Every method is an `async def` over blocking   *)
(* docker-py calls: it never yields to the event loop, so it is part of    *)
(* the step of its caller.  The daemons' own answers are nondeterministic. *)
(***************************************************************************)
EXTENDS Naturals, Sequences, FiniteSets

CONSTANTS Containers,     \* containers of the source host, by name
          Volumes,        \* host paths mounted into them
          Networks,       \* user-defined Docker networks
          Mounts,         \* container -> the volumes it mounts
          NetsOf,         \* container -> its networks, in the daemon's order
          Nobody          \* creator of a container the target does not have

VARIABLES srcUp,          \* containers running on the source host
          tgtBy,          \* container -> migration that created it on the target
          tgtNets,        \* networks the target host has
          attached        \* container -> networks it was connected to on the target

hostVars == <<srcUp, tgtBy, tgtNets, attached>>

Bridge == "bridge"

ASSUME DockerAssumption ==
  /\ IsFiniteSet(Volumes)
  /\ Mounts \in [Containers -> SUBSET Volumes]
  /\ NetsOf \in [Containers -> Seq(Networks \cup {Bridge})]

VolumesOf(cs) == UNION {Mounts[c] : c \in cs}

Users(v) == {c \in Containers : v \in Mounts[c]}

\* stop_containers succeeds as soon as the daemon answers: a container that
\* cannot be stopped (`missed`) is logged and left running.
StopContainers(cs, missed) ==
  /\ missed \subseteq cs \cap srcUp
  /\ srcUp' = srcUp \ (cs \ missed)

\* create_network_on_target, once per network: an existing one is kept, a
\* failed one is only a warning of the caller.
CreateNetworks(ns, failed) ==
  /\ failed \subseteq ns \ tgtNets
  /\ tgtNets' = tgtNets \cup (ns \ failed)

\* Mutant: a container that exists already counts as recreated.
Conflicts_Ignored(cs) == {}

\* Names already taken on the target: containers.run fails for them.
Conflicts(cs) == {c \in cs : tgtBy[c] # Nobody}

\* recreate_containers_on_target runs the containers one by one and stops at
\* the first error.  What was created before it (`made`) stays, the container
\* whose start failed included.  What the containers have mounted shows in what
\* they can write to (TargetWrite of ContainerMigration).
RunContainers(m, cs, made) ==
  /\ made \subseteq cs \ Conflicts(cs)
  /\ tgtBy' = [c \in Containers |-> IF c \in made THEN m ELSE tgtBy[c]]

\* connect_container_to_networks skips the first network and `bridge`, and
\* gives up at the first network that the target does not have or whose
\* connection the daemon refuses.
Connected(c, nets, refused) ==
  {NetsOf[c][i] : i \in {j \in 2..Len(NetsOf[c]) :
      /\ NetsOf[c][j] # Bridge
      /\ \A k \in 2..j : \/ NetsOf[c][k] = Bridge
                         \/ /\ NetsOf[c][k] \in nets
                            /\ <<c, NetsOf[c][k]>> \notin refused}}

Refusable(cs, nets) == UNION {{c} \X Connected(c, nets, {}) : c \in cs}

ConnectContainers(cs, nets, refused) ==
  /\ refused \subseteq Refusable(cs, nets)
  /\ attached' = [c \in Containers |->
                    IF c \in cs THEN attached[c] \cup Connected(c, nets, refused)
                                ELSE attached[c]]

HostsTypeOK(creators) ==
  /\ srcUp \subseteq Containers
  /\ tgtBy \in [Containers -> creators \cup {Nobody}]
  /\ tgtNets \subseteq Networks
  /\ attached \in [Containers -> SUBSET Networks]
==============================================================================
