------------------------- MODULE MCContainerMigration -------------------------
(* Instances of ContainerMigration for TLC. *)
EXTENDS ContainerMigration, TLC

CONSTANTS c1, c2, v1, v2, p1, p2

OwnMounts == (c1 :> {v1}) @@ (c2 :> {v2})

\* The volumes of one container, one of them shared with another container.
SharedMounts == (c1 :> {v1, v2}) @@ (c2 :> {v2})

\* One container with both volumes, one without any.
UnevenMounts == (c1 :> {v1, v2}) @@ (c2 :> {})

MCNetsOf == (c1 :> <<Bridge, "front", "back">>) @@ (c2 :> <<"front">>)

\* Bind mounts with different last components.
DistinctPaths == (v1 :> p1) @@ (v2 :> p2)

\* Two named volumes: both mountpoints end in _data (get_container_volumes).
NamedVolumePaths == (v1 :> p1) @@ (v2 :> p1)

Containerwise(cs) == [kind |-> "containers", containers |-> cs, networks |-> {}]

Composewise(cs) == [kind |-> "project", containers |-> cs, networks |-> {"front", "back"}]

\* Two containers found by name; one of them found through its compose file.
OverlappingRequests == {Containerwise({c1, c2}), Composewise({c2})}

\* Migrations that have nothing in common but the hosts.
DisjointRequests == {Containerwise({c1}), Containerwise({c2})}

OneRequest == {Containerwise({c1})}

TwoContainers == {Containerwise({c1, c2})}

IdSymmetry == Permutations(MigrationIds)
===============================================================================
