--------------------------- MODULE MCShardFailover ---------------------------
(* Small instances of ShardFailover for TLC. *)
EXTENDS ShardFailover, TLC

CONSTANTS n1, n2

MCOwners == {n1, n2}
SharedDeployment ==
    [mode |-> "Shared", nodes |-> MCOwners, disksFail |-> TRUE]
LocalDeployment(nodes) ==
    [mode |-> "LocalOnly", nodes |-> nodes, disksFail |-> FALSE]

\* A shared shard on two nodes, or a local-only one on a node of its own.
MCDeployments == {SharedDeployment} \cup {LocalDeployment({n}) : n \in MCOwners}
OnlyShared == {SharedDeployment}

Symmetric == Permutations(MCOwners)
=============================================================================
