---------------------------- MODULE MCEtcdControl ----------------------------
(* Small instance of EtcdControl for TLC. *)
EXTENDS EtcdControl, TLC

CONSTANTS a, b

MCOwners == {a, b}
Symmetric == Permutations(MCOwners)
=============================================================================
