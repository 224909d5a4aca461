--------------------------- MODULE MCControlStore ----------------------------
(* Small instance of ControlStore for TLC. *)
EXTENDS ControlStore, TLC

CONSTANTS a, b, da, db

MCOwners == {a, b}
MCDigests == {da, db}
Symmetric == Permutations(MCOwners) \cup Permutations(MCDigests)
=============================================================================
