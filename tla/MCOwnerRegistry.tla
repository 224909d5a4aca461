--------------------------- MODULE MCOwnerRegistry ---------------------------
(* A small instance of OwnerRegistry for TLC. *)
EXTENDS OwnerRegistry, TLC

CONSTANTS ra, sa

MCShardOf == ra :> sa
=============================================================================
