---------------------------- MODULE MCRevisionGc ----------------------------
(* A small instance of RevisionGc for TLC. *)
EXTENDS RevisionGc, TLC

CONSTANTS p

MCSeeded == p :> 1
=============================================================================
