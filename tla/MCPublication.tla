--------------------------- MODULE MCPublication ---------------------------
(* Small instances of Publication for TLC. *)
EXTENDS Publication, TLC

CONSTANTS o1, o2, r1, r2

\* Two publications of one revision identity, of which the first must be gone
\* before the second is admitted.
Reuse ==
    [revision |-> o1 :> r1 @@ o2 :> r1, attempt |-> o1 :> None @@ o2 :> None,
     objects |-> 1, moves |-> 0]

\* Two attempts of one logical append.
Append ==
    [revision |-> o1 :> r1 @@ o2 :> r2, attempt |-> o1 :> 0 @@ o2 :> 1,
     objects |-> 1, moves |-> 0]

\* An append of two objects whose path others may change.
Contended ==
    [revision |-> o1 :> r1, attempt |-> o1 :> 0,
     objects |-> 2, moves |-> 1]

MCPlans == {Reuse, Append, Contended}
ReusePlans == {Reuse}
=============================================================================
