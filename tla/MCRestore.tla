----------------------------- MODULE MCRestore -----------------------------
(* Small instances of Restore for TLC. *)
EXTENDS Restore, TLC

CONSTANTS r1, r2, s1, s2, a, b

\* Paths in canonical order: artifacts 1 and 3, the run manifest 2 and the restore
\* manifest 4.
Revision(n) == <<Base, n>>
One == <<1, Revision(1)>>
Run == <<2, Revision(2)>>

FromCommit(c) == [commit |-> c, snapshot |-> FALSE]
OfSnapshot == [commit |-> Base, snapshot |-> TRUE]

\* Two finalizers of one restore; two paths of its source share a revision.
Peers ==
    [members |-> {One, Run, <<3, Revision(1)>>}, view |-> {Run}, manifests |-> {2, 4},
     source |-> r1 :> FromCommit(Base), name |-> r1 :> a, session |-> s1 :> r1 @@ s2 :> r1,
     edited |-> {}]

\* A snapshot that differs from the commit it names.
Snapshot ==
    [members |-> {One, Run}, view |-> {One, Run, <<3, Revision(3)>>}, manifests |-> {2},
     source |-> r1 :> OfSnapshot, name |-> r1 :> a, session |-> s1 :> r1, edited |-> {Base}]

\* A restore of a restored workspace.
Chain ==
    [members |-> {One, Run}, view |-> {Run}, manifests |-> {2},
     source |-> r1 :> FromCommit(Base) @@ r2 :> FromCommit(r1), name |-> r1 :> a @@ r2 :> b,
     session |-> s1 :> r1 @@ s2 :> r2, edited |-> {r1}]

\* A second restore under the name of the first.
Again ==
    [members |-> {One, Run}, view |-> {Run}, manifests |-> {2},
     source |-> r1 :> FromCommit(Base) @@ r2 :> FromCommit(Base),
     name |-> r1 :> a @@ r2 :> a, session |-> s2 :> r2, edited |-> {}]

\* A source without artifacts.
Bare ==
    [members |-> {Run}, view |-> {Run}, manifests |-> {2, 4}, source |-> r1 :> FromCommit(Base),
     name |-> r1 :> a, session |-> s1 :> r1, edited |-> {}]

MCPlans == {Peers, Snapshot, Chain, Again, Bare}
=============================================================================
