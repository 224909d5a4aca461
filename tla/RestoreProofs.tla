--------------------------- MODULE RestoreProofs ---------------------------
(***************************************************************************)
(* Proofs about Restore, for every set of plans (any number of restores    *)
(* and requests, any source and snapshot, any manifests) and every batch   *)
(* size: the source of a restore is held, counts are exact, a restored     *)
(* commit is whole, an aborted one leaves nothing, and requests converge.  *)
(*                                                                         *)
(* Everything but the requests is said of the rows, StoreOK(d).  A step    *)
(* changes the rows of one restore; Kept says what it must leave alone for *)
(* the others to stay as they are, and the references (RefsOK), what pins  *)
(* what (PinsOK) and the restore's own progress (Shape) are shown apart.   *)
(***************************************************************************)
EXTENDS Restore, FiniteSetTheorems, WellFoundedInduction, TLAPS

RowSet == (Nat \ {0}) \X Revisions
Phases == {"None", "Preparing", "Copying"} \cup ForwardPhases \cup AbortPhases
OpRows == [phase : Phases, bound : BOOLEAN, manifests : BOOLEAN,
           cursor : Nat, eof : BOOLEAN, copied : Int, uncopied : Int,
           memberCursor : Nat, members : Int, refs : Int, sealed : Int,
           unmembers : Int, unrefs : Int]
PubRows == [phase : {"None", "Uploading", "Published", "Aborting", "Cleaning", "Cleaned",
                     "Quarantined"},
            lease : {"live", "expired", "superseded"}]
CommitRows == [state : {"Absent", "Sealed", "Claiming", "Releasing", "Retired"}, count : Int]
SnapshotRows == [state : {"Active", "Retired", "ReapClaimed", "Reaped"}, count : Int,
                 overdue : BOOLEAN, expired : BOOLEAN]
RevRows == [state : {"Absent", "Available", "Collected"}, count : Int]
NameRows == [state : {"Absent", "Staging", "Visible", "Retired"}, owner : Restores \cup {None}]
Consumers == {"head", "snapshot", "lease", "child"} \X Commits
Stores == [op : [Restores -> OpRows], ws : [Names -> NameRows],
           pub : [Restores -> [Manifests -> PubRows]],
           entry : [Commits -> SUBSET RowSet], ledger : [Restores -> SUBSET RowSet],
           commit : [Commits -> CommitRows], member : [Commits -> SUBSET RowSet],
           ref : [Commits -> SUBSET Revisions], consumer : [Commits -> SUBSET Consumers],
           snapshot : SnapshotRows, hold : SUBSET Commits, rev : [Revisions -> RevRows]]
Sess == [at : {"idle", "done"} \cup (ForwardPhases \ {"Complete"}),
         answer : {"none", "Restored", "Refused"}]

-----------------------------------------------------------------------------
(* The inductive invariant.                                                *)

\* The restore has begun and is neither complete nor cleaned up.
Live(d, r) == d.op[r].phase \notin {"None", "Complete", "Cleaned"}

FiniteRows(d) ==
    /\ \A c \in Commits : /\ IsFiniteSet(d.entry[c]) /\ IsFiniteSet(d.member[c])
                          /\ IsFiniteSet(d.ref[c])
    /\ \A r \in Restores : IsFiniteSet(d.ledger[r])

\* The path references and the commit references of a revision.
PathRefs(entry, v) ==
    {cx \in Commits \X UNION {entry[c] : c \in Commits} :
        cx[2] \in entry[cx[1]] /\ cx[2][2] = v}
Referrers(ref, v) == {c \in Commits : v \in ref[c]}

\* Revisions are counted exactly, and only an Available one is referenced.
CountedRev(d, v) ==
    /\ IsFiniteSet(PathRefs(d.entry, v)) /\ IsFiniteSet(Referrers(d.ref, v))
    /\ d.rev[v].count = Cardinality(PathRefs(d.entry, v)) + Cardinality(Referrers(d.ref, v))
    /\ d.rev[v].state # "Available" => d.rev[v].count = 0
RefsOK(d) == \A v \in Revisions : CountedRev(d, v)

\* A hold keeps everything the snapshot names.
ViewOK(d) == d.hold # {} => Available(d.rev, plan.view)

\* Consumers are counted exactly, and only a Sealed commit has any.
ConsumersOK(d) ==
    \A c \in Commits :
        /\ IsFiniteSet(d.consumer[c])
        /\ d.commit[c].count = Cardinality(d.consumer[c])
        /\ d.consumer[c] # {} => d.commit[c].state = "Sealed"

\* The snapshot is consumed while it is Active and its restores hold it.
SnapshotOK(d) ==
    /\ IsFiniteSet(d.hold) /\ d.snapshot.count = Cardinality(d.hold \ {Base})
    /\ d.snapshot.state = "Active" <=> Base \in d.hold
    /\ d.snapshot.state = "Active" <=> SnapshotConsumer \in d.consumer[Base]
    /\ d.hold # {} => d.snapshot.state = "Active"

\* A restore pins its source while it is live, and its commit its parent.
PinOK(d, r) ==
    /\ FromSnapshot(r) /\ Live(d, r) <=> r \in d.hold
    /\ ~FromSnapshot(r) /\ Live(d, r) <=> Lease(r) \in d.consumer[Source(r)]
    /\ d.commit[r].state \in {"Sealed", "Claiming"} => Child(r) \in d.consumer[Source(r)]
    /\ Child(r) \in d.consumer[Source(r)] => d.commit[r].state # "Absent"
PinsOK(d) == ConsumersOK(d) /\ SnapshotOK(d) /\ \A r \in Restores : PinOK(d, r)

\* How far a restore has come, by its phase.
Early == {"None", "Preparing", "Copying"}
Building == {"DestinationBuilding", "DestinationSealing", "Ready"}
Shape(d, r) ==
    LET op == d.op[r] IN
    /\ op.phase = "None" => d.ledger[r] = {}
    /\ op.phase \in Early =>
          ~op.bound /\ d.entry[r] = d.ledger[r] /\ \A x \in d.ledger[r] : x[1] <= op.cursor
    /\ ~op.bound => \A m \in Manifests : d.pub[r][m].phase = "None"
    /\ op.phase \in Early \cup {"SourceSealed"} =>
          /\ d.member[r] = {} /\ d.ref[r] = {}
          /\ op.members = 0 /\ op.refs = 0 /\ op.memberCursor = 0
    /\ op.phase # "Complete" =>
          /\ d.ledger[r] \subseteq d.entry[r]
          /\ d.entry[r] \subseteq d.ledger[r] \cup ManifestRows(r)
          /\ d.commit[r].state = "Absent"
    /\ op.phase \in Building =>
          /\ \A m \in Manifests : d.pub[r][m].phase = "Published"
          /\ ManifestRows(r) \subseteq d.entry[r]
          /\ Cardinality(d.member[r]) = op.members
          /\ Cardinality(d.ref[r]) = op.refs
          /\ d.ref[r] = {x[2] : x \in d.member[r]}
    /\ op.phase = "DestinationBuilding" =>
          d.member[r] = {x \in d.entry[r] : x[1] <= op.memberCursor}
    /\ op.phase \in {"DestinationSealing", "Ready"} => d.member[r] = d.entry[r]
    /\ op.phase \in {"Complete", "Cleaned", "Quarantined"} =>
          \A m \in Manifests : d.pub[r][m].phase \notin ActivePublications
    /\ op.phase = "Cleaned" =>
          d.entry[r] = {} /\ d.ledger[r] = {} /\ d.member[r] = {} /\ d.ref[r] = {}

\* The source as it is, and what a commit must have of it.
RowsOf(d, r) == IF FromSnapshot(r) THEN plan.view ELSE d.member[Source(r)]
Content(d, c) ==
    IF c = Base THEN plan.members ELSE Materialized(RowsOf(d, c)) \cup ManifestRows(c)
LedgerOK(d, r) ==
    d.op[r].phase \in {"SourceSealed"} \cup Building => d.ledger[r] = Materialized(RowsOf(d, r))
CommitOK(d, c) ==
    d.commit[c].state = "Sealed" =>
        d.member[c] = Content(d, c) /\ {x[2] : x \in d.member[c]} \subseteq d.ref[c]

NameOK(d, r) == Live(d, r) => d.ws[plan.name[r]] = [state |-> "Staging", owner |-> r]
FreshOK(d, r) ==
    \A m \in Manifests : d.pub[r][m].phase # "Published" =>
        d.rev[<<r, m>>] = [state |-> "Absent", count |-> 0]

StoreOK(d) ==
    /\ d \in Stores /\ FiniteRows(d) /\ RefsOK(d) /\ ViewOK(d) /\ PinsOK(d)
    /\ \A r \in Restores : Shape(d, r) /\ LedgerOK(d, r) /\ NameOK(d, r) /\ FreshOK(d, r)
    /\ \A c \in Commits : CommitOK(d, c)

\* A request has seen no more than the restore has reached, unless it was given up.
Seen(e, phase) ==
    /\ e.answer = "Restored" => phase = "Complete"
    /\ e.answer = "Refused" => phase \in AbortPhases
    /\ e.at \in ForwardPhases => phase \in AbortPhases \/ Rank(phase) >= Rank(e.at)
SessionOK(d, se) == \A s \in Sessions : Seen(se[s], d.op[plan.session[s]].phase)

WorkerOK(w) == w.pc = "retire" => w.item \in Commits

IInv ==
    /\ plan \in Plans
    /\ StoreOK(db)
    /\ session \in [Sessions -> Sess] /\ SessionOK(db, session)
    /\ WorkerOK(worker)

-----------------------------------------------------------------------------
(* Numbers, finite sets and the plan.                                      *)

LEMMA GreatestOfFinite ==
    ASSUME NEW T, IsFiniteSet(T), T \subseteq Nat, T # {}
    PROVE  \E n \in T : \A m \in T : m <= n
  <1> DEFINE Above(n) == {m \in T : m > n}
             Sizes == {Cardinality(Above(n)) : n \in T}
  <1>1. \A n \in T : IsFiniteSet(Above(n)) /\ Cardinality(Above(n)) \in Nat
    BY FS_Subset, FS_CardinalityType
  <1>2. Sizes \subseteq Nat /\ Sizes # {}
    BY <1>1
  <1>3. \E k \in Sizes : \A j \in Sizes : ~ (<<j, k>> \in OpToRel(<, Nat))
    <2> HIDE DEF Sizes
    <2> QED BY <1>2, NatLessThanWellFounded, WFMin
  <1>4. PICK n \in T : \A j \in Sizes : ~ (<<j, Cardinality(Above(n))>> \in OpToRel(<, Nat))
    BY <1>3
  <1>5. \A j \in Nat, k \in Nat : j < k => <<j, k>> \in OpToRel(<, Nat)
    BY Zenon DEF OpToRel
  <1>6. \A m \in T : ~(Cardinality(Above(m)) < Cardinality(Above(n)))
    BY <1>1, <1>4, <1>5
  <1>7. ASSUME NEW m \in T, m > n PROVE FALSE
    <2>0. m \in Nat /\ n \in Nat /\ m \in Above(n) /\ m \notin Above(m)
      BY <1>7
    <2>1. Above(m) \in SUBSET Above(n) /\ Above(m) # Above(n)
      <3>1. \A k \in Above(m) : k \in Above(n)
        BY <1>7
      <3> QED BY <2>0, <3>1
    <2>2. Cardinality(Above(m)) <= Cardinality(Above(n))
          /\ Cardinality(Above(m)) # Cardinality(Above(n))
      <3> HIDE DEF Above
      <3> QED BY <1>1, <2>1, FS_Subset
    <2>3. Cardinality(Above(m)) \in Nat /\ Cardinality(Above(n)) \in Nat
      BY <1>1
    <2>4. ~(Cardinality(Above(m)) < Cardinality(Above(n)))
      BY <1>6
    <2> HIDE DEF Above
    <2> QED BY <2>2, <2>3, <2>4
  <1> QED BY <1>7

\* The last path of a page.
LEMMA LastFacts ==
    ASSUME NEW S, IsFiniteSet(S), \A x \in S : x[1] \in Nat, NEW k \in Nat
    PROVE  /\ Last(S, k) \in Nat
           /\ S = {} => Last(S, k) = k
           /\ \A x \in S : x[1] <= Last(S, k)
           /\ S # {} => \E x \in S : x[1] = Last(S, k)
  <1> DEFINE T == {x[1] : x \in S}
             f == [x \in S |-> x[1]]
  <1>1. CASE S = {}
    BY <1>1 DEF Last
  <1>2. CASE S # {}
    <2>1. f \in Surjection(S, T)
      BY DEF Surjection
    <2>2. IsFiniteSet(T)
      <3> HIDE DEF T, f
      <3> QED BY <2>1, FS_Surjection
    <2>3. T \subseteq Nat /\ T # {}
      BY <1>2
    <2>4. \E n \in T : \A m \in T : m <= n
      <3> HIDE DEF T
      <3> QED BY <2>2, <2>3, GreatestOfFinite
    <2>5. \E n \in T : \A m \in T : n >= m
      BY <2>3, <2>4
    <2>6. Max(T) \in T /\ \A m \in T : Max(T) >= m
      <3> HIDE DEF T
      <3> QED BY <2>5, Zenon DEF Max
    <2>7. Last(S, k) = Max(T)
      BY <1>2 DEF Last
    <2>8. Last(S, k) \in Nat /\ \A m \in T : m <= Last(S, k)
      BY <2>3, <2>6, <2>7
    <2> QED BY <1>2, <2>6, <2>7, <2>8
  <1> QED BY <1>1, <1>2

LEMMA ImageFinite ==
    ASSUME NEW S, IsFiniteSet(S)
    PROVE  IsFiniteSet({x[2] : x \in S})
  <1> DEFINE T == {x[2] : x \in S}
             f == [x \in S |-> x[2]]
  <1>1. f \in Surjection(S, T)
    BY DEF Surjection
  <1>2. IsFiniteSet(T)
    <2> HIDE DEF T, f
    <2> QED BY <1>1, FS_Surjection
  <1> QED BY <1>2

LEMMA DisjointUnion ==
    ASSUME NEW S, NEW T, IsFiniteSet(S), IsFiniteSet(T), S \cap T = {}
    PROVE  IsFiniteSet(S \cup T)
           /\ Cardinality(S \cup T) = Cardinality(S) + Cardinality(T)
  <1>1. Cardinality(S) \in Nat /\ Cardinality(T) \in Nat
    BY FS_CardinalityType
  <1>2. Cardinality({}) = 0
    BY FS_EmptySet
  <1>3. /\ IsFiniteSet(S \cup T)
        /\ Cardinality(S \cup T) = Cardinality(S) + Cardinality(T) - Cardinality(S \cap T)
    BY FS_Union
  <1>4. Cardinality(S \cap T) = 0
    BY <1>2
  <1> QED BY <1>1, <1>3, <1>4

LEMMA SubsetTaken ==
    ASSUME NEW S, NEW T, IsFiniteSet(S), T \subseteq S
    PROVE  /\ IsFiniteSet(T) /\ IsFiniteSet(S \ T)
           /\ Cardinality(S \ T) = Cardinality(S) - Cardinality(T)
  <1>1. S \cap T = T
    OBVIOUS
  <1>2. IsFiniteSet(T)
    BY FS_Subset
  <1> QED BY <1>1, <1>2, FS_Difference

LEMMA PlanFacts ==
    ASSUME plan \in Plans
    PROVE  /\ BatchSize \in Nat \ {0}
           /\ Manifests \subseteq Nat \ {0}
           /\ Base \in Commits /\ Base \notin Restores /\ Restores \subseteq Commits
           /\ Commits = {Base} \cup Restores
           /\ plan.edited \subseteq Commits
           /\ IsFiniteSet(plan.members) /\ IsFiniteSet(plan.view)
           /\ plan.members \subseteq RowSet /\ plan.view \subseteq RowSet
           /\ \A x \in plan.members \cup plan.view : x[2] \notin Restores \X Manifests
           /\ \A r \in Restores :
                 /\ Source(r) \in Commits /\ Source(r) # r
                 /\ FromSnapshot(r) \in BOOLEAN /\ (FromSnapshot(r) => Source(r) = Base)
                 /\ plan.name[r] \in Names
                 /\ \A m \in Manifests : <<r, m>> \in Revisions /\ <<m, <<r, m>>>> \in RowSet
           /\ \A s \in Sessions : plan.session[s] \in Restores
  <1> USE DEF Manifests, Restores, Commits, Source, FromSnapshot, Names, Sessions
  <1>1. \A x \in plan.members \cup plan.view :
           x = <<x[1], x[2]>> /\ x[1] \in Nat \ {0} /\ x[2] \in Revisions
           /\ x[2] \notin Restores \X Manifests
    BY RestoreAssumption DEF Revisions
  <1>2. plan.members \subseteq RowSet /\ plan.view \subseteq RowSet
    BY <1>1 DEF RowSet
  <1>3. \A r \in Restores, m \in Manifests : <<r, m>> \in Revisions
    BY DEF Revisions
  <1>4. \A r \in Restores, m \in Manifests : <<m, <<r, m>>>> \in RowSet
    BY <1>3, RestoreAssumption DEF RowSet
  <1> QED BY <1>1, <1>2, <1>3, <1>4, RestoreAssumption

-----------------------------------------------------------------------------
(* The plan does not change, so what is said of rows is said of them after *)
(* a step, too.                                                            *)

LEMMA PlanKept ==
    ASSUME plan' = plan, NEW d, StoreOK(d)
    PROVE  StoreOK(d)'
  <1>1. Restores' = Restores /\ Manifests' = Manifests /\ Sessions' = Sessions
    BY DEF Restores, Manifests, Sessions
  <1>2. Commits' = Commits
    BY <1>1 DEF Commits
  <1>3. \A r : Source(r)' = Source(r) /\ FromSnapshot(r)' = FromSnapshot(r)
    BY DEF Source, FromSnapshot
  <1>4. Revisions' = Revisions
    BY <1>1 DEF Revisions
  <1>5. Names' = Names
    BY <1>1 DEF Names
  <1>6. RowSet' = RowSet /\ NameRows' = NameRows /\ Consumers' = Consumers
    BY <1>1, <1>2, <1>4 DEF RowSet, NameRows, Consumers
  <1>7. (d \in Stores)' <=> d \in Stores
    BY <1>1, <1>2, <1>4, <1>5, <1>6 DEF Stores
  <1>8. FiniteRows(d)' <=> FiniteRows(d)
    BY <1>1, <1>2 DEF FiniteRows
  <1>9. \A v : PathRefs(d.entry, v)' = PathRefs(d.entry, v)
               /\ Referrers(d.ref, v)' = Referrers(d.ref, v)
    BY <1>2 DEF PathRefs, Referrers
  <1>10. RefsOK(d)' <=> RefsOK(d)
    BY <1>4, <1>9 DEF RefsOK, CountedRev
  <1>11. ViewOK(d)' <=> ViewOK(d)
    BY DEF ViewOK, Available
  <1>12. ConsumersOK(d)' <=> ConsumersOK(d)
    BY <1>2 DEF ConsumersOK
  <1>13. \A r : PinOK(d, r)' <=> PinOK(d, r)
    BY <1>3 DEF PinOK, Live, Lease, Child
  <1>14. PinsOK(d)' <=> PinsOK(d)
    BY <1>1, <1>12, <1>13 DEF PinsOK, SnapshotOK, SnapshotConsumer
  <1>15. \A r : ManifestRows(r)' = ManifestRows(r)
    BY <1>1 DEF ManifestRows
  <1>16. \A S : Materialized(S)' = Materialized(S)
    BY <1>1 DEF Materialized
  <1>17. \A r : RowsOf(d, r)' = RowsOf(d, r)
    BY <1>3 DEF RowsOf
  <1>18. \A r : LedgerOK(d, r)' <=> LedgerOK(d, r)
    BY <1>16, <1>17 DEF LedgerOK, Building
  <1>19. \A c : CommitOK(d, c)' <=> CommitOK(d, c)
    BY <1>15, <1>16, <1>17 DEF CommitOK, Content
  <1>20. \A r : NameOK(d, r)' <=> NameOK(d, r)
    BY DEF NameOK, Live
  <1>21. \A r : FreshOK(d, r)' <=> FreshOK(d, r)
    BY <1>1 DEF FreshOK
  <1>22. \A r : Shape(d, r)' <=> Shape(d, r)
    BY <1>1, <1>15 DEF Shape, Early, Building
  <1>23. (\A r \in Restores : Shape(d, r) /\ LedgerOK(d, r) /\ NameOK(d, r) /\ FreshOK(d, r))'
    BY <1>1, <1>18, <1>20, <1>21, <1>22 DEF StoreOK
  <1>24. (\A c \in Commits : CommitOK(d, c))'
    BY <1>2, <1>19 DEF StoreOK
  <1> QED BY <1>7, <1>8, <1>10, <1>11, <1>14, <1>23, <1>24 DEF StoreOK

-----------------------------------------------------------------------------
(* References: the rows of paths and commits, and what is counted of them. *)

Naming(S, v) == {x \in S : x[2] = v}

LEMMA CountFacts ==
    ASSUME NEW rev \in [Revisions -> RevRows], NEW S, IsFiniteSet(S), NEW k \in {1, -1}
    PROVE  /\ Count(rev, S, k) \in [Revisions -> RevRows]
           /\ \A v \in Revisions :
                 /\ Cardinality(Naming(S, v)) \in Nat
                 /\ Count(rev, S, k)[v].state = rev[v].state
                 /\ k = 1 => Count(rev, S, k)[v].count = rev[v].count + Cardinality(Naming(S, v))
                 /\ k = -1 => Count(rev, S, k)[v].count = rev[v].count - Cardinality(Naming(S, v))
                 /\ Naming(S, v) = {} => Count(rev, S, k)[v] = rev[v]
  <1> DEFINE n(v) == Cardinality(Naming(S, v))
             m(v) == k * n(v)
  <1>1. \A v \in Revisions : n(v) \in Nat /\ (Naming(S, v) = {} => n(v) = 0)
    BY FS_Subset, FS_CardinalityType, FS_EmptySet DEF Naming
  <1>2. Count(rev, S, k) = [v \in Revisions |-> [rev[v] EXCEPT !.count = @ + m(v)]]
    BY DEF Count, Naming
  <1> HIDE DEF n
  <1>3. \A v \in Revisions :
           /\ m(v) \in Int
           /\ k = 1 => m(v) = n(v)
           /\ k = -1 => m(v) = 0 - n(v)
    BY <1>1
  <1> HIDE DEF m
  <1>4. \A v \in Revisions :
           /\ rev[v] \in RevRows
           /\ [rev[v] EXCEPT !.count = @ + m(v)] \in RevRows
           /\ [rev[v] EXCEPT !.count = @ + m(v)].state = rev[v].state
           /\ [rev[v] EXCEPT !.count = @ + m(v)].count = rev[v].count + m(v)
           /\ m(v) = 0 => [rev[v] EXCEPT !.count = @ + m(v)] = rev[v]
    BY <1>3 DEF RevRows
  <1>5. \A v \in Revisions : rev[v].count \in Int
    BY DEF RevRows
  <1>6. \A v \in Revisions : Naming(S, v) = {} => m(v) = 0
    BY <1>1, <1>3
  <1>7. \A v \in Revisions : Count(rev, S, k)[v] = [rev[v] EXCEPT !.count = @ + m(v)]
    BY <1>2
  <1>8. Count(rev, S, k) \in [Revisions -> RevRows]
    BY <1>2, <1>4
  <1> HIDE <1>2
  <1>9. \A v \in Revisions :
           /\ k = 1 => Count(rev, S, k)[v].count = rev[v].count + n(v)
           /\ k = -1 => Count(rev, S, k)[v].count = rev[v].count - n(v)
    <2>1. \A v \in Revisions : Count(rev, S, k)[v].count = rev[v].count + m(v)
      BY <1>4, <1>7
    <2> QED BY <1>1, <1>3, <1>5, <2>1
  <1>10. \A v \in Revisions :
            /\ Count(rev, S, k)[v].state = rev[v].state
            /\ Naming(S, v) = {} => Count(rev, S, k)[v] = rev[v]
    BY <1>4, <1>6, <1>7
  <1> QED BY <1>1, <1>8, <1>9, <1>10 DEF n

LEMMA CountUp ==
    ASSUME NEW rev \in [Revisions -> RevRows], NEW S, IsFiniteSet(S)
    PROVE  /\ Count(rev, S, 1) \in [Revisions -> RevRows]
           /\ \A v \in Revisions :
                 /\ Cardinality(Naming(S, v)) \in Nat
                 /\ Count(rev, S, 1)[v].state = rev[v].state
                 /\ Count(rev, S, 1)[v].count = rev[v].count + Cardinality(Naming(S, v))
                 /\ Naming(S, v) = {} => Count(rev, S, 1)[v] = rev[v]
  <1>1. PICK k \in {1, -1} : k = 1
    OBVIOUS
  <1>2. /\ Count(rev, S, k) \in [Revisions -> RevRows]
        /\ \A v \in Revisions :
              /\ Cardinality(Naming(S, v)) \in Nat
              /\ Count(rev, S, k)[v].state = rev[v].state
              /\ k = 1 => Count(rev, S, k)[v].count = rev[v].count + Cardinality(Naming(S, v))
              /\ Naming(S, v) = {} => Count(rev, S, k)[v] = rev[v]
    BY CountFacts
  <1> QED BY <1>1, <1>2

LEMMA CountDown ==
    ASSUME NEW rev \in [Revisions -> RevRows], NEW S, IsFiniteSet(S)
    PROVE  /\ Count(rev, S, -1) \in [Revisions -> RevRows]
           /\ \A v \in Revisions :
                 /\ Cardinality(Naming(S, v)) \in Nat
                 /\ Count(rev, S, -1)[v].state = rev[v].state
                 /\ Count(rev, S, -1)[v].count = rev[v].count - Cardinality(Naming(S, v))
                 /\ Naming(S, v) = {} => Count(rev, S, -1)[v] = rev[v]
  <1>1. PICK k \in {1, -1} : k = -1
    OBVIOUS
  <1>2. /\ Count(rev, S, k) \in [Revisions -> RevRows]
        /\ \A v \in Revisions :
              /\ Cardinality(Naming(S, v)) \in Nat
              /\ Count(rev, S, k)[v].state = rev[v].state
              /\ k = -1 => Count(rev, S, k)[v].count = rev[v].count - Cardinality(Naming(S, v))
              /\ Naming(S, v) = {} => Count(rev, S, k)[v] = rev[v]
    BY CountFacts
  <1> QED BY <1>1, <1>2

\* One commit has the set S more; and it has S less.
Grown(f, g, c, S) == g[c] = f[c] \cup S /\ \A o \in Commits : o # c => g[o] = f[o]
Shrunk(f, g, c, S) == g[c] = f[c] \ S /\ \A o \in Commits : o # c => g[o] = f[o]

LEMMA PathsJoin ==
    ASSUME NEW entry, NEW more, NEW c \in Commits, NEW S, IsFiniteSet(S),
           S \cap entry[c] = {}, Grown(entry, more, c, S),
           NEW v, IsFiniteSet(PathRefs(entry, v))
    PROVE  /\ IsFiniteSet(PathRefs(more, v))
           /\ Cardinality(PathRefs(more, v))
                = Cardinality(PathRefs(entry, v)) + Cardinality(Naming(S, v))
  <1> DEFINE B == {c} \X Naming(S, v)
  <1> HIDE DEF B
  <1>1. IsFiniteSet(Naming(S, v)) /\ Cardinality(Naming(S, v)) \in Nat
    BY FS_Subset, FS_CardinalityType DEF Naming
  <1>2. IsFiniteSet({c}) /\ Cardinality({c}) = 1
    BY FS_Singleton
  <1>3. IsFiniteSet(B) /\ Cardinality(B) = Cardinality(Naming(S, v))
    <2>1. IsFiniteSet(B) /\ Cardinality(B) = Cardinality({c}) * Cardinality(Naming(S, v))
      BY <1>1, <1>2, FS_Product, Zenon DEF B
    <2> QED BY <1>1, <1>2, <2>1
  <1>4. \A x : x \in more[c] <=> x \in entry[c] \/ x \in S
    BY DEF Grown
  <1>5. \A o \in Commits : o # c => more[o] = entry[o]
    BY DEF Grown
  <1>6. \A o \in Commits : \A x : <<o, x>> \in PathRefs(entry, v) <=> x \in entry[o] /\ x[2] = v
    BY DEF PathRefs
  <1>7. \A o \in Commits : \A x : <<o, x>> \in PathRefs(more, v) <=> x \in more[o] /\ x[2] = v
    BY DEF PathRefs
  <1>8. \A y \in PathRefs(more, v) \cup PathRefs(entry, v) \cup B :
           \E o \in Commits : \E x : y = <<o, x>>
    BY DEF PathRefs, B
  <1>9. \A o \in Commits : \A x : <<o, x>> \in B <=> o = c /\ x \in S /\ x[2] = v
    BY DEF Naming, B
  <1>10. PathRefs(more, v) = PathRefs(entry, v) \cup B
    <2>1. \A o \in Commits : \A x : <<o, x>> \in PathRefs(more, v)
             <=> <<o, x>> \in PathRefs(entry, v) \/ <<o, x>> \in B
      <3> SUFFICES ASSUME NEW o \in Commits, NEW x
                   PROVE  <<o, x>> \in PathRefs(more, v)
             <=> <<o, x>> \in PathRefs(entry, v) \/ <<o, x>> \in B
        OBVIOUS
      <3>1. CASE o = c
        BY <1>4, <1>6, <1>7, <1>9, <3>1
      <3>2. CASE o # c
        BY <1>5, <1>6, <1>7, <1>9, <3>2
      <3> QED BY <3>1, <3>2
    <2>2. \A y : y \in PathRefs(more, v) <=> y \in PathRefs(entry, v) \cup B
      <3>1. \A y \in PathRefs(more, v) : y \in PathRefs(entry, v) \cup B
        BY <1>8, <2>1
      <3>2. \A y \in PathRefs(entry, v) \cup B : y \in PathRefs(more, v)
        BY <1>8, <2>1
      <3> QED BY <3>1, <3>2
    <2> QED BY <2>2 DEF B
  <1>11. PathRefs(entry, v) \cap B = {}
    <2>1. \A o \in Commits : \A x :
             ~(<<o, x>> \in PathRefs(entry, v) /\ <<o, x>> \in B)
      BY <1>6, <1>9
    <2> QED BY <1>8, <2>1
  <1>12. /\ IsFiniteSet(PathRefs(entry, v) \cup B)
         /\ Cardinality(PathRefs(entry, v) \cup B) = Cardinality(PathRefs(entry, v)) + Cardinality(B)
    BY <1>3, <1>11, DisjointUnion, Zenon
  <1> QED BY <1>3, <1>10, <1>12

LEMMA PathsLeave ==
    ASSUME NEW entry, NEW less, NEW c \in Commits, NEW S, IsFiniteSet(S),
           S \subseteq entry[c], Shrunk(entry, less, c, S),
           NEW v, IsFiniteSet(PathRefs(entry, v))
    PROVE  /\ IsFiniteSet(PathRefs(less, v))
           /\ Cardinality(PathRefs(less, v))
                = Cardinality(PathRefs(entry, v)) - Cardinality(Naming(S, v))
  <1>1. S \cap less[c] = {} /\ Grown(less, entry, c, S)
    BY DEF Shrunk, Grown
  <1>2. IsFiniteSet(PathRefs(less, v))
    <2>1. \A o \in Commits : less[o] \subseteq entry[o]
      BY DEF Shrunk
    <2>2. PathRefs(less, v) \subseteq PathRefs(entry, v)
      BY <2>1 DEF PathRefs
    <2> QED BY <2>2, FS_Subset
  <1>3. Cardinality(PathRefs(entry, v)) = Cardinality(PathRefs(less, v)) + Cardinality(Naming(S, v))
    BY <1>1, <1>2, PathsJoin
  <1>4. Cardinality(PathRefs(less, v)) \in Nat /\ Cardinality(Naming(S, v)) \in Nat
    BY <1>2, FS_Subset, FS_CardinalityType DEF Naming
  <1> QED BY <1>2, <1>3, <1>4

\* References of one commit to the revisions T more, and less.
LEMMA NamingRefs ==
    ASSUME NEW T, NEW v
    PROVE  Cardinality(Naming(CommitRefs(T), v)) = IF v \in T THEN 1 ELSE 0
  <1>1. CASE v \in T
    <2>1. Naming(CommitRefs(T), v) = {<<0, v>>}
      BY <1>1 DEF Naming, CommitRefs
    <2> QED BY <1>1, <2>1, FS_Singleton
  <1>2. CASE v \notin T
    <2>1. Naming(CommitRefs(T), v) = {}
      BY <1>2 DEF Naming, CommitRefs
    <2> QED BY <1>2, <2>1, FS_EmptySet
  <1> QED BY <1>1, <1>2

LEMMA RefsJoin ==
    ASSUME NEW ref, NEW more, NEW c \in Commits, NEW T,
           T \cap ref[c] = {}, Grown(ref, more, c, T),
           NEW v, IsFiniteSet(Referrers(ref, v))
    PROVE  /\ IsFiniteSet(Referrers(more, v))
           /\ Cardinality(Referrers(more, v))
                = Cardinality(Referrers(ref, v)) + Cardinality(Naming(CommitRefs(T), v))
  <1>1. Cardinality(Referrers(ref, v)) \in Nat
    BY FS_CardinalityType
  <1>2. CASE v \in T
    <2>1. Referrers(more, v) = Referrers(ref, v) \cup {c} /\ c \notin Referrers(ref, v)
      BY <1>2 DEF Grown, Referrers
    <2>2. /\ IsFiniteSet(Referrers(more, v))
          /\ Cardinality(Referrers(more, v)) = Cardinality(Referrers(ref, v)) + 1
      BY <2>1, FS_AddElement
    <2> QED BY <1>2, <2>2, NamingRefs
  <1>3. CASE v \notin T
    <2>1. Referrers(more, v) = Referrers(ref, v)
      BY <1>3 DEF Grown, Referrers
    <2> QED BY <1>1, <1>3, <2>1, NamingRefs
  <1> QED BY <1>2, <1>3

LEMMA RefsLeave ==
    ASSUME NEW ref, NEW less, NEW c \in Commits, NEW T,
           T \subseteq ref[c], Shrunk(ref, less, c, T),
           NEW v, IsFiniteSet(Referrers(ref, v))
    PROVE  /\ IsFiniteSet(Referrers(less, v))
           /\ Cardinality(Referrers(less, v))
                = Cardinality(Referrers(ref, v)) - Cardinality(Naming(CommitRefs(T), v))
  <1>1. T \cap less[c] = {} /\ Grown(less, ref, c, T)
    BY DEF Shrunk, Grown
  <1>2. IsFiniteSet(Referrers(less, v))
    <2>1. Referrers(less, v) \subseteq Referrers(ref, v)
      BY DEF Shrunk, Referrers
    <2> QED BY <2>1, FS_Subset
  <1>3. Cardinality(Referrers(ref, v))
          = Cardinality(Referrers(less, v)) + Cardinality(Naming(CommitRefs(T), v))
    BY <1>1, <1>2, RefsJoin
  <1>4. Cardinality(Referrers(less, v)) \in Nat /\ Cardinality(Naming(CommitRefs(T), v)) \in Nat
    BY <1>2, FS_CardinalityType, NamingRefs
  <1> QED BY <1>2, <1>3, <1>4

LEMMA CommitRefsFinite ==
    ASSUME NEW T, IsFiniteSet(T)
    PROVE  IsFiniteSet(CommitRefs(T))
  <1> DEFINE f == [v \in T |-> <<0, v>>]
             S == CommitRefs(T)
  <1>1. f \in Surjection(T, S)
    BY DEF Surjection, CommitRefs
  <1>2. IsFiniteSet(S)
    <2> HIDE DEF f, S
    <2> QED BY <1>1, FS_Surjection
  <1> QED BY <1>2

\* What is referenced is Available.
LEMMA ReferencedAvailable ==
    ASSUME NEW d, RefsOK(d), NEW c \in Commits, NEW v \in Revisions,
           v \in d.ref[c] \/ \E x \in d.entry[c] : x[2] = v
    PROVE  d.rev[v].state = "Available"
  <1>1. CountedRev(d, v)
    BY DEF RefsOK
  <1>2. PathRefs(d.entry, v) # {} \/ Referrers(d.ref, v) # {}
    <2>1. CASE v \in d.ref[c]
      BY <2>1 DEF Referrers
    <2>2. CASE \E x \in d.entry[c] : x[2] = v
      <3>1. PICK x \in d.entry[c] : x[2] = v
        BY <2>2
      <3>2. <<c, x>> \in PathRefs(d.entry, v)
        BY <3>1 DEF PathRefs
      <3> QED BY <3>2
    <2> QED BY <2>1, <2>2
  <1>3. /\ Cardinality(PathRefs(d.entry, v)) \in Nat /\ Cardinality(Referrers(d.ref, v)) \in Nat
        /\ Cardinality(PathRefs(d.entry, v)) = 0 => PathRefs(d.entry, v) = {}
        /\ Cardinality(Referrers(d.ref, v)) = 0 => Referrers(d.ref, v) = {}
    BY <1>1, FS_CardinalityType, FS_EmptySet DEF CountedRev
  <1> QED BY <1>1, <1>2, <1>3 DEF CountedRev

LEMMA EntriesAvailable ==
    ASSUME NEW d \in Stores, RefsOK(d), NEW c \in Commits
    PROVE  Available(d.rev, d.entry[c])
  <1>1. \A x \in d.entry[c] : x[2] \in Revisions
    BY DEF Stores, RowSet
  <1> QED BY <1>1, ReferencedAvailable DEF Available

\* Counts change, states do not, and only counts of what is Available.
Recounted(d, d2) ==
    /\ d2.rev \in [Revisions -> RevRows]
    /\ \A v \in Revisions :
          /\ d2.rev[v].state = d.rev[v].state
          /\ d.rev[v].state # "Available" => d2.rev[v] = d.rev[v]

LEMMA RefsMoreRows ==
    ASSUME NEW d \in Stores, RefsOK(d), NEW d2, NEW c \in Commits, NEW S, IsFiniteSet(S),
           S \cap d.entry[c] = {}, Available(d.rev, S),
           Grown(d.entry, d2.entry, c, S), d2.ref = d.ref, d2.rev = Count(d.rev, S, 1)
    PROVE  RefsOK(d2) /\ Recounted(d, d2)
  <1>0. d2.rev \in [Revisions -> RevRows]
    BY CountUp DEF Stores
  <1> SUFFICES ASSUME NEW v \in Revisions
               PROVE  /\ CountedRev(d2, v) /\ d2.rev[v].state = d.rev[v].state
                      /\ d.rev[v].state # "Available" => d2.rev[v] = d.rev[v]
    BY <1>0 DEF RefsOK, Recounted
  <1>1. CountedRev(d, v)
    BY DEF RefsOK
  <1>2. d.rev \in [Revisions -> RevRows]
    BY DEF Stores
  <1>3. /\ d2.rev[v].state = d.rev[v].state
        /\ d2.rev[v].count = d.rev[v].count + Cardinality(Naming(S, v))
        /\ Naming(S, v) = {} => d2.rev[v] = d.rev[v]
    BY <1>2, CountUp
  <1>4. /\ IsFiniteSet(PathRefs(d2.entry, v))
        /\ Cardinality(PathRefs(d2.entry, v))
             = Cardinality(PathRefs(d.entry, v)) + Cardinality(Naming(S, v))
    BY <1>1, PathsJoin DEF CountedRev
  <1>5. /\ Cardinality(PathRefs(d.entry, v)) \in Nat /\ Cardinality(Referrers(d.ref, v)) \in Nat
        /\ Cardinality(Naming(S, v)) \in Nat
    BY <1>1, <1>2, FS_CardinalityType, CountUp DEF CountedRev
  <1>6. d.rev[v].state # "Available" => Naming(S, v) = {}
    BY DEF Available, Naming
  <1> QED BY <1>1, <1>3, <1>4, <1>5, <1>6 DEF CountedRev

LEMMA RefsLessRows ==
    ASSUME NEW d \in Stores, RefsOK(d), NEW d2, NEW c \in Commits, NEW S, IsFiniteSet(S),
           S \subseteq d.entry[c],
           Shrunk(d.entry, d2.entry, c, S), d2.ref = d.ref, d2.rev = Count(d.rev, S, -1)
    PROVE  RefsOK(d2) /\ Recounted(d, d2)
  <1>0. d2.rev \in [Revisions -> RevRows]
    BY CountDown DEF Stores
  <1> SUFFICES ASSUME NEW v \in Revisions
               PROVE  /\ CountedRev(d2, v) /\ d2.rev[v].state = d.rev[v].state
                      /\ d.rev[v].state # "Available" => d2.rev[v] = d.rev[v]
    BY <1>0 DEF RefsOK, Recounted
  <1>1. CountedRev(d, v)
    BY DEF RefsOK
  <1>2. d.rev \in [Revisions -> RevRows]
    BY DEF Stores
  <1>3. /\ d2.rev[v].state = d.rev[v].state
        /\ d2.rev[v].count = d.rev[v].count - Cardinality(Naming(S, v))
        /\ Naming(S, v) = {} => d2.rev[v] = d.rev[v]
    BY <1>2, CountDown
  <1>4. /\ IsFiniteSet(PathRefs(d2.entry, v))
        /\ Cardinality(PathRefs(d2.entry, v))
             = Cardinality(PathRefs(d.entry, v)) - Cardinality(Naming(S, v))
    BY <1>1, PathsLeave DEF CountedRev
  <1>5. /\ Cardinality(PathRefs(d.entry, v)) \in Nat /\ Cardinality(Referrers(d.ref, v)) \in Nat
        /\ Cardinality(Naming(S, v)) \in Nat
    BY <1>1, <1>2, FS_CardinalityType, CountDown DEF CountedRev
  <1>6. d.rev[v].state # "Available" => Naming(S, v) = {}
    BY EntriesAvailable DEF Available, Naming
  <1> QED BY <1>1, <1>3, <1>4, <1>5, <1>6 DEF CountedRev

LEMMA RefsMoreRefs ==
    ASSUME NEW d \in Stores, RefsOK(d), NEW d2, NEW c \in Commits, NEW T, IsFiniteSet(T),
           T \cap d.ref[c] = {}, \A v \in T : d.rev[v].state = "Available",
           Grown(d.ref, d2.ref, c, T), d2.entry = d.entry,
           d2.rev = Count(d.rev, CommitRefs(T), 1)
    PROVE  RefsOK(d2) /\ Recounted(d, d2)
  <1>0. d2.rev \in [Revisions -> RevRows]
    BY CountUp, CommitRefsFinite DEF Stores
  <1> SUFFICES ASSUME NEW v \in Revisions
               PROVE  /\ CountedRev(d2, v) /\ d2.rev[v].state = d.rev[v].state
                      /\ d.rev[v].state # "Available" => d2.rev[v] = d.rev[v]
    BY <1>0 DEF RefsOK, Recounted
  <1>1. CountedRev(d, v)
    BY DEF RefsOK
  <1>2. d.rev \in [Revisions -> RevRows] /\ IsFiniteSet(CommitRefs(T))
    BY CommitRefsFinite DEF Stores
  <1>3. /\ d2.rev[v].state = d.rev[v].state
        /\ d2.rev[v].count = d.rev[v].count + Cardinality(Naming(CommitRefs(T), v))
        /\ Naming(CommitRefs(T), v) = {} => d2.rev[v] = d.rev[v]
    BY <1>2, CountUp
  <1>4. /\ IsFiniteSet(Referrers(d2.ref, v))
        /\ Cardinality(Referrers(d2.ref, v))
             = Cardinality(Referrers(d.ref, v)) + Cardinality(Naming(CommitRefs(T), v))
    BY <1>1, RefsJoin DEF CountedRev
  <1>5. /\ Cardinality(PathRefs(d.entry, v)) \in Nat /\ Cardinality(Referrers(d.ref, v)) \in Nat
        /\ Cardinality(Naming(CommitRefs(T), v)) \in Nat
    BY <1>1, <1>2, FS_CardinalityType, CountUp DEF CountedRev
  <1>6. d.rev[v].state # "Available" => Naming(CommitRefs(T), v) = {}
    BY DEF Naming, CommitRefs
  <1> QED BY <1>1, <1>3, <1>4, <1>5, <1>6 DEF CountedRev

LEMMA RefsLessRefs ==
    ASSUME NEW d \in Stores, RefsOK(d), NEW d2, NEW c \in Commits, NEW T, IsFiniteSet(T),
           T \subseteq d.ref[c],
           Shrunk(d.ref, d2.ref, c, T), d2.entry = d.entry,
           d2.rev = Count(d.rev, CommitRefs(T), -1)
    PROVE  RefsOK(d2) /\ Recounted(d, d2)
  <1>0. d2.rev \in [Revisions -> RevRows]
    BY CountDown, CommitRefsFinite DEF Stores
  <1> SUFFICES ASSUME NEW v \in Revisions
               PROVE  /\ CountedRev(d2, v) /\ d2.rev[v].state = d.rev[v].state
                      /\ d.rev[v].state # "Available" => d2.rev[v] = d.rev[v]
    BY <1>0 DEF RefsOK, Recounted
  <1>1. CountedRev(d, v)
    BY DEF RefsOK
  <1>2. d.rev \in [Revisions -> RevRows] /\ IsFiniteSet(CommitRefs(T))
    BY CommitRefsFinite DEF Stores
  <1>3. /\ d2.rev[v].state = d.rev[v].state
        /\ d2.rev[v].count = d.rev[v].count - Cardinality(Naming(CommitRefs(T), v))
        /\ Naming(CommitRefs(T), v) = {} => d2.rev[v] = d.rev[v]
    BY <1>2, CountDown
  <1>4. /\ IsFiniteSet(Referrers(d2.ref, v))
        /\ Cardinality(Referrers(d2.ref, v))
             = Cardinality(Referrers(d.ref, v)) - Cardinality(Naming(CommitRefs(T), v))
    BY <1>1, RefsLeave DEF CountedRev
  <1>5. /\ Cardinality(PathRefs(d.entry, v)) \in Nat /\ Cardinality(Referrers(d.ref, v)) \in Nat
        /\ Cardinality(Naming(CommitRefs(T), v)) \in Nat
    BY <1>1, <1>2, FS_CardinalityType, CountDown DEF CountedRev
  <1>6. d.rev[v].state # "Available" => Naming(CommitRefs(T), v) = {}
    BY ReferencedAvailable DEF Naming, CommitRefs
  <1> QED BY <1>1, <1>3, <1>4, <1>5, <1>6 DEF CountedRev

LEMMA RefsSame ==
    ASSUME NEW d, RefsOK(d), NEW d2, d2.entry = d.entry, d2.ref = d.ref, d2.rev = d.rev
    PROVE  RefsOK(d2)
  BY DEF RefsOK, CountedRev

-----------------------------------------------------------------------------
(* What a step that is about the restores R leaves alone.                  *)

NoRevision == [state |-> "Absent", count |-> 0]

\* The rows of restore q, which is not over, are as they were.
Own(d, d2, q) ==
    /\ d2.op[q] = d.op[q] /\ d2.pub[q] = d.pub[q]
    /\ d.op[q].phase # "Complete" =>
          /\ d2.ledger[q] = d.ledger[q] /\ d2.entry[q] = d.entry[q]
          /\ d2.member[q] = d.member[q] /\ d2.ref[q] = d.ref[q]
          /\ d2.commit[q].state = d.commit[q].state

Kept(d, d2, R) ==
    /\ \A q \in Restores \ R :
          /\ Own(d, d2, q)
          /\ Live(d, q) => d2.ws[plan.name[q]] = d.ws[plan.name[q]]
          /\ \A m \in Manifests : d.rev[<<q, m>>] = NoRevision => d2.rev[<<q, m>>] = NoRevision
    /\ \A c \in Commits : d.commit[c].state = "Sealed" =>
          d2.member[c] = d.member[c] /\ d2.ref[c] = d.ref[c]

RestoreOK(d, r) == Shape(d, r) /\ LedgerOK(d, r) /\ NameOK(d, r) /\ FreshOK(d, r)

LEMMA SourceSealed ==
    ASSUME plan \in Plans, NEW d, PinsOK(d), NEW r \in Restores
    PROVE  /\ Live(d, r) => d.commit[Source(r)].state = "Sealed"
           /\ d.commit[r].state \in {"Sealed", "Claiming"} => d.commit[Source(r)].state = "Sealed"
  <1>1. Source(r) \in Commits /\ Base \in Commits /\ (FromSnapshot(r) => Source(r) = Base)
        /\ FromSnapshot(r) \in BOOLEAN
    BY PlanFacts
  <1>2. PinOK(d, r) /\ ConsumersOK(d) /\ SnapshotOK(d)
    BY DEF PinsOK
  <1>3. Lease(r) \in d.consumer[Source(r)] \/ Child(r) \in d.consumer[Source(r)]
          => d.commit[Source(r)].state = "Sealed"
    BY <1>1, <1>2 DEF ConsumersOK
  <1>4. r \in d.hold => d.commit[Base].state = "Sealed"
    BY <1>1, <1>2 DEF ConsumersOK, SnapshotOK
  <1> QED BY <1>1, <1>2, <1>3, <1>4 DEF PinOK

LEMMA StepKeeps ==
    ASSUME plan \in Plans, NEW d, NEW d2, NEW R, StoreOK(d), Kept(d, d2, R),
           d2 \in Stores, FiniteRows(d2), RefsOK(d2), ViewOK(d2), PinsOK(d2),
           \A q \in Restores : q \in R => RestoreOK(d2, q),
           \A c \in Commits : d2.commit[c].state = "Sealed" /\ d.commit[c].state # "Sealed"
              => CommitOK(d2, c)
    PROVE  StoreOK(d2)
  <1>1. \A c \in Commits : d.commit[c].state = "Sealed" => d2.member[c] = d.member[c]
    BY DEF Kept
  <1>2. \A q \in Restores : Source(q) \in Commits
    BY PlanFacts
  <1>3. \A q \in Restores : Live(d, q) => d2.member[Source(q)] = d.member[Source(q)]
    BY <1>1, <1>2, SourceSealed DEF StoreOK
  <1>4. ASSUME NEW q \in Restores, q \notin R
        PROVE  RestoreOK(d2, q)
    <2>1. Own(d, d2, q) /\ (Live(d, q) => d2.ws[plan.name[q]] = d.ws[plan.name[q]])
      BY <1>4 DEF Kept
    <2>2. Shape(d, q) /\ LedgerOK(d, q) /\ NameOK(d, q) /\ FreshOK(d, q)
      BY DEF StoreOK
    <2>3. Shape(d2, q)
      <3>1. CASE d.op[q].phase = "Complete"
        BY <2>1, <2>2, <3>1 DEF Own, Shape, Early, Building
      <3>2. CASE d.op[q].phase # "Complete"
        BY <2>1, <2>2, <3>2 DEF Own, Shape
      <3> QED BY <3>1, <3>2
    <2>4. Live(d2, q) <=> Live(d, q)
      BY <2>1 DEF Own, Live
    <2>5. LedgerOK(d2, q)
      <3>1. CASE d.op[q].phase \in {"SourceSealed"} \cup Building
        <4>1. Live(d, q) /\ d.op[q].phase # "Complete"
          BY <3>1 DEF Live, Building
        <4>2. RowsOf(d2, q) = RowsOf(d, q)
          BY <1>3, <4>1 DEF RowsOf
        <4> QED BY <2>1, <2>2, <3>1, <4>1, <4>2 DEF LedgerOK, Own
      <3>2. CASE d.op[q].phase \notin {"SourceSealed"} \cup Building
        BY <2>1, <3>2 DEF LedgerOK, Own
      <3> QED BY <3>1, <3>2
    <2>6. NameOK(d2, q)
      BY <2>1, <2>2, <2>4 DEF NameOK
    <2>7. FreshOK(d2, q)
      <3>1. \A m \in Manifests : d.rev[<<q, m>>] = NoRevision => d2.rev[<<q, m>>] = NoRevision
        BY <1>4 DEF Kept
      <3> QED BY <2>1, <2>2, <3>1 DEF FreshOK, Own, NoRevision
    <2> QED BY <2>3, <2>5, <2>6, <2>7 DEF RestoreOK
  <1>5. ASSUME NEW c \in Commits, d2.commit[c].state = "Sealed", d.commit[c].state = "Sealed"
        PROVE  CommitOK(d2, c)
    <2>1. d2.member[c] = d.member[c] /\ d2.ref[c] = d.ref[c]
      BY <1>5 DEF Kept
    <2>2. CommitOK(d, c) /\ PinsOK(d)
      BY DEF StoreOK
    <2>3. Content(d2, c) = Content(d, c)
      <3>1. CASE c = Base
        BY <3>1 DEF Content
      <3>2. CASE c # Base
        <4>1. c \in Restores
          BY <3>2, PlanFacts
        <4>2. d2.member[Source(c)] = d.member[Source(c)]
          BY <1>1, <1>2, <1>5, <2>2, <4>1, SourceSealed
        <4> QED BY <3>2, <4>2 DEF Content, RowsOf
      <3> QED BY <3>1, <3>2
    <2> QED BY <1>5, <2>1, <2>2, <2>3 DEF CommitOK
  <1>6. \A q \in Restores : RestoreOK(d2, q)
    BY <1>4
  <1>7. \A c \in Commits : CommitOK(d2, c)
    <2>1. \A c \in Commits : d2.commit[c].state # "Sealed" => CommitOK(d2, c)
      BY DEF CommitOK
    <2> QED BY <1>5, <2>1
  <1> QED BY <1>6, <1>7 DEF StoreOK, RestoreOK

LEMMA PinsSame ==
    ASSUME NEW d, NEW d2, PinsOK(d), d2.consumer = d.consumer, d2.commit = d.commit,
           d2.hold = d.hold, d2.snapshot.state = d.snapshot.state,
           d2.snapshot.count = d.snapshot.count,
           \A q \in Restores : Live(d2, q) <=> Live(d, q)
    PROVE  PinsOK(d2)
  <1>1. ConsumersOK(d2) /\ SnapshotOK(d2)
    BY DEF PinsOK, ConsumersOK, SnapshotOK
  <1>2. \A q \in Restores : PinOK(d2, q)
    BY DEF PinsOK, PinOK
  <1> QED BY <1>1, <1>2 DEF PinsOK

\* A step that changes the record and the publications of one restore only.
Local(d, d2, r) ==
    /\ d2 \in Stores
    /\ \A q \in Restores : q # r => d2.op[q] = d.op[q] /\ d2.pub[q] = d.pub[q]
    /\ d2.ws = d.ws /\ d2.entry = d.entry /\ d2.ledger = d.ledger /\ d2.commit = d.commit
    /\ d2.member = d.member /\ d2.ref = d.ref /\ d2.consumer = d.consumer
    /\ d2.snapshot = d.snapshot /\ d2.hold = d.hold /\ d2.rev = d.rev

LEMMA LocalStep ==
    ASSUME plan \in Plans, NEW d, NEW d2, NEW r \in Restores, StoreOK(d), Local(d, d2, r),
           Live(d2, r) <=> Live(d, r), Shape(d2, r), LedgerOK(d2, r), FreshOK(d2, r)
    PROVE  StoreOK(d2)
  <1>1. Kept(d, d2, {r})
    BY DEF Kept, Local, Own
  <1>2. FiniteRows(d2) /\ ViewOK(d2)
    BY DEF StoreOK, FiniteRows, ViewOK, Local
  <1>3. RefsOK(d2)
    BY RefsSame DEF StoreOK, Local
  <1>4. \A q \in Restores : Live(d2, q) <=> Live(d, q)
    BY DEF Local, Live
  <1>5. PinsOK(d2)
    BY <1>4, PinsSame DEF StoreOK, Local
  <1>6. NameOK(d2, r)
    BY DEF StoreOK, NameOK, Local
  <1>7. \A q \in Restores : q \in {r} => RestoreOK(d2, q)
    BY <1>6 DEF RestoreOK
  <1>8. \A c \in Commits : d2.commit[c].state = "Sealed" /\ d.commit[c].state # "Sealed"
           => CommitOK(d2, c)
    BY DEF Local
  <1>9. d2 \in Stores
    BY DEF Local
  <1> QED BY <1>1, <1>2, <1>3, <1>5, <1>7, <1>8, <1>9, StepKeeps

LEMMA OpIsLocal ==
    ASSUME NEW d \in Stores, NEW d2, NEW r \in Restores, NEW o \in OpRows,
           d2 = [d EXCEPT !.op[r] = o]
    PROVE  Local(d, d2, r) /\ d2.op[r] = o /\ d2.pub = d.pub
  BY DEF Local, Stores

PubSet(d, d2, r, m, p) == d2 = [d EXCEPT !.pub[r][m] = p]

LEMMA PubIsLocal ==
    ASSUME NEW d \in Stores, NEW d2, NEW r \in Restores, NEW m \in Manifests, NEW p \in PubRows,
           PubSet(d, d2, r, m, p)
    PROVE  /\ Local(d, d2, r) /\ d2.op = d.op /\ d2.pub[r][m] = p
           /\ \A n \in Manifests : n # m => d2.pub[r][n] = d.pub[r][n]
  BY DEF Local, Stores, PubSet

\* A restore that only changes its phase.
PhaseSet(d, d2, r, ph) == d2 = [d EXCEPT !.op[r].phase = ph]

LEMMA PhaseStep ==
    ASSUME plan \in Plans, NEW d, StoreOK(d), NEW r \in Restores, NEW ph \in Phases, NEW d2,
           PhaseSet(d, d2, r, ph)
    PROVE  /\ Local(d, d2, r) /\ d2.pub = d.pub /\ d2.op[r].phase = ph
           /\ d2.op[r] = [d.op[r] EXCEPT !.phase = ph]
           /\ FreshOK(d2, r)
  <1>1. d \in Stores /\ d.op[r] \in OpRows
    BY DEF StoreOK, Stores
  <1>2. PICK o : o = [d.op[r] EXCEPT !.phase = ph]
    OBVIOUS
  <1>3. o \in OpRows /\ o.phase = ph
    BY <1>1, <1>2 DEF OpRows
  <1>4. d2 = [d EXCEPT !.op[r] = o]
    BY <1>1, <1>2 DEF Stores, PhaseSet
  <1>5. Local(d, d2, r) /\ d2.op[r] = o /\ d2.pub = d.pub
    BY <1>1, <1>3, <1>4, OpIsLocal
  <1>6. FreshOK(d2, r)
    BY <1>5 DEF StoreOK, FreshOK, Local
  <1> QED BY <1>2, <1>3, <1>5, <1>6

-----------------------------------------------------------------------------
(* Steps of one restore's record and publications.                         *)

LEMMA StartCopyStep ==
    ASSUME plan \in Plans, StoreOK(db), NEW r \in Restores, StartCopy(r)
    PROVE  StoreOK(db')
  <1>1. PICK d2 : d2 = db'
    OBVIOUS
  <1>2. PhaseSet(db, d2, r, "Copying") /\ db.op[r].phase = "Preparing"
    BY <1>1 DEF StartCopy, Rows, SetPhase, PhaseSet
  <1>3. "Copying" \in Phases
    BY DEF Phases
  <1>4. /\ Local(db, d2, r) /\ d2.pub = db.pub /\ d2.op[r].phase = "Copying"
        /\ d2.op[r] = [db.op[r] EXCEPT !.phase = "Copying"] /\ FreshOK(d2, r)
    BY <1>2, <1>3, PhaseStep
  <1>5. Live(d2, r) /\ Live(db, r) /\ LedgerOK(d2, r)
    BY <1>2, <1>4 DEF Live, LedgerOK, Building
  <1>6. Shape(d2, r)
    <2>1. Shape(db, r) /\ db.op[r] \in OpRows
      BY DEF StoreOK, Stores
    <2> QED BY <1>2, <1>4, <2>1 DEF Shape, Early, Building, OpRows, Local
  <1> QED BY <1>1, <1>4, <1>5, <1>6, LocalStep

\* A restore that is given up, and the worker taking it on.
LEMMA GivenUp ==
    ASSUME plan \in Plans, NEW d, StoreOK(d), NEW r \in Restores, NEW d2,
           NEW ph \in {"Aborting", "Cleaning"}, d.op[r].phase \in Abortable \cup {"Aborting"},
           PhaseSet(d, d2, r, ph)
    PROVE  StoreOK(d2)
  <1>1. ph \in Phases
    BY DEF Phases, AbortPhases
  <1>2. /\ Local(d, d2, r) /\ d2.pub = d.pub /\ d2.op[r].phase = ph
        /\ d2.op[r] = [d.op[r] EXCEPT !.phase = ph] /\ FreshOK(d2, r)
    BY <1>1, PhaseStep
  <1>3. Live(d2, r) /\ Live(d, r) /\ LedgerOK(d2, r)
    BY <1>2 DEF Live, LedgerOK, Building, Abortable, ForwardPhases
  <1>4. Shape(d2, r)
    <2>1. Shape(d, r) /\ d.op[r] \in OpRows
      BY DEF StoreOK, Stores
    <2>2. d2.op[r].bound = d.op[r].bound /\ d.op[r].phase # "Complete"
      BY <1>2, <2>1 DEF OpRows, Abortable, ForwardPhases
    <2> QED BY <1>2, <2>1, <2>2 DEF Shape, Early, Building, Local
  <1> QED BY <1>2, <1>3, <1>4, LocalStep

LEMMA AbortSteps ==
    ASSUME plan \in Plans, StoreOK(db), NEW r \in Restores,
           CopyOverflows(r) \/ AbortRestore(r) \/ BeginCleaning(r)
    PROVE  StoreOK(db')
  <1>1. PICK d2 : d2 = db'
    OBVIOUS
  <1>2. CASE CopyOverflows(r) \/ AbortRestore(r)
    <2>1. PhaseSet(db, d2, r, "Aborting") /\ db.op[r].phase \in Abortable
      BY <1>1, <1>2 DEF CopyOverflows, AbortRestore, Rows, SetPhase, PhaseSet, Abortable
    <2> QED BY <1>1, <2>1, GivenUp
  <1>3. CASE BeginCleaning(r)
    <2>1. PhaseSet(db, d2, r, "Cleaning") /\ db.op[r].phase = "Aborting"
      BY <1>1, <1>3 DEF BeginCleaning, Rows, SetPhase, PhaseSet
    <2> QED BY <1>1, <2>1, GivenUp
  <1> QED BY <1>2, <1>3

LEMMA SealSourceStep ==
    ASSUME plan \in Plans, StoreOK(db), NEW r \in Restores, SealSource(r)
    PROVE  StoreOK(db')
  <1>1. PICK d2 : d2 = db'
    OBVIOUS
  <1>2. /\ PhaseSet(db, d2, r, "SourceSealed") /\ db.op[r].phase = "Copying"
        /\ db.ledger[r] = Materialized(RowsOf(db, r))
    BY <1>1 DEF SealSource, Rows, SetPhase, PhaseSet, SourceRows, RowsOf
  <1>3. "SourceSealed" \in Phases
    BY DEF Phases, ForwardPhases
  <1>4. /\ Local(db, d2, r) /\ d2.pub = db.pub /\ d2.op[r].phase = "SourceSealed"
        /\ d2.op[r] = [db.op[r] EXCEPT !.phase = "SourceSealed"] /\ FreshOK(d2, r)
    BY <1>2, <1>3, PhaseStep
  <1>5. Live(d2, r) /\ Live(db, r)
    BY <1>2, <1>4 DEF Live
  <1>6. RowsOf(d2, r) = RowsOf(db, r) /\ d2.ledger = db.ledger
    BY <1>4 DEF RowsOf, Local
  <1>7. LedgerOK(d2, r)
    BY <1>2, <1>6 DEF LedgerOK
  <1>8. Shape(d2, r)
    <2>1. Shape(db, r) /\ db.op[r] \in OpRows
      BY DEF StoreOK, Stores
    <2> QED BY <1>2, <1>4, <2>1 DEF Shape, Early, Building, OpRows, Local
  <1> QED BY <1>1, <1>4, <1>5, <1>7, <1>8, LocalStep

LEMMA BindStep ==
    ASSUME plan \in Plans, StoreOK(db), NEW r \in Restores, BindDestination(r)
    PROVE  StoreOK(db')
  <1>1. PICK d2 : d2 = db'
    OBVIOUS
  <1>2. d2 = [db EXCEPT !.op[r].bound = TRUE] /\ db.op[r].phase = "SourceSealed"
    BY <1>1 DEF BindDestination, Rows
  <1>3. db \in Stores /\ db.op[r] \in OpRows /\ Shape(db, r) /\ LedgerOK(db, r) /\ FreshOK(db, r)
    BY DEF StoreOK, Stores
  <1>4. PICK o : o = [db.op[r] EXCEPT !.bound = TRUE]
    OBVIOUS
  <1>5. /\ o \in OpRows /\ o.phase = "SourceSealed" /\ o.bound
        /\ o.members = db.op[r].members /\ o.refs = db.op[r].refs
        /\ o.memberCursor = db.op[r].memberCursor
    BY <1>2, <1>3, <1>4 DEF OpRows
  <1>6. d2 = [db EXCEPT !.op[r] = o]
    BY <1>2, <1>3, <1>4 DEF Stores
  <1>7. Local(db, d2, r) /\ d2.op[r] = o /\ d2.pub = db.pub
    BY <1>3, <1>5, <1>6, OpIsLocal
  <1>8. Live(d2, r) /\ Live(db, r)
    BY <1>2, <1>5, <1>7 DEF Live
  <1>9. LedgerOK(d2, r) /\ FreshOK(d2, r)
    BY <1>2, <1>3, <1>5, <1>7 DEF LedgerOK, FreshOK, Local, RowsOf
  <1>10. Shape(d2, r)
    BY <1>2, <1>3, <1>5, <1>7 DEF Shape, Early, Building, Local
  <1> QED BY <1>1, <1>7, <1>8, <1>9, <1>10, LocalStep

\* A publication of a restore whose manifests are not frozen.
LEMMA PubStep ==
    ASSUME plan \in Plans, NEW d, StoreOK(d), NEW r \in Restores, NEW m \in Manifests, NEW d2,
           NEW p \in PubRows, PubSet(d, d2, r, m, p), d.op[r].bound,
           d.op[r].phase \in {"SourceSealed", "Aborting", "Cleaning"},
           p.phase # "Published", d.pub[r][m].phase # "Published"
    PROVE  StoreOK(d2)
  <1>1. d \in Stores /\ Shape(d, r) /\ LedgerOK(d, r) /\ FreshOK(d, r)
    BY DEF StoreOK
  <1>2. /\ Local(d, d2, r) /\ d2.op = d.op /\ d2.pub[r][m] = p
        /\ \A n \in Manifests : n # m => d2.pub[r][n] = d.pub[r][n]
    BY <1>1, PubIsLocal
  <1>3. Live(d2, r) <=> Live(d, r)
    BY <1>2 DEF Live
  <1>4. LedgerOK(d2, r)
    BY <1>1, <1>2 DEF LedgerOK, Local, RowsOf
  <1>5. FreshOK(d2, r)
    BY <1>1, <1>2 DEF FreshOK, Local
  <1>6. Shape(d2, r)
    BY <1>1, <1>2 DEF Shape, Early, Building, Local
  <1> QED BY <1>2, <1>3, <1>4, <1>5, <1>6, LocalStep

LEMMA ManifestSteps ==
    ASSUME plan \in Plans, StoreOK(db), NEW r \in Restores, NEW m \in Manifests,
           \/ BeginManifest(r, m) \/ AbortManifest(r, m)
           \/ (TakeOverManifest(r, m) \/ CleanManifest(r, m)) /\ db' # db
    PROVE  StoreOK(db')
  <1>1. PICK d2 : d2 = db'
    OBVIOUS
  <1>2. db \in Stores /\ db.pub[r] \in [Manifests -> PubRows] /\ db.pub[r][m] \in PubRows
    BY DEF StoreOK, Stores
  <1>3. CASE BeginManifest(r, m)
    <2>1. /\ PubSet(db, d2, r, m, [phase |-> "Uploading", lease |-> "live"])
          /\ db.op[r].bound /\ db.op[r].phase = "SourceSealed" /\ db.pub[r][m].phase = "None"
      BY <1>1, <1>3 DEF BeginManifest, Rows, Forward, PubSet
    <2>2. [phase |-> "Uploading", lease |-> "live"] \in PubRows
      BY DEF PubRows
    <2> QED BY <1>1, <2>1, <2>2, PubStep
  <1>4. CASE ~BeginManifest(r, m)
    <2>1. PICK ph \in {"Aborting", "Cleaning", "Cleaned", "Quarantined"} :
             /\ d2 = [db EXCEPT !.pub[r][m].phase = ph]
             /\ db.op[r].bound /\ db.op[r].phase \in {"Aborting", "Cleaning"}
             /\ db.pub[r][m].phase \in {"Uploading", "Aborting", "Cleaning"}
      <3>1. CASE AbortManifest(r, m)
        BY <1>1, <3>1 DEF AbortManifest, Rows, Cleanup
      <3>2. CASE TakeOverManifest(r, m) /\ db' # db
        BY <1>1, <3>2 DEF TakeOverManifest, Rows, Cleanup, Fail
      <3>3. CASE CleanManifest(r, m) /\ db' # db
        BY <1>1, <3>3 DEF CleanManifest, Rows, Cleanup, Fail
      <3> QED BY <1>4, <3>1, <3>2, <3>3
    <2>2. PICK p : p = [db.pub[r][m] EXCEPT !.phase = ph]
      OBVIOUS
    <2>3. p \in PubRows /\ p.phase = ph
      BY <1>2, <2>2 DEF PubRows
    <2>4. PubSet(db, d2, r, m, p)
      BY <1>2, <2>1, <2>2 DEF Stores, PubSet
    <2> QED BY <1>1, <2>1, <2>3, <2>4, PubStep
  <1> QED BY <1>3, <1>4

\* A lease runs out: no phase changes.
LEMMA LeaseStep ==
    ASSUME plan \in Plans, NEW d, StoreOK(d), NEW r \in Restores, NEW m \in Manifests, NEW d2,
           NEW p \in PubRows, p.phase = d.pub[r][m].phase, PubSet(d, d2, r, m, p)
    PROVE  StoreOK(d2)
  <1>1. d \in Stores /\ Shape(d, r) /\ LedgerOK(d, r) /\ FreshOK(d, r)
    BY DEF StoreOK
  <1>5. /\ Local(d, d2, r) /\ d2.op = d.op /\ d2.pub[r][m] = p
        /\ \A n \in Manifests : n # m => d2.pub[r][n] = d.pub[r][n]
    BY <1>1, PubIsLocal
  <1>6. \A n \in Manifests : d2.pub[r][n].phase = d.pub[r][n].phase
    BY <1>5
  <1>7. Live(d2, r) <=> Live(d, r)
    BY <1>5 DEF Live
  <1>8. LedgerOK(d2, r)
    BY <1>1, <1>5 DEF LedgerOK, Local, RowsOf
  <1>9. FreshOK(d2, r)
    BY <1>1, <1>5, <1>6 DEF FreshOK, Local
  <1>10. Shape(d2, r)
    BY <1>1, <1>5, <1>6 DEF Shape, Local
  <1> QED BY <1>5, <1>7, <1>8, <1>9, <1>10, LocalStep

LEMMA ExpireStep ==
    ASSUME plan \in Plans, StoreOK(db), NEW r \in Restores, NEW m \in Manifests,
           ExpireManifest(r, m)
    PROVE  StoreOK(db')
  <1>1. PICK d2 : d2 = db'
    OBVIOUS
  <1>2. db \in Stores /\ db.pub[r] \in [Manifests -> PubRows] /\ db.pub[r][m] \in PubRows
    BY DEF StoreOK, Stores
  <1>3. d2 = [db EXCEPT !.pub[r][m].lease = "expired"]
    BY <1>1 DEF ExpireManifest, Rows
  <1>4. PICK p : p = [db.pub[r][m] EXCEPT !.lease = "expired"]
    OBVIOUS
  <1>5. p \in PubRows /\ p.phase = db.pub[r][m].phase
    BY <1>2, <1>4 DEF PubRows
  <1>6. PubSet(db, d2, r, m, p)
    BY <1>2, <1>3, <1>4 DEF Stores, PubSet
  <1> QED BY <1>1, <1>5, <1>6, LeaseStep

LEMMA InitializeStep ==
    ASSUME plan \in Plans, StoreOK(db), NEW s \in Sessions, Initialize(s), db' # db
    PROVE  StoreOK(db')
  <1> DEFINE r == plan.session[s]
  <1>0. r \in Restores
    BY PlanFacts
  <1>1. PICK d2 : d2 = db'
    OBVIOUS
  <1>2. /\ d2 = [db EXCEPT !.op[r].phase = "DestinationBuilding", !.op[r].manifests = TRUE]
        /\ db.op[r].phase = "SourceSealed" /\ ManifestsPublished(r)
    BY <1>1 DEF Initialize, Advance
  <1> HIDE DEF r
  <1>3. /\ db \in Stores /\ db.op[r] \in OpRows /\ FiniteRows(db)
        /\ Shape(db, r) /\ LedgerOK(db, r) /\ FreshOK(db, r)
    BY <1>0 DEF StoreOK, Stores
  <1>4. PICK o : o = [db.op[r] EXCEPT !.phase = "DestinationBuilding", !.manifests = TRUE]
    OBVIOUS
  <1>5. /\ o \in OpRows /\ o.phase = "DestinationBuilding"
        /\ o.members = db.op[r].members /\ o.refs = db.op[r].refs
        /\ o.memberCursor = db.op[r].memberCursor /\ o.bound = db.op[r].bound
    BY <1>2, <1>3, <1>4 DEF OpRows, Phases, ForwardPhases
  <1>6. d2 = [db EXCEPT !.op[r] = o]
    BY <1>0, <1>2, <1>3, <1>4 DEF Stores
  <1>7. Local(db, d2, r) /\ d2.op[r] = o /\ d2.pub = db.pub
    BY <1>0, <1>3, <1>5, <1>6, OpIsLocal
  <1>8. Live(d2, r) /\ Live(db, r)
    BY <1>2, <1>5, <1>7 DEF Live
  <1>9. LedgerOK(d2, r) /\ FreshOK(d2, r)
    BY <1>2, <1>3, <1>5, <1>7 DEF LedgerOK, FreshOK, Local, RowsOf
  <1>10. Shape(d2, r)
    <2>1. /\ d2.member[r] = {} /\ d2.ref[r] = {} /\ o.members = 0 /\ o.refs = 0 /\ o.memberCursor = 0
          /\ d2.ledger[r] \subseteq d2.entry[r]
          /\ d2.entry[r] \subseteq d2.ledger[r] \cup ManifestRows(r)
          /\ d2.commit[r].state = "Absent"
          /\ o.bound = db.op[r].bound
      BY <1>2, <1>3, <1>5, <1>7 DEF Shape, Local
    <2>2. /\ \A m \in Manifests : d2.pub[r][m].phase = "Published"
          /\ ManifestRows(r) \subseteq d2.entry[r]
      BY <1>2, <1>7 DEF ManifestsPublished, Local
    <2>3. Cardinality(d2.member[r]) = o.members /\ Cardinality(d2.ref[r]) = o.refs
      BY <2>1, FS_EmptySet
    <2>4. d2.entry[r] \subseteq RowSet
      BY <1>0, <1>3, <1>7, PlanFacts DEF Stores, Local
    <2>5. d2.member[r] = {x \in d2.entry[r] : x[1] <= 0}
      BY <2>1, <2>4 DEF RowSet
    <2>6. d2.ref[r] = {x[2] : x \in d2.member[r]}
      BY <2>1
    <2>7. ~o.bound => \A m \in Manifests : d2.pub[r][m].phase = "None"
      BY <1>3, <1>5, <1>7 DEF Shape
    <2> QED BY <1>5, <1>7, <2>1, <2>2, <2>3, <2>5, <2>6, <2>7 DEF Shape, Early, Building
  <1> QED BY <1>0, <1>1, <1>7, <1>8, <1>9, <1>10, LocalStep

\* The counts of the sealed revisions move, and at the end the phase.
LEMMA SealRevisionsStep ==
    ASSUME plan \in Plans, StoreOK(db), NEW s \in Sessions, SealRevisions(s), db' # db
    PROVE  StoreOK(db')
  <1> DEFINE r == plan.session[s]
  <1>0. r \in Restores
    BY PlanFacts
  <1>1. PICK d2 : d2 = db'
    OBVIOUS
  <1>2. db.op[r].phase = "DestinationSealing"
    BY DEF SealRevisions
  <1>3. /\ db \in Stores /\ db.op[r] \in OpRows
        /\ Shape(db, r) /\ LedgerOK(db, r) /\ FreshOK(db, r)
    BY <1>0 DEF StoreOK, Stores
  <1>4. PICK o \in OpRows :
           /\ o.phase \in {"DestinationSealing", "Ready"}
           /\ o.members = db.op[r].members /\ o.refs = db.op[r].refs /\ o.bound = db.op[r].bound
           /\ d2 = [db EXCEPT !.op[r] = o]
    <2> DEFINE rest == db.op[r].refs - db.op[r].sealed
    <2>1. rest \in Int /\ db.op[r].sealed \in Int /\ BatchSize \in Int
      BY <1>3, PlanFacts DEF OpRows
    <2>2. CASE rest > BatchSize
      <3>1. d2 = [db EXCEPT !.op[r].sealed = @ + BatchSize]
        BY <1>1, <2>2 DEF SealRevisions, Advance
      <3>0. PICK k \in Int : k = db.op[r].sealed + BatchSize
        BY <2>1
      <3> HIDE DEF rest
      <3>2. PICK o : o = [db.op[r] EXCEPT !.sealed = k]
        OBVIOUS
      <3>3. /\ o \in OpRows /\ o.phase = "DestinationSealing"
            /\ o.members = db.op[r].members /\ o.refs = db.op[r].refs /\ o.bound = db.op[r].bound
        BY <1>2, <1>3, <3>2 DEF OpRows
      <3>4. d2 = [db EXCEPT !.op[r] = o]
        BY <1>0, <1>3, <3>0, <3>1, <3>2 DEF Stores
      <3> HIDE <3>2
      <3> QED BY <3>3, <3>4
    <2>3. CASE ~(rest > BatchSize)
      <3>1. d2 = [db EXCEPT !.op[r].sealed = @ + rest, !.op[r].phase = "Ready"]
        BY <1>1, <2>3 DEF SealRevisions, Advance
      <3>0. PICK k \in Int : k = db.op[r].sealed + rest
        BY <2>1
      <3> HIDE DEF rest
      <3>2. PICK o : o = [db.op[r] EXCEPT !.sealed = k, !.phase = "Ready"]
        OBVIOUS
      <3>3. /\ o \in OpRows /\ o.phase = "Ready"
            /\ o.members = db.op[r].members /\ o.refs = db.op[r].refs /\ o.bound = db.op[r].bound
        BY <1>3, <3>2 DEF OpRows, Phases, ForwardPhases
      <3>4. d2 = [db EXCEPT !.op[r] = o]
        BY <1>0, <1>3, <3>0, <3>1, <3>2 DEF Stores
      <3> HIDE <3>2
      <3> QED BY <3>3, <3>4
    <2> QED BY <2>2, <2>3
  <1> HIDE DEF r
  <1>8. Local(db, d2, r) /\ d2.op[r] = o /\ d2.pub = db.pub
    BY <1>0, <1>3, <1>4, OpIsLocal
  <1>9. Live(d2, r) /\ Live(db, r)
    BY <1>2, <1>4, <1>8 DEF Live
  <1>10. LedgerOK(d2, r) /\ FreshOK(d2, r)
    BY <1>2, <1>3, <1>4, <1>8 DEF LedgerOK, FreshOK, Local, RowsOf, Building
  <1>11. Shape(d2, r)
    BY <1>2, <1>3, <1>4, <1>8 DEF Shape, Early, Building, Local
  <1> QED BY <1>0, <1>1, <1>8, <1>9, <1>10, <1>11, LocalStep

\* Nothing of it is left in progress when a restore is quarantined.
LEMMA NonePending ==
    ASSUME StoreOK(db), NEW r \in Restores, Finishable(r) # "wait"
    PROVE  \A m \in Manifests : db.pub[r][m].phase \notin ActivePublications
  <1>1. Shape(db, r)
    BY DEF StoreOK
  <1>2. ~PublicationPending(r)
    BY DEF Finishable
  <1>3. ~db.op[r].bound => \A m \in Manifests : db.pub[r][m].phase = "None"
    BY <1>1 DEF Shape
  <1> QED BY <1>2, <1>3 DEF PublicationPending, ActivePublications

LEMMA QuarantineStep ==
    ASSUME plan \in Plans, StoreOK(db), NEW r \in Restores, NEW d2,
           db.op[r].phase = "Cleaning", Finishable(r) = "quarantine",
           PhaseSet(db, d2, r, "Quarantined")
    PROVE  StoreOK(d2)
  <1>3. "Quarantined" \in Phases
    BY DEF Phases, AbortPhases
  <1>4. /\ Local(db, d2, r) /\ d2.pub = db.pub /\ d2.op[r].phase = "Quarantined"
        /\ d2.op[r] = [db.op[r] EXCEPT !.phase = "Quarantined"] /\ FreshOK(d2, r)
    BY <1>3, PhaseStep
  <1>5. Live(d2, r) /\ Live(db, r) /\ LedgerOK(d2, r)
    BY <1>4 DEF Live, LedgerOK, Building
  <1>6. Shape(d2, r)
    <2>1. Shape(db, r) /\ db.op[r] \in OpRows
      BY DEF StoreOK, Stores
    <2>2. \A m \in Manifests : d2.pub[r][m].phase \notin ActivePublications
      BY <1>4, NonePending
    <2>3. d2.op[r].bound = db.op[r].bound
      BY <1>4, <2>1 DEF OpRows
    <2> QED BY <1>4, <2>1, <2>2, <2>3 DEF Shape, Early, Building, Local
  <1> QED BY <1>4, <1>5, <1>6, LocalStep

LEMMA RestartStep ==
    ASSUME plan \in Plans, StoreOK(db), Restart
    PROVE  StoreOK(db')
  <1>1. PICK p, d2 : p = Superseded(db.pub) /\ d2 = db'
    OBVIOUS
  <1>2. db \in Stores /\ db.pub \in [Restores -> [Manifests -> PubRows]]
    BY DEF StoreOK, Stores
  <1>3. \A w \in PubRows : /\ [w EXCEPT !.lease = "superseded"] \in PubRows
                           /\ [w EXCEPT !.lease = "superseded"].phase = w.phase
    BY DEF PubRows
  <1>4. p \in [Restores -> [Manifests -> PubRows]]
    BY <1>1, <1>2, <1>3 DEF Superseded
  <1>5. \A q \in Restores, m \in Manifests : p[q][m].phase = db.pub[q][m].phase
    BY <1>1, <1>2, <1>3 DEF Superseded
  <1>6. d2 = [db EXCEPT !.pub = p]
    BY <1>1 DEF Restart
  <1>7. /\ d2 \in Stores /\ d2.pub = p /\ d2.op = db.op
        /\ d2.ws = db.ws /\ d2.entry = db.entry /\ d2.ledger = db.ledger /\ d2.commit = db.commit
        /\ d2.member = db.member /\ d2.ref = db.ref /\ d2.consumer = db.consumer
        /\ d2.snapshot = db.snapshot /\ d2.hold = db.hold /\ d2.rev = db.rev
    BY <1>2, <1>4, <1>6 DEF Stores
  <1> HIDE <1>6
  <1>8. FiniteRows(d2) /\ ViewOK(d2) /\ RefsOK(d2)
    BY <1>7, RefsSame DEF StoreOK, FiniteRows, ViewOK
  <1>9. \A q \in Restores : Live(d2, q) <=> Live(db, q)
    BY <1>7 DEF Live
  <1>10. PinsOK(d2)
    BY <1>7, <1>9, PinsSame DEF StoreOK
  <1>11. ASSUME NEW q \in Restores PROVE RestoreOK(d2, q)
    <2>1. Shape(db, q) /\ LedgerOK(db, q) /\ NameOK(db, q) /\ FreshOK(db, q)
      BY DEF StoreOK
    <2>2. Shape(d2, q)
      BY <1>5, <1>7, <2>1 DEF Shape
    <2>3. LedgerOK(d2, q) /\ NameOK(d2, q) /\ FreshOK(d2, q)
      BY <1>5, <1>7, <1>9, <2>1 DEF LedgerOK, NameOK, FreshOK, RowsOf
    <2> QED BY <2>2, <2>3 DEF RestoreOK
  <1>12. Kept(db, d2, Restores)
    BY <1>7 DEF Kept
  <1>13. \A c \in Commits : d2.commit[c].state = "Sealed" /\ db.commit[c].state # "Sealed"
           => CommitOK(d2, c)
    BY <1>7
  <1>14. StoreOK(d2)
    BY <1>7, <1>8, <1>10, <1>11, <1>12, <1>13, StepKeeps
  <1> QED BY <1>1, <1>14

-----------------------------------------------------------------------------
(* Consumers of commits, holds of the snapshot and what they pin.          *)

\* All rows but commits, consumers, the snapshot and its holds.
SameRows(d, d2) ==
    /\ d2 \in Stores
    /\ d2.op = d.op /\ d2.ws = d.ws /\ d2.pub = d.pub /\ d2.entry = d.entry
    /\ d2.ledger = d.ledger /\ d2.member = d.member /\ d2.ref = d.ref /\ d2.rev = d.rev

\* Commit c has the consumer `who' more, or less.
Pinned(d, d2, c, who) ==
    /\ Grown(d.consumer, d2.consumer, c, {who})
    /\ \A o \in Commits :
          /\ d2.commit[o].state = d.commit[o].state
          /\ d2.commit[o].count = IF o = c THEN d.commit[o].count + 1 ELSE d.commit[o].count
Unpinned(d, d2, c, who) ==
    /\ Shrunk(d.consumer, d2.consumer, c, {who})
    /\ \A o \in Commits :
          /\ d2.commit[o].state = d.commit[o].state
          /\ d2.commit[o].count = IF o = c THEN d.commit[o].count - 1 ELSE d.commit[o].count

LEMMA AddFields ==
    ASSUME NEW d \in Stores, NEW c \in Commits, NEW who \in Consumers, NEW d2,
           d2 = AddConsumer(d, c, who)
    PROVE  /\ SameRows(d, d2) /\ d2.snapshot = d.snapshot /\ d2.hold = d.hold
           /\ Pinned(d, d2, c, who)
  <1>1. PICK row : row = [d.commit[c] EXCEPT !.count = @ + 1]
    OBVIOUS
  <1>2. /\ d.commit \in [Commits -> CommitRows] /\ d.commit[c] \in CommitRows
        /\ d.consumer \in [Commits -> SUBSET Consumers]
    BY DEF Stores
  <1>3. /\ row \in CommitRows /\ row.state = d.commit[c].state
        /\ row.count = d.commit[c].count + 1
    BY <1>1, <1>2 DEF CommitRows
  <1>4. d2 = [d EXCEPT !.commit[c] = row, !.consumer[c] = d.consumer[c] \cup {who}]
    BY <1>1, <1>2 DEF AddConsumer, Stores
  <1>5. /\ d2.commit = [d.commit EXCEPT ![c] = row]
        /\ d2.consumer = [d.consumer EXCEPT ![c] = d.consumer[c] \cup {who}]
        /\ d2.snapshot = d.snapshot /\ d2.hold = d.hold
        /\ d2.op = d.op /\ d2.ws = d.ws /\ d2.pub = d.pub /\ d2.entry = d.entry
        /\ d2.ledger = d.ledger /\ d2.member = d.member /\ d2.ref = d.ref /\ d2.rev = d.rev
    BY <1>4 DEF Stores
  <1>6. d2.commit \in [Commits -> CommitRows] /\ d2.consumer \in [Commits -> SUBSET Consumers]
    BY <1>2, <1>3, <1>5
  <1>7. d2 \in Stores
    BY <1>4, <1>5, <1>6 DEF Stores
  <1>8. Pinned(d, d2, c, who)
    BY <1>2, <1>3, <1>5 DEF Pinned, Grown
  <1> QED BY <1>5, <1>7, <1>8 DEF SameRows

LEMMA RemoveFields ==
    ASSUME NEW d \in Stores, NEW c \in Commits, NEW who, NEW d2,
           d2 = RemoveConsumer(d, c, who)
    PROVE  /\ SameRows(d, d2) /\ d2.snapshot = d.snapshot /\ d2.hold = d.hold
           /\ Unpinned(d, d2, c, who)
  <1>1. PICK row : row = [d.commit[c] EXCEPT !.count = @ - 1]
    OBVIOUS
  <1>2. /\ d.commit \in [Commits -> CommitRows] /\ d.commit[c] \in CommitRows
        /\ d.consumer \in [Commits -> SUBSET Consumers]
    BY DEF Stores
  <1>3. /\ row \in CommitRows /\ row.state = d.commit[c].state
        /\ row.count = d.commit[c].count - 1
    BY <1>1, <1>2 DEF CommitRows
  <1>4. d2 = [d EXCEPT !.commit[c] = row, !.consumer[c] = d.consumer[c] \ {who}]
    BY <1>1, <1>2 DEF RemoveConsumer, Stores
  <1>5. /\ d2.commit = [d.commit EXCEPT ![c] = row]
        /\ d2.consumer = [d.consumer EXCEPT ![c] = d.consumer[c] \ {who}]
        /\ d2.snapshot = d.snapshot /\ d2.hold = d.hold
        /\ d2.op = d.op /\ d2.ws = d.ws /\ d2.pub = d.pub /\ d2.entry = d.entry
        /\ d2.ledger = d.ledger /\ d2.member = d.member /\ d2.ref = d.ref /\ d2.rev = d.rev
    BY <1>4 DEF Stores
  <1>6. d2.commit \in [Commits -> CommitRows] /\ d2.consumer \in [Commits -> SUBSET Consumers]
    BY <1>2, <1>3, <1>5
  <1>7. d2 \in Stores
    BY <1>4, <1>5, <1>6 DEF Stores
  <1>8. Unpinned(d, d2, c, who)
    BY <1>2, <1>3, <1>5 DEF Unpinned, Shrunk
  <1> QED BY <1>5, <1>7, <1>8 DEF SameRows

LEMMA PinnedCounts ==
    ASSUME NEW d \in Stores, NEW d2, ConsumersOK(d), NEW c \in Commits, NEW who,
           who \notin d.consumer[c], d.commit[c].state = "Sealed", Pinned(d, d2, c, who)
    PROVE  ConsumersOK(d2)
  <1> SUFFICES ASSUME NEW o \in Commits
               PROVE  /\ IsFiniteSet(d2.consumer[o])
                      /\ d2.commit[o].count = Cardinality(d2.consumer[o])
                      /\ d2.consumer[o] # {} => d2.commit[o].state = "Sealed"
    BY DEF ConsumersOK
  <1>1. /\ IsFiniteSet(d.consumer[o]) /\ d.commit[o].count = Cardinality(d.consumer[o])
        /\ d.consumer[o] # {} => d.commit[o].state = "Sealed"
    BY DEF ConsumersOK
  <1>2. CASE o = c
    <2>1. d2.consumer[o] = d.consumer[o] \cup {who}
      BY <1>2 DEF Pinned, Grown
    <2>2. IsFiniteSet(d2.consumer[o]) /\ Cardinality(d2.consumer[o]) = Cardinality(d.consumer[o]) + 1
      <3>1. who \notin d.consumer[o]
        BY <1>2
      <3>2. PICK A : A = d.consumer[o]
        OBVIOUS
      <3>3. IsFiniteSet(A \cup {who}) /\ Cardinality(A \cup {who}) = Cardinality(A) + 1
        BY <1>1, <3>1, <3>2, FS_AddElement
      <3> QED BY <2>1, <3>2, <3>3
    <2> QED BY <1>1, <1>2, <2>2 DEF Pinned
  <1>3. CASE o # c
    BY <1>1, <1>3 DEF Pinned, Grown
  <1> QED BY <1>2, <1>3

LEMMA UnpinnedCounts ==
    ASSUME NEW d \in Stores, NEW d2, ConsumersOK(d), NEW c \in Commits, NEW who,
           who \in d.consumer[c], Unpinned(d, d2, c, who)
    PROVE  ConsumersOK(d2)
  <1> SUFFICES ASSUME NEW o \in Commits
               PROVE  /\ IsFiniteSet(d2.consumer[o])
                      /\ d2.commit[o].count = Cardinality(d2.consumer[o])
                      /\ d2.consumer[o] # {} => d2.commit[o].state = "Sealed"
    BY DEF ConsumersOK
  <1>1. /\ IsFiniteSet(d.consumer[o]) /\ d.commit[o].count = Cardinality(d.consumer[o])
        /\ d.consumer[o] # {} => d.commit[o].state = "Sealed"
    BY DEF ConsumersOK
  <1>2. CASE o = c
    <2>1. d2.consumer[o] = d.consumer[o] \ {who}
      BY <1>2 DEF Unpinned, Shrunk
    <2>2. IsFiniteSet(d2.consumer[o]) /\ Cardinality(d2.consumer[o]) = Cardinality(d.consumer[o]) - 1
      <3>1. PICK T : T = d.consumer[o]
        OBVIOUS
      <3>2. IsFiniteSet(T) /\ who \in T
        BY <1>1, <1>2, <3>1
      <3>3. IsFiniteSet(T \ {who}) /\ Cardinality(T \ {who}) = Cardinality(T) - 1
        BY <3>2, FS_RemoveElement
      <3> QED BY <2>1, <3>1, <3>3
    <2> QED BY <1>1, <1>2, <2>1, <2>2 DEF Unpinned
  <1>3. CASE o # c
    BY <1>1, <1>3 DEF Unpinned, Shrunk
  <1> QED BY <1>2, <1>3

\* What pins the source and the parent of q is as it was.
SamePin(d, d2, q) ==
    /\ Live(d2, q) <=> Live(d, q)
    /\ q \in d2.hold <=> q \in d.hold
    /\ Lease(q) \in d2.consumer[Source(q)] <=> Lease(q) \in d.consumer[Source(q)]
    /\ Child(q) \in d2.consumer[Source(q)] <=> Child(q) \in d.consumer[Source(q)]
    /\ d2.commit[q].state = d.commit[q].state

LEMMA SamePinKeeps ==
    ASSUME NEW d, NEW d2, NEW q, PinOK(d, q), SamePin(d, d2, q)
    PROVE  PinOK(d2, q)
  BY DEF PinOK, SamePin

\* A step on commits, consumers and the snapshot alone.
LEMMA PinsStep ==
    ASSUME plan \in Plans, NEW d, NEW d2, StoreOK(d), SameRows(d, d2), PinsOK(d2),
           d2.hold \subseteq d.hold,
           \A c \in Commits : d2.commit[c].state = d.commit[c].state
    PROVE  StoreOK(d2)
  <1>1. Kept(d, d2, {})
    <2>1. Restores \subseteq Commits
      BY PlanFacts
    <2> QED BY <2>1 DEF Kept, SameRows, Own
  <1>2. FiniteRows(d2) /\ ViewOK(d2) /\ d2 \in Stores
    BY DEF StoreOK, FiniteRows, ViewOK, SameRows
  <1>3. RefsOK(d2)
    BY RefsSame DEF StoreOK, SameRows
  <1> QED BY <1>1, <1>2, <1>3, StepKeeps

-----------------------------------------------------------------------------
(* Snapshots.                                                              *)

LEMMA SnapshotRowStep ==
    ASSUME plan \in Plans, NEW d, StoreOK(d), NEW w \in SnapshotRows, NEW d2,
           d2 = [d EXCEPT !.snapshot = w], w.count = d.snapshot.count,
           w.state = "Active" <=> d.snapshot.state = "Active"
    PROVE  StoreOK(d2)
  <1>1. d \in Stores
    BY DEF StoreOK
  <1>2. /\ SameRows(d, d2) /\ d2.snapshot = w /\ d2.hold = d.hold
        /\ d2.commit = d.commit /\ d2.consumer = d.consumer
    BY <1>1 DEF SameRows, Stores
  <1>3. PinsOK(d)
    BY DEF StoreOK
  <1>4. \A q \in Restores : SamePin(d, d2, q)
    BY <1>2 DEF SamePin, SameRows, Live
  <1>5. \A q \in Restores : PinOK(d2, q)
    BY <1>3, <1>4, SamePinKeeps DEF PinsOK
  <1>6. ConsumersOK(d2) /\ SnapshotOK(d2)
    BY <1>2, <1>3 DEF PinsOK, ConsumersOK, SnapshotOK
  <1>7. PinsOK(d2)
    BY <1>5, <1>6 DEF PinsOK
  <1>8. d2.hold \subseteq d.hold /\ \A c \in Commits : d2.commit[c].state = d.commit[c].state
    BY <1>2
  <1> QED BY <1>2, <1>7, <1>8, PinsStep

LEMMA TerminalizedStep ==
    ASSUME plan \in Plans, StoreOK(db), NEW st \in {"Retired", "ReapClaimed"}, NEW d2,
           SnapshotReleasable, d2 = Terminalized(st)
    PROVE  StoreOK(d2) /\ d2.snapshot.state = st /\ d2.op = db.op
  <1>1. db \in Stores /\ PinsOK(db) /\ ConsumersOK(db) /\ SnapshotOK(db) /\ Base \in Commits
        /\ Base \notin Restores /\ \A q \in Restores : Source(q) \in Commits /\ PinOK(db, q)
    BY PlanFacts DEF StoreOK, PinsOK
  <1>2. PICK w : w = [db.snapshot EXCEPT !.state = st]
    OBVIOUS
  <1>3. w \in SnapshotRows /\ w.state = st /\ w.count = db.snapshot.count
    BY <1>1, <1>2 DEF SnapshotRows, Stores
  <1>4. PICK d1 : d1 = [db EXCEPT !.snapshot.state = st, !.hold = @ \ {Base}]
    OBVIOUS
  <1>5. d1 = [db EXCEPT !.snapshot = w, !.hold = db.hold \ {Base}]
    BY <1>1, <1>2, <1>4 DEF Stores
  <1>6. d2 = RemoveConsumer(d1, Base, SnapshotConsumer)
    BY <1>4 DEF Terminalized
  <1> HIDE <1>2, <1>4
  <1>7. /\ SameRows(db, d1) /\ d1.snapshot = w /\ d1.hold = db.hold \ {Base}
        /\ d1.commit = db.commit /\ d1.consumer = db.consumer
    BY <1>1, <1>3, <1>5 DEF SameRows, Stores
  <1>8. /\ SameRows(d1, d2) /\ d2.snapshot = d1.snapshot /\ d2.hold = d1.hold
        /\ Unpinned(d1, d2, Base, SnapshotConsumer)
    <2>1. d1 \in Stores
      BY <1>7 DEF SameRows
    <2> HIDE <1>5
    <2> QED BY <1>1, <1>6, <2>1, RemoveFields
  <1> HIDE <1>5, <1>6
  <1>9. db.snapshot.state = "Active" /\ db.snapshot.count = 0
        /\ SnapshotConsumer \in db.consumer[Base]
    BY <1>1 DEF SnapshotReleasable, SnapshotOK
  <1>10. db.hold \ {Base} = {}
    <2>1. IsFiniteSet(db.hold \ {Base}) /\ Cardinality(db.hold \ {Base}) = 0
      BY <1>1, <1>9, FS_RemoveElement DEF SnapshotOK
    <2> QED BY <2>1, FS_EmptySet
  <1>11. ConsumersOK(d2)
    <2>1. ConsumersOK(d1) /\ d1 \in Stores /\ SnapshotConsumer \in d1.consumer[Base]
      BY <1>1, <1>7, <1>9 DEF ConsumersOK, SameRows
    <2> QED BY <1>1, <1>8, <2>1, UnpinnedCounts
  <1>12. SnapshotOK(d2)
    <2>1. SnapshotConsumer \notin d2.consumer[Base]
      BY <1>8 DEF Unpinned, Shrunk
    <2>2. d2.hold = {} /\ d2.snapshot.state # "Active" /\ d2.snapshot.count = 0
      BY <1>3, <1>7, <1>8, <1>9, <1>10
    <2>3. IsFiniteSet(d2.hold) /\ Cardinality(d2.hold \ {Base}) = 0
      <3>1. d2.hold \ {Base} = {}
        BY <2>2
      <3> QED BY <2>2, <3>1, FS_EmptySet
    <2> QED BY <2>1, <2>2, <2>3 DEF SnapshotOK
  <1>13. ASSUME NEW q \in Restores PROVE PinOK(d2, q)
    <2>1. d2.op = db.op /\ d2.hold = db.hold \ {Base} /\ q # Base /\ q \in Commits
      BY <1>1, <1>7, <1>8, PlanFacts DEF SameRows
    <2>2. d2.commit[q].state = db.commit[q].state
      BY <1>7, <1>8, <2>1 DEF Unpinned
    <2>3. \A x : x # SnapshotConsumer =>
             (x \in d2.consumer[Source(q)] <=> x \in db.consumer[Source(q)])
      BY <1>1, <1>7, <1>8 DEF Unpinned, Shrunk
    <2>4. Lease(q) # SnapshotConsumer /\ Child(q) # SnapshotConsumer
      BY DEF Lease, Child, SnapshotConsumer
    <2>5. SamePin(db, d2, q)
      BY <2>1, <2>2, <2>3, <2>4 DEF SamePin, Live
    <2> QED BY <1>1, <2>5, SamePinKeeps
  <1>14. PinsOK(d2)
    BY <1>11, <1>12, <1>13 DEF PinsOK
  <1>15. SameRows(db, d2) /\ d2.hold \subseteq db.hold
    BY <1>7, <1>8 DEF SameRows
  <1>16. \A c \in Commits : d2.commit[c].state = db.commit[c].state
    BY <1>7, <1>8 DEF Unpinned
  <1> QED BY <1>3, <1>7, <1>8, <1>14, <1>15, <1>16, PinsStep DEF SameRows

LEMMA SnapshotSteps ==
    ASSUME plan \in Plans, StoreOK(db),
           \/ RetireSnapshot \/ ClaimExpiredSnapshot \/ FinishSnapshotReap
           \/ SnapshotOverdue \/ ObserveLeaseClock
    PROVE  StoreOK(db') /\ db'.op = db.op
  <1>1. PICK d2 : d2 = db'
    OBVIOUS
  <1>2. ASSUME NEW d, StoreOK(d), NEW e, e = [d EXCEPT !.snapshot.expired = TRUE]
        PROVE  StoreOK(e) /\ e.op = d.op
    <2>1. d \in Stores /\ d.snapshot \in SnapshotRows
      BY <1>2 DEF StoreOK, Stores
    <2>2. PICK w : w = [d.snapshot EXCEPT !.expired = TRUE]
      OBVIOUS
    <2>3. w \in SnapshotRows /\ w.state = d.snapshot.state /\ w.count = d.snapshot.count
      BY <2>1, <2>2 DEF SnapshotRows
    <2>4. e = [d EXCEPT !.snapshot = w] /\ e.op = d.op
      BY <1>2, <2>1, <2>2 DEF Stores
    <2> QED BY <1>2, <2>3, <2>4, SnapshotRowStep
  <1>3. db \in Stores /\ db.snapshot \in SnapshotRows
    BY DEF StoreOK, Stores
  <1>4. CASE RetireSnapshot
    BY <1>1, <1>4, TerminalizedStep DEF RetireSnapshot, Rows
  <1>5. CASE ClaimExpiredSnapshot
    <2>1. CASE SnapshotReleasable
      <3>1. PICK d : d = Terminalized("ReapClaimed")
        OBVIOUS
      <3>2. StoreOK(d) /\ d.op = db.op
        BY <2>1, <3>1, TerminalizedStep
      <3>3. d2 = [d EXCEPT !.snapshot.expired = TRUE]
        BY <1>1, <1>5, <2>1, <3>1 DEF ClaimExpiredSnapshot
      <3> QED BY <1>1, <1>2, <3>2, <3>3
    <2>2. CASE ~SnapshotReleasable
      <3>1. d2 = [db EXCEPT !.snapshot.expired = TRUE]
        BY <1>1, <1>5, <2>2 DEF ClaimExpiredSnapshot
      <3> QED BY <1>1, <1>2, <3>1
    <2> QED BY <2>1, <2>2
  <1>6. CASE FinishSnapshotReap
    <2>1. d2 = [db EXCEPT !.snapshot.state = "Reaped"] /\ db.snapshot.state = "ReapClaimed"
      BY <1>1, <1>6 DEF FinishSnapshotReap, Rows
    <2>2. PICK w : w = [db.snapshot EXCEPT !.state = "Reaped"]
      OBVIOUS
    <2>3. w \in SnapshotRows /\ w.state = "Reaped" /\ w.count = db.snapshot.count
      BY <1>3, <2>2 DEF SnapshotRows
    <2>4. d2 = [db EXCEPT !.snapshot = w] /\ d2.op = db.op
      BY <1>3, <2>1, <2>2 DEF Stores
    <2> QED BY <1>1, <2>1, <2>3, <2>4, SnapshotRowStep
  <1>7. CASE SnapshotOverdue
    <2>1. d2 = [db EXCEPT !.snapshot.overdue = TRUE]
      BY <1>1, <1>7 DEF SnapshotOverdue, Rows
    <2>2. PICK w : w = [db.snapshot EXCEPT !.overdue = TRUE]
      OBVIOUS
    <2>3. w \in SnapshotRows /\ w.state = db.snapshot.state /\ w.count = db.snapshot.count
      BY <1>3, <2>2 DEF SnapshotRows
    <2>4. d2 = [db EXCEPT !.snapshot = w] /\ d2.op = db.op
      BY <1>3, <2>1, <2>2 DEF Stores
    <2> QED BY <1>1, <2>3, <2>4, SnapshotRowStep
  <1>8. CASE ObserveLeaseClock
    <2>1. d2 = [db EXCEPT !.snapshot.expired = TRUE]
      BY <1>1, <1>8 DEF ObserveLeaseClock, Rows
    <2> QED BY <1>1, <1>2, <2>1
  <1> QED BY <1>4, <1>5, <1>6, <1>7, <1>8

-----------------------------------------------------------------------------
(* Commits: the head is superseded, and retired commits are released.      *)

\* A consumer that is neither a lease, a child nor the snapshot goes.
LEMMA SupersedeStep ==
    ASSUME plan \in Plans, StoreOK(db), NEW c \in Commits, SupersedeHead(c)
    PROVE  StoreOK(db') /\ db'.op = db.op
  <1>1. PICK d2 : d2 = db'
    OBVIOUS
  <1>2. db \in Stores /\ ConsumersOK(db) /\ SnapshotOK(db)
        /\ Base \in Commits /\ \A q \in Restores : Source(q) \in Commits /\ PinOK(db, q)
    BY PlanFacts DEF StoreOK, PinsOK
  <1>3. d2 = RemoveConsumer(db, c, Head(c)) /\ Head(c) \in db.consumer[c]
    BY <1>1 DEF SupersedeHead, Rows
  <1>4. /\ SameRows(db, d2) /\ d2.snapshot = db.snapshot /\ d2.hold = db.hold
        /\ Unpinned(db, d2, c, Head(c))
    BY <1>2, <1>3, RemoveFields
  <1>5. ConsumersOK(d2)
    BY <1>2, <1>3, <1>4, UnpinnedCounts
  <1>6. \A o \in Commits : \A x : x # Head(c) => (x \in d2.consumer[o] <=> x \in db.consumer[o])
    BY <1>4 DEF Unpinned, Shrunk
  <1>7. SnapshotOK(d2)
    <2>1. SnapshotConsumer # Head(c)
      BY DEF SnapshotConsumer, Head
    <2> QED BY <1>2, <1>4, <1>6, <2>1 DEF SnapshotOK
  <1>8. ASSUME NEW q \in Restores PROVE PinOK(d2, q)
    <2>1. Lease(q) # Head(c) /\ Child(q) # Head(c)
      BY DEF Lease, Child, Head
    <2>2. q \in Commits
      BY PlanFacts
    <2>3. SamePin(db, d2, q)
      BY <1>2, <1>4, <1>6, <2>1, <2>2 DEF SamePin, Live, SameRows, Unpinned
    <2> QED BY <1>2, <2>3, SamePinKeeps
  <1>9. PinsOK(d2)
    BY <1>5, <1>7, <1>8 DEF PinsOK
  <1>10. d2.hold \subseteq db.hold /\ \A o \in Commits : d2.commit[o].state = db.commit[o].state
    BY <1>4 DEF Unpinned
  <1> QED BY <1>1, <1>4, <1>9, <1>10, PinsStep DEF SameRows

\* A commit that is over belongs to a completed restore, if to any.
LEMMA OverIsComplete ==
    ASSUME NEW d, StoreOK(d), NEW q \in Restores, d.commit[q].state # "Absent"
    PROVE  d.op[q].phase = "Complete"
  BY DEF StoreOK, Shape

\* The states a retired commit goes through.
Retiring == {<<"Sealed", "Claiming">>, <<"Claiming", "Releasing">>, <<"Releasing", "Retired">>}
StateSet(d, d2, c, st) == d2 = [d EXCEPT !.commit[c].state = st]

LEMMA CommitStateStep ==
    ASSUME plan \in Plans, NEW d, StoreOK(d), NEW c \in Commits, NEW st, NEW d2,
           StateSet(d, d2, c, st), <<d.commit[c].state, st>> \in Retiring, d.consumer[c] = {}
    PROVE  StoreOK(d2) /\ d2.op = d.op
  <1>1. d \in Stores /\ d.commit \in [Commits -> CommitRows] /\ d.commit[c] \in CommitRows
    BY DEF StoreOK, Stores
  <1>2. PICK row : row = [d.commit[c] EXCEPT !.state = st]
    OBVIOUS
  <1>3. row \in CommitRows /\ row.state = st /\ row.count = d.commit[c].count
    BY <1>1, <1>2 DEF CommitRows, Retiring
  <1>4. d2 = [d EXCEPT !.commit[c] = row]
    BY <1>1, <1>2 DEF Stores, StateSet
  <1>5. /\ SameRows(d, d2) /\ d2.snapshot = d.snapshot /\ d2.hold = d.hold
        /\ d2.consumer = d.consumer /\ d2.commit[c] = row
        /\ \A o \in Commits : o # c => d2.commit[o] = d.commit[o]
    BY <1>1, <1>3, <1>4 DEF SameRows, Stores
  <1> HIDE <1>2, <1>4
  <1>6. ConsumersOK(d) /\ SnapshotOK(d) /\ \A q \in Restores : PinOK(d, q) /\ q \in Commits
    BY PlanFacts DEF StoreOK, PinsOK
  <1>7. ConsumersOK(d2) /\ SnapshotOK(d2)
    BY <1>3, <1>5, <1>6 DEF ConsumersOK, SnapshotOK
  <1>8. ASSUME NEW q \in Restores PROVE PinOK(d2, q)
    <2>1. PinOK(d, q) /\ (Live(d2, q) <=> Live(d, q)) /\ q \in Commits
      BY <1>5, <1>6 DEF Live, SameRows
    <2>2. CASE q = c
      BY <1>3, <1>5, <2>1, <2>2 DEF PinOK, Retiring
    <2>3. CASE q # c
      BY <1>5, <2>1, <2>3 DEF PinOK
    <2> QED BY <2>2, <2>3
  <1>9. PinsOK(d2)
    BY <1>7, <1>8 DEF PinsOK
  <1>10. Kept(d, d2, {})
    <2>1. \A q \in Restores : Own(d, d2, q)
      <3> SUFFICES ASSUME NEW q \in Restores, d.op[q].phase # "Complete"
                   PROVE  d2.commit[q].state = d.commit[q].state
        BY <1>5 DEF Own, SameRows
      <3>1. d.commit[q].state = "Absent" /\ q \in Commits
        BY <1>6, OverIsComplete
      <3>2. q # c
        BY <3>1 DEF Retiring
      <3> QED BY <1>5, <3>1, <3>2
    <2> QED BY <1>5, <2>1 DEF Kept, SameRows
  <1>11. FiniteRows(d2) /\ ViewOK(d2) /\ d2 \in Stores
    BY <1>5 DEF StoreOK, FiniteRows, ViewOK, SameRows
  <1>12. RefsOK(d2)
    BY <1>5, RefsSame DEF StoreOK, SameRows
  <1>13. \A o \in Commits : d2.commit[o].state = "Sealed" => d.commit[o].state = "Sealed"
    BY <1>3, <1>5 DEF Retiring
  <1>14. StoreOK(d2)
    BY <1>9, <1>10, <1>11, <1>12, <1>13, StepKeeps
  <1> QED BY <1>5, <1>14 DEF SameRows

LEMMA RetirementStep ==
    ASSUME plan \in Plans, StoreOK(db), WorkerOK(worker), BeginRetirement
    PROVE  StoreOK(db') /\ db'.op = db.op
  <1>1. PICK c, d2 : c = worker.item /\ d2 = db'
    OBVIOUS
  <1>2. c \in Commits
    BY <1>1 DEF WorkerOK, BeginRetirement
  <1>3. CASE Retirable(c)
    <2>1. /\ d2 = [db EXCEPT !.commit[c].state = "Claiming"]
          /\ db.commit[c].state = "Sealed" /\ db.commit[c].count = 0
      BY <1>1, <1>3 DEF BeginRetirement, Retirable
    <2>2. db.consumer[c] = {}
      BY <1>2, <2>1, FS_EmptySet DEF StoreOK, PinsOK, ConsumersOK
    <2>3. StateSet(db, d2, c, "Claiming") /\ <<db.commit[c].state, "Claiming">> \in Retiring
      BY <2>1 DEF StateSet, Retiring
    <2> QED BY <1>1, <1>2, <2>2, <2>3, CommitStateStep
  <1>4. CASE ~Retirable(c)
    BY <1>1, <1>4 DEF BeginRetirement
  <1> QED BY <1>3, <1>4

\* A commit that is being released loses references and members.
RefsReleased(d, d2, c, S) ==
    d2 = [d EXCEPT !.ref[c] = @ \ S, !.rev = Count(@, CommitRefs(S), -1)]
MembersReleased(d, d2, c, S) == d2 = [d EXCEPT !.member[c] = @ \ S]

LEMMA ReleaseRefsStep ==
    ASSUME plan \in Plans, NEW d, StoreOK(d), NEW c \in Commits, d.commit[c].state = "Releasing",
           NEW S, S \subseteq d.ref[c], NEW d2, RefsReleased(d, d2, c, S)
    PROVE  StoreOK(d2) /\ d2.op = d.op
  <1>1. /\ d \in Stores /\ RefsOK(d) /\ FiniteRows(d) /\ PinsOK(d) /\ ViewOK(d)
        /\ d.ref \in [Commits -> SUBSET Revisions] /\ d.rev \in [Revisions -> RevRows]
    BY DEF StoreOK, Stores
  <1>2. PICK rev : rev = Count(d.rev, CommitRefs(S), -1)
    OBVIOUS
  <1>3. IsFiniteSet(S) /\ IsFiniteSet(d.ref[c] \ S)
    BY <1>1, SubsetTaken DEF FiniteRows
  <1>4. rev \in [Revisions -> RevRows]
    BY <1>1, <1>2, <1>3, CommitRefsFinite, CountDown
  <1>5. d2 = [d EXCEPT !.ref[c] = d.ref[c] \ S, !.rev = rev]
    BY <1>1, <1>2 DEF Stores, RefsReleased
  <1>6. /\ d2.ref = [d.ref EXCEPT ![c] = d.ref[c] \ S] /\ d2.rev = rev
        /\ d2.op = d.op /\ d2.ws = d.ws /\ d2.pub = d.pub /\ d2.entry = d.entry
        /\ d2.ledger = d.ledger /\ d2.member = d.member /\ d2.commit = d.commit
        /\ d2.consumer = d.consumer /\ d2.snapshot = d.snapshot /\ d2.hold = d.hold
    BY <1>1, <1>5 DEF Stores
  <1>7. d2.ref \in [Commits -> SUBSET Revisions] /\ Shrunk(d.ref, d2.ref, c, S)
    BY <1>1, <1>6 DEF Shrunk
  <1>8. d2 \in Stores
    BY <1>1, <1>4, <1>5, <1>6, <1>7 DEF Stores
  <1> HIDE <1>5
  <1>9. RefsOK(d2) /\ Recounted(d, d2)
    BY <1>1, <1>2, <1>3, <1>6, <1>7, RefsLessRefs
  <1>10. FiniteRows(d2)
    BY <1>1, <1>3, <1>6 DEF FiniteRows
  <1>11. ViewOK(d2)
    <2>1. \A x \in plan.view : x[2] \in Revisions
      BY PlanFacts DEF RowSet
    <2> QED BY <1>1, <1>6, <1>9, <2>1 DEF ViewOK, Recounted, Available
  <1>12. PinsOK(d2)
    <2>1. \A q \in Restores : Live(d2, q) <=> Live(d, q)
      BY <1>6 DEF Live
    <2> QED BY <1>1, <1>6, <2>1, PinsSame
  <1>13. Kept(d, d2, {})
    <2>1. \A q \in Restores : Own(d, d2, q)
      <3>1. \A q \in Restores : q = c => d.op[q].phase = "Complete"
        BY OverIsComplete
      <3>2. Restores \subseteq Commits
        BY PlanFacts
      <3> QED BY <1>1, <1>6, <3>1, <3>2 DEF Own
    <2>2. \A q \in Restores, m \in Manifests :
             d.rev[<<q, m>>] = NoRevision => d2.rev[<<q, m>>] = NoRevision
      <3>1. \A q \in Restores, m \in Manifests : <<q, m>> \in Revisions
        BY PlanFacts
      <3> QED BY <1>9, <3>1 DEF Recounted, NoRevision
    <2>3. \A o \in Commits : d.commit[o].state = "Sealed" =>
             d2.member[o] = d.member[o] /\ d2.ref[o] = d.ref[o]
      BY <1>1, <1>6
    <2> QED BY <1>6, <2>1, <2>2, <2>3 DEF Kept
  <1>14. StoreOK(d2)
    BY <1>6, <1>8, <1>9, <1>10, <1>11, <1>12, <1>13, StepKeeps
  <1> QED BY <1>6, <1>14

LEMMA ReleaseMembersStep ==
    ASSUME plan \in Plans, NEW d, StoreOK(d), NEW c \in Commits, d.commit[c].state = "Releasing",
           NEW S, NEW d2, MembersReleased(d, d2, c, S)
    PROVE  StoreOK(d2) /\ d2.op = d.op
  <1>1. /\ d \in Stores /\ RefsOK(d) /\ FiniteRows(d) /\ PinsOK(d) /\ ViewOK(d)
        /\ d.member \in [Commits -> SUBSET RowSet]
    BY DEF StoreOK, Stores
  <1>2. /\ d2.member = [d.member EXCEPT ![c] = d.member[c] \ S] /\ d2.rev = d.rev
        /\ d2.op = d.op /\ d2.ws = d.ws /\ d2.pub = d.pub /\ d2.entry = d.entry
        /\ d2.ledger = d.ledger /\ d2.ref = d.ref /\ d2.commit = d.commit
        /\ d2.consumer = d.consumer /\ d2.snapshot = d.snapshot /\ d2.hold = d.hold
        /\ d2 \in Stores
    BY <1>1 DEF Stores, MembersReleased
  <1>3. IsFiniteSet(d.member[c] \ S)
    BY <1>1, FS_Difference DEF FiniteRows
  <1>4. FiniteRows(d2) /\ ViewOK(d2) /\ RefsOK(d2)
    <2>1. FiniteRows(d2)
      BY <1>1, <1>2, <1>3 DEF FiniteRows
    <2>2. ViewOK(d2)
      BY <1>1, <1>2 DEF ViewOK
    <2>3. RefsOK(d2)
      BY <1>1, <1>2, RefsSame
    <2> QED BY <2>1, <2>2, <2>3
  <1>5. PinsOK(d2)
    <2>1. \A q \in Restores : Live(d2, q) <=> Live(d, q)
      BY <1>2 DEF Live
    <2> QED BY <1>1, <1>2, <2>1, PinsSame
  <1>6. Kept(d, d2, {})
    <2>1. \A q \in Restores : Own(d, d2, q)
      <3>1. \A q \in Restores : q = c => d.op[q].phase = "Complete"
        BY OverIsComplete
      <3>2. Restores \subseteq Commits
        BY PlanFacts
      <3> QED BY <1>1, <1>2, <3>1, <3>2 DEF Own
    <2>2. \A o \in Commits : d.commit[o].state = "Sealed" =>
             d2.member[o] = d.member[o] /\ d2.ref[o] = d.ref[o]
      BY <1>1, <1>2
    <2> QED BY <1>2, <2>1, <2>2 DEF Kept
  <1>7. StoreOK(d2)
    BY <1>2, <1>4, <1>5, <1>6, StepKeeps
  <1> QED BY <1>2, <1>7

LEMMA ReleaseParentStep ==
    ASSUME plan \in Plans, NEW d, StoreOK(d), NEW c \in Restores, d.commit[c].state = "Releasing",
           Child(c) \in d.consumer[Source(c)], NEW d2, d2 = RemoveConsumer(d, Source(c), Child(c))
    PROVE  StoreOK(d2) /\ d2.op = d.op
  <1>2. d \in Stores /\ ConsumersOK(d) /\ SnapshotOK(d) /\ Restores \subseteq Commits
        /\ Base \in Commits /\ \A q \in Restores : Source(q) \in Commits /\ PinOK(d, q)
    BY PlanFacts DEF StoreOK, PinsOK
  <1>3. PICK p \in Commits : p = Source(c)
    BY <1>2
  <1>4. /\ SameRows(d, d2) /\ d2.snapshot = d.snapshot /\ d2.hold = d.hold
        /\ Unpinned(d, d2, p, Child(c))
    BY <1>2, <1>3, RemoveFields
  <1>5. ConsumersOK(d2)
    BY <1>2, <1>3, <1>4, UnpinnedCounts
  <1>6. \A o \in Commits : \A x : x # Child(c) => (x \in d2.consumer[o] <=> x \in d.consumer[o])
    BY <1>4 DEF Unpinned, Shrunk
  <1>7. SnapshotOK(d2)
    <2>1. SnapshotConsumer # Child(c)
      BY DEF SnapshotConsumer, Child
    <2> QED BY <1>2, <1>4, <1>6, <2>1 DEF SnapshotOK
  <1>8. ASSUME NEW q \in Restores PROVE PinOK(d2, q)
    <2>1. Lease(q) # Child(c) /\ q \in Commits /\ (Live(d2, q) <=> Live(d, q)) /\ PinOK(d, q)
      BY <1>2, <1>4 DEF Lease, Child, Live, SameRows
    <2>2. Lease(q) \in d2.consumer[Source(q)] <=> Lease(q) \in d.consumer[Source(q)]
      BY <1>2, <1>6, <2>1
    <2>3. d2.commit[q].state = d.commit[q].state
      BY <1>4, <2>1 DEF Unpinned
    <2>4. CASE q = c
      BY <1>4, <2>1, <2>2, <2>3, <2>4 DEF PinOK
    <2>5. CASE q # c
      <3>1. Child(q) # Child(c)
        BY <2>5 DEF Child
      <3>2. Child(q) \in d2.consumer[Source(q)] <=> Child(q) \in d.consumer[Source(q)]
        BY <1>2, <1>6, <3>1
      <3> QED BY <1>4, <2>1, <2>2, <2>3, <3>2 DEF PinOK
    <2> QED BY <2>4, <2>5
  <1>9. PinsOK(d2)
    BY <1>5, <1>7, <1>8 DEF PinsOK
  <1>10. d2.hold \subseteq d.hold /\ \A o \in Commits : d2.commit[o].state = d.commit[o].state
    BY <1>4 DEF Unpinned
  <1> QED BY <1>4, <1>9, <1>10, PinsStep DEF SameRows

LEMMA ReleaseSteps ==
    ASSUME plan \in Plans, StoreOK(db), NEW c \in Commits, ReleaseRetired(c)
    PROVE  StoreOK(db') /\ db'.op = db.op
  <1>1. PICK d2 : d2 = db'
    OBVIOUS
  <1>2. db.commit[c].state \in {"Claiming", "Releasing"} => db.consumer[c] = {}
    BY DEF StoreOK, PinsOK, ConsumersOK
  <1>3. CASE /\ db.commit[c].state = "Claiming"
             /\ d2 = [db EXCEPT !.commit[c].state = "Releasing"]
    <2>1. StateSet(db, d2, c, "Releasing") /\ <<db.commit[c].state, "Releasing">> \in Retiring
      BY <1>3 DEF StateSet, Retiring
    <2> QED BY <1>1, <1>2, <1>3, <2>1, CommitStateStep
  <1>4. CASE db.commit[c].state = "Releasing" /\ \E S \in SUBSET db.ref[c] :
                d2 = [db EXCEPT !.ref[c] = @ \ S, !.rev = Count(@, CommitRefs(S), -1)]
    <2>1. PICK S \in SUBSET db.ref[c] : RefsReleased(db, d2, c, S)
      BY <1>4 DEF RefsReleased
    <2> QED BY <1>1, <1>4, <2>1, ReleaseRefsStep
  <1>5. CASE /\ db.commit[c].state = "Releasing" /\ HoldsParent(c)
             /\ d2 = RemoveConsumer(db, Source(c), Child(c))
    <2>1. c \in Restores /\ Child(c) \in db.consumer[Source(c)]
      BY <1>5, PlanFacts DEF HoldsParent
    <2> QED BY <1>1, <1>5, <2>1, ReleaseParentStep
  <1>6. CASE db.commit[c].state = "Releasing" /\ \E S \in Pages(db.member[c]) :
                d2 = [db EXCEPT !.member[c] = @ \ S]
    <2>1. PICK S \in Pages(db.member[c]) : MembersReleased(db, d2, c, S)
      BY <1>6 DEF MembersReleased
    <2> QED BY <1>1, <1>6, <2>1, ReleaseMembersStep
  <1>7. CASE /\ db.commit[c].state = "Releasing"
             /\ d2 = [db EXCEPT !.commit[c].state = "Retired"]
    <2>1. StateSet(db, d2, c, "Retired") /\ <<db.commit[c].state, "Retired">> \in Retiring
      BY <1>7 DEF StateSet, Retiring
    <2> QED BY <1>1, <1>2, <1>7, <2>1, CommitStateStep
  <1> QED BY <1>1, <1>3, <1>4, <1>5, <1>6, <1>7 DEF ReleaseRetired, Rows

-----------------------------------------------------------------------------
(* Paths, references and members of one restore.                           *)

\* Only rows of r, and counts, change.
RowsOnly(d, d2, r) ==
    /\ d2 \in Stores
    /\ \A q \in Restores : q # r =>
          d2.op[q] = d.op[q] /\ d2.pub[q] = d.pub[q] /\ d2.ledger[q] = d.ledger[q]
    /\ \A c \in Commits : c # r =>
          d2.entry[c] = d.entry[c] /\ d2.member[c] = d.member[c] /\ d2.ref[c] = d.ref[c]
    /\ d2.ws = d.ws /\ d2.commit = d.commit /\ d2.consumer = d.consumer
    /\ d2.snapshot = d.snapshot /\ d2.hold = d.hold

\* What can be read stays so, and what is unknown, unless it is a manifest of r.
RevKept(d, d2, r) ==
    \A v \in Revisions :
        /\ d.rev[v].state = "Available" => d2.rev[v].state = "Available"
        /\ d.rev[v] = NoRevision /\ v \notin {r} \X Manifests => d2.rev[v] = NoRevision

FiniteOwn(d, r) ==
    IsFiniteSet(d.entry[r]) /\ IsFiniteSet(d.member[r]) /\ IsFiniteSet(d.ref[r])
    /\ IsFiniteSet(d.ledger[r])

LEMMA RecountedKept ==
    ASSUME NEW d, NEW d2, Recounted(d, d2), NEW r
    PROVE  RevKept(d, d2, r)
  BY DEF Recounted, RevKept, NoRevision

LEMMA RecountedFresh ==
    ASSUME plan \in Plans, NEW d, NEW d2, NEW r \in Restores, FreshOK(d, r), Recounted(d, d2),
           d2.pub[r] = d.pub[r]
    PROVE  FreshOK(d2, r)
  <1>1. \A m \in Manifests : <<r, m>> \in Revisions
    BY PlanFacts
  <1> QED BY <1>1 DEF FreshOK, Recounted

LEMMA RowsStep ==
    ASSUME plan \in Plans, NEW d, NEW d2, NEW r \in Restores, StoreOK(d), RowsOnly(d, d2, r),
           d.op[r].phase # "Complete", Live(d2, r) <=> Live(d, r), FiniteOwn(d2, r),
           RefsOK(d2), RevKept(d, d2, r), Shape(d2, r), LedgerOK(d2, r), FreshOK(d2, r)
    PROVE  StoreOK(d2)
  <1>1. d.commit[r].state = "Absent" /\ Restores \subseteq Commits
    BY OverIsComplete, PlanFacts
  <1>2. Kept(d, d2, {r})
    <2>1. \A q \in Restores : q # r => Own(d, d2, q) /\ d2.ws[plan.name[q]] = d.ws[plan.name[q]]
      BY <1>1 DEF Own, RowsOnly
    <2>2. \A q \in Restores : q # r => \A m \in Manifests :
             d.rev[<<q, m>>] = NoRevision => d2.rev[<<q, m>>] = NoRevision
      <3>1. \A q \in Restores, m \in Manifests : <<q, m>> \in Revisions
        BY PlanFacts
      <3>2. \A q \in Restores, m \in Manifests : q # r => <<q, m>> \notin {r} \X Manifests
        OBVIOUS
      <3> QED BY <3>1, <3>2 DEF RevKept
    <2>3. \A c \in Commits : d.commit[c].state = "Sealed" =>
             d2.member[c] = d.member[c] /\ d2.ref[c] = d.ref[c]
      BY <1>1 DEF RowsOnly
    <2> QED BY <2>1, <2>2, <2>3 DEF Kept
  <1>3. FiniteRows(d2)
    BY <1>1 DEF StoreOK, FiniteRows, FiniteOwn, RowsOnly
  <1>4. ViewOK(d2)
    <2>1. \A x \in plan.view : x[2] \in Revisions
      BY PlanFacts DEF RowSet
    <2> QED BY <2>1 DEF StoreOK, ViewOK, Available, RevKept, RowsOnly
  <1>5. PinsOK(d2)
    <2>1. \A q \in Restores : Live(d2, q) <=> Live(d, q)
      BY DEF Live, RowsOnly
    <2> QED BY <2>1, PinsSame DEF StoreOK, RowsOnly
  <1>6. NameOK(d2, r)
    BY DEF StoreOK, NameOK, RowsOnly
  <1>7. \A q \in Restores : q \in {r} => RestoreOK(d2, q)
    BY <1>6 DEF RestoreOK
  <1>8. \A c \in Commits : d2.commit[c].state = "Sealed" /\ d.commit[c].state # "Sealed"
           => CommitOK(d2, c)
    BY DEF RowsOnly
  <1>9. d2 \in Stores
    BY DEF RowsOnly
  <1> QED BY <1>2, <1>3, <1>4, <1>5, <1>7, <1>8, <1>9, StepKeeps

\* The source can be read page by page.
LEMMA SourceFacts ==
    ASSUME plan \in Plans, StoreOK(db), NEW r \in Restores
    PROVE  SourceRows(r) = RowsOf(db, r) /\ SourceRows(r) \subseteq RowSet /\ IsFiniteSet(SourceRows(r))
  <1>1. Source(r) \in Commits /\ plan.view \subseteq RowSet /\ IsFiniteSet(plan.view)
    BY PlanFacts
  <1>2. db.member[Source(r)] \subseteq RowSet /\ IsFiniteSet(db.member[Source(r)])
    BY <1>1 DEF StoreOK, Stores, FiniteRows
  <1> QED BY <1>1, <1>2 DEF SourceRows, RowsOf

\* Some state of the restore's record and rows after a page is copied.
CopiedTo(d, d2, r, o, E, L, V) ==
    d2 = [d EXCEPT !.op[r] = o, !.entry[r] = E, !.ledger[r] = L, !.rev = V]

CopiedRows(d, d2, r, o, E, L, V) ==
    /\ RowsOnly(d, d2, r) /\ d2.op[r] = o /\ d2.pub = d.pub /\ d2.entry[r] = E
    /\ d2.ledger[r] = L /\ d2.member = d.member /\ d2.ref = d.ref /\ d2.rev = V
    /\ \A c \in Commits : c # r => d2.entry[c] = d.entry[c]

LEMMA CopiedFields ==
    ASSUME plan \in Plans, NEW d \in Stores, NEW r \in Restores, NEW o \in OpRows, NEW E, NEW L,
           E \subseteq RowSet, L \subseteq RowSet, NEW V \in [Revisions -> RevRows], NEW d2,
           CopiedTo(d, d2, r, o, E, L, V)
    PROVE  CopiedRows(d, d2, r, o, E, L, V)
  <1>1. r \in Commits
    BY PlanFacts
  <1>2. /\ d2.op = [d.op EXCEPT ![r] = o] /\ d2.entry = [d.entry EXCEPT ![r] = E]
        /\ d2.ledger = [d.ledger EXCEPT ![r] = L] /\ d2.rev = V
        /\ d2.ws = d.ws /\ d2.pub = d.pub /\ d2.member = d.member /\ d2.ref = d.ref
        /\ d2.commit = d.commit /\ d2.consumer = d.consumer
        /\ d2.snapshot = d.snapshot /\ d2.hold = d.hold
    BY DEF CopiedTo, Stores
  <1>3. /\ d.op \in [Restores -> OpRows] /\ d.entry \in [Commits -> SUBSET RowSet]
        /\ d.ledger \in [Restores -> SUBSET RowSet]
    BY DEF Stores
  <1>4. /\ d2.op \in [Restores -> OpRows] /\ d2.entry \in [Commits -> SUBSET RowSet]
        /\ d2.ledger \in [Restores -> SUBSET RowSet]
    BY <1>1, <1>2, <1>3
  <1>5. d2 \in Stores
    BY <1>2, <1>4 DEF CopiedTo, Stores
  <1>6. RowsOnly(d, d2, r)
    BY <1>1, <1>2, <1>3, <1>5 DEF RowsOnly
  <1> QED BY <1>1, <1>2, <1>3, <1>6 DEF CopiedRows

LEMMA CopyStep ==
    ASSUME plan \in Plans, StoreOK(db), NEW r \in Restores, CopyBatch(r)
    PROVE  StoreOK(db')
  <1>1. PICK d2 : d2 = db'
    OBVIOUS
  <1>2. PICK S \in Pages(Admitted(Beyond(SourceRows(r), db.op[r].cursor))) :
           Available(db.rev, Materialized(S)) /\ d2 = Copied(r, S)
    BY <1>1 DEF CopyBatch, Rows
  <1>3. /\ db \in Stores /\ db.op[r] \in OpRows /\ db.op[r].phase = "Copying" /\ r \in Commits
        /\ Shape(db, r) /\ FreshOK(db, r) /\ RefsOK(db) /\ FiniteRows(db)
        /\ db.rev \in [Revisions -> RevRows]
        /\ db.entry[r] \subseteq RowSet /\ db.ledger[r] \subseteq RowSet
    BY PlanFacts DEF StoreOK, Stores, CopyBatch
  <1>4. /\ S \subseteq SourceRows(r) /\ S \subseteq RowSet /\ IsFiniteSet(S)
        /\ \A x \in S : x[1] > db.op[r].cursor /\ x[1] \in Nat
    <2>1. S \subseteq SourceRows(r) /\ \A x \in S : x[1] > db.op[r].cursor
      BY <1>2 DEF Pages, Admitted, Beyond
    <2>2. S \subseteq RowSet /\ IsFiniteSet(S)
      BY <2>1, SourceFacts, FS_Subset
    <2> QED BY <2>1, <2>2 DEF RowSet
  <1>5. PICK rows : rows = Materialized(S)
    OBVIOUS
  <1>6. rows \subseteq S /\ rows \subseteq RowSet /\ IsFiniteSet(rows)
    BY <1>4, <1>5, FS_Subset DEF Materialized
  <1>7. PICK k \in Nat : /\ k = Last(S, db.op[r].cursor) /\ k >= db.op[r].cursor
                         /\ \A x \in S : x[1] <= k
    <2>1. db.op[r].cursor \in Nat
      BY <1>3 DEF OpRows
    <2>2. /\ Last(S, db.op[r].cursor) \in Nat
          /\ S = {} => Last(S, db.op[r].cursor) = db.op[r].cursor
          /\ \A x \in S : x[1] <= Last(S, db.op[r].cursor)
          /\ S # {} => \E x \in S : x[1] = Last(S, db.op[r].cursor)
      BY <1>4, <2>1, LastFacts
    <2> QED BY <1>4, <2>1, <2>2
  <1>8. PICK n \in Int : n = db.op[r].copied + Cardinality(rows)
    <2>1. db.op[r].copied \in Int
      BY <1>3 DEF OpRows
    <2>2. Cardinality(rows) \in Nat
      BY <1>6, FS_CardinalityType
    <2>3. db.op[r].copied + Cardinality(rows) \in Int
      BY <2>1, <2>2
    <2> QED BY <2>3
  <1>9. PICK e \in BOOLEAN : e = (S = Beyond(SourceRows(r), db.op[r].cursor))
    OBVIOUS
  <1>10. PICK V : V = Count(db.rev, rows, 1)
    OBVIOUS
  <1>11. PICK o : o = [db.op[r] EXCEPT !.cursor = k, !.copied = n, !.eof = e]
    OBVIOUS
  <1>11a. PICK E, L : E = db.entry[r] \cup rows /\ L = db.ledger[r] \cup rows
    OBVIOUS
  <1>12. /\ o \in OpRows /\ o.phase = "Copying" /\ o.cursor = k
         /\ o.bound = db.op[r].bound /\ o.members = db.op[r].members /\ o.refs = db.op[r].refs
         /\ o.memberCursor = db.op[r].memberCursor
    BY <1>3, <1>11 DEF OpRows
  <1>13. CopiedTo(db, d2, r, o, E, L, V)
    <2>1. PICK a : a = [db.op[r] EXCEPT !.cursor = Last(S, db.op[r].cursor),
                          !.copied = db.op[r].copied + Cardinality(rows),
                          !.eof = (S = Beyond(SourceRows(r), db.op[r].cursor))]
      OBVIOUS
    <2>2. d2 = [db EXCEPT !.op[r] = a, !.entry[r] = @ \cup rows, !.ledger[r] = @ \cup rows,
                          !.rev = Count(@, rows, 1)]
      BY <1>2, <1>3, <1>5, <2>1 DEF Copied, Stores
    <2>3. a = o
      BY <1>3, <1>7, <1>8, <1>9, <1>11, <2>1 DEF OpRows
    <2> HIDE <2>1
    <2>4. d2 = [db EXCEPT !.op[r] = a, !.entry[r] = E, !.ledger[r] = L, !.rev = V]
      BY <1>3, <1>10, <1>11a, <2>2 DEF Stores
    <2> QED BY <2>3, <2>4 DEF CopiedTo
  <1>14. V \in [Revisions -> RevRows]
    BY <1>3, <1>6, <1>10, CountUp
  <1>15. /\ RowsOnly(db, d2, r) /\ d2.op[r] = o /\ d2.pub = db.pub
         /\ d2.entry[r] = db.entry[r] \cup rows /\ d2.ledger[r] = db.ledger[r] \cup rows
         /\ d2.member = db.member /\ d2.ref = db.ref /\ d2.rev = V
         /\ \A c \in Commits : c # r => d2.entry[c] = db.entry[c]
    <2>1. E \subseteq RowSet /\ L \subseteq RowSet
      BY <1>3, <1>6, <1>11a
    <2>2. CopiedRows(db, d2, r, o, E, L, V)
      BY <1>3, <1>12, <1>13, <1>14, <2>1, CopiedFields
    <2> QED BY <1>11a, <2>2 DEF CopiedRows
  <1>16. /\ ~db.op[r].bound /\ db.entry[r] = db.ledger[r]
         /\ \A x \in db.ledger[r] : x[1] <= db.op[r].cursor
    BY <1>3 DEF Shape, Early
  <1>17. db.op[r].cursor \in Nat /\ k \in Nat /\ k >= db.op[r].cursor /\ \A x \in S : x[1] <= k
    BY <1>3, <1>7 DEF OpRows
  <1>18. \A x \in RowSet : x[1] \in Nat
    BY DEF RowSet
  <1>19. rows \cap db.entry[r] = {}
    BY <1>3, <1>4, <1>6, <1>16, <1>17, <1>18
  <1>20. RefsOK(d2) /\ Recounted(db, d2)
    <2>1. Grown(db.entry, d2.entry, r, rows)
      BY <1>15 DEF Grown
    <2>2. Available(db.rev, rows)
      BY <1>2, <1>5
    <2> QED BY <1>3, <1>6, <1>10, <1>15, <1>19, <2>1, <2>2, RefsMoreRows
  <1>21. FiniteOwn(d2, r)
    <2>1. /\ IsFiniteSet(db.entry[r]) /\ IsFiniteSet(db.ledger[r])
          /\ IsFiniteSet(db.member[r]) /\ IsFiniteSet(db.ref[r])
      BY <1>3 DEF FiniteRows
    <2>2. IsFiniteSet(db.entry[r] \cup rows) /\ IsFiniteSet(db.ledger[r] \cup rows)
      BY <1>6, <2>1, FS_Union
    <2> QED BY <1>15, <2>1, <2>2 DEF FiniteOwn
  <1>22. Live(d2, r) /\ Live(db, r) /\ LedgerOK(d2, r)
    BY <1>3, <1>12, <1>15 DEF Live, LedgerOK, Building
  <1>23. Shape(d2, r)
    <2>1. \A x \in d2.ledger[r] : x[1] <= k
      BY <1>3, <1>6, <1>15, <1>16, <1>17, <1>18
    <2>2. /\ d2.member[r] = {} /\ d2.ref[r] = {} /\ o.members = 0 /\ o.refs = 0
          /\ o.memberCursor = 0 /\ d2.commit[r].state = "Absent" /\ ~o.bound
          /\ \A m \in Manifests : d2.pub[r][m].phase = "None"
      BY <1>3, <1>12, <1>15, <1>16 DEF Shape, Early, RowsOnly
    <2>3. d2.entry[r] = d2.ledger[r]
      BY <1>15, <1>16
    <2> QED BY <1>12, <1>15, <2>1, <2>2, <2>3 DEF Shape, Early, Building
  <1>24. FreshOK(d2, r) /\ RevKept(db, d2, r)
    BY <1>3, <1>15, <1>20, RecountedFresh, RecountedKept
  <1>25. StoreOK(d2)
    BY <1>3, <1>15, <1>20, <1>21, <1>22, <1>23, <1>24, RowsStep
  <1> QED BY <1>1, <1>25

LEMMA PublishStep ==
    ASSUME plan \in Plans, StoreOK(db), NEW r \in Restores, NEW m \in Manifests,
           PublishManifest(r, m)
    PROVE  StoreOK(db') /\ db'.op = db.op
  <1>1. PICK d2 : d2 = db'
    OBVIOUS
  <1>2. PICK v0, x0, row : /\ v0 = <<r, m>> /\ x0 = <<m, v0>>
                           /\ row = [state |-> "Available", count |-> 1]
    OBVIOUS
  <1>3. /\ d2 = [db EXCEPT !.pub[r][m].phase = "Published", !.entry[r] = @ \cup {x0}, !.rev[v0] = row]
        /\ db.op[r].phase = "SourceSealed" /\ db.op[r].bound /\ db.pub[r][m].phase = "Uploading"
    BY <1>1, <1>2 DEF PublishManifest, Rows, Forward
  <1>4. /\ db \in Stores /\ r \in Commits /\ v0 \in Revisions /\ x0 \in RowSet /\ row \in RevRows
        /\ Shape(db, r) /\ FreshOK(db, r) /\ LedgerOK(db, r) /\ RefsOK(db) /\ FiniteRows(db)
        /\ db.rev \in [Revisions -> RevRows] /\ db.entry \in [Commits -> SUBSET RowSet]
        /\ db.pub \in [Restores -> [Manifests -> PubRows]] /\ db.pub[r][m] \in PubRows
        /\ db.pub[r] \in [Manifests -> PubRows]
    BY <1>2, PlanFacts DEF StoreOK, Stores, RevRows
  <1>5. PICK p : p = [db.pub[r][m] EXCEPT !.phase = "Published"]
    OBVIOUS
  <1>6. p \in PubRows /\ p.phase = "Published"
    BY <1>4, <1>5 DEF PubRows
  <1>7. /\ d2.pub = [db.pub EXCEPT ![r] = [db.pub[r] EXCEPT ![m] = p]]
        /\ d2.entry = [db.entry EXCEPT ![r] = db.entry[r] \cup {x0}]
        /\ d2.rev = [db.rev EXCEPT ![v0] = row]
        /\ d2.op = db.op /\ d2.ledger = db.ledger /\ d2.member = db.member /\ d2.ref = db.ref
        /\ d2.ws = db.ws /\ d2.commit = db.commit /\ d2.consumer = db.consumer
        /\ d2.snapshot = db.snapshot /\ d2.hold = db.hold
    BY <1>3, <1>4, <1>5 DEF Stores
  <1>8. /\ d2.pub \in [Restores -> [Manifests -> PubRows]]
        /\ d2.entry \in [Commits -> SUBSET RowSet]
        /\ d2.rev \in [Revisions -> RevRows]
    BY <1>4, <1>6, <1>7
  <1>9. d2 \in Stores
    BY <1>3, <1>4, <1>7, <1>8 DEF Stores
  <1> HIDE <1>3, <1>5
  <1>10. RowsOnly(db, d2, r)
    BY <1>4, <1>7, <1>9 DEF RowsOnly
  <1>11. db.rev[v0] = NoRevision
    BY <1>2, <1>3, <1>4 DEF FreshOK, NoRevision
  <1>12. x0 \notin db.entry[r] /\ x0[2] = v0
    <2>1. x0[2] = v0
      BY <1>2
    <2> QED BY <1>4, <1>11, <2>1, ReferencedAvailable DEF NoRevision
  <1>13. Grown(db.entry, d2.entry, r, {x0})
    BY <1>4, <1>7 DEF Grown
  <1>14. RefsOK(d2)
    <2> SUFFICES ASSUME NEW v \in Revisions PROVE CountedRev(d2, v)
      BY DEF RefsOK
    <2>1. CountedRev(db, v)
      BY <1>4 DEF RefsOK
    <2>2. IsFiniteSet({x0}) /\ {x0} \cap db.entry[r] = {}
      BY <1>12, FS_Singleton
    <2>3. /\ IsFiniteSet(PathRefs(d2.entry, v))
          /\ Cardinality(PathRefs(d2.entry, v))
               = Cardinality(PathRefs(db.entry, v)) + Cardinality(Naming({x0}, v))
      BY <1>4, <1>13, <2>1, <2>2, PathsJoin DEF CountedRev
    <2>4. /\ Cardinality(PathRefs(db.entry, v)) \in Nat
          /\ Cardinality(Referrers(db.ref, v)) \in Nat
      BY <2>1, FS_CardinalityType DEF CountedRev
    <2>5. CASE v = v0
      <3>1. Naming({x0}, v) = {x0}
        BY <1>12, <2>5 DEF Naming
      <3>2. Cardinality(Naming({x0}, v)) = 1
        BY <3>1, FS_Singleton
      <3>3. Cardinality(PathRefs(db.entry, v)) = 0 /\ Cardinality(Referrers(db.ref, v)) = 0
        BY <1>11, <2>1, <2>4, <2>5 DEF CountedRev, NoRevision
      <3>4. d2.rev[v].state = "Available" /\ d2.rev[v].count = 1
        BY <1>2, <1>4, <1>7, <2>5
      <3> QED BY <1>7, <2>1, <2>3, <3>2, <3>3, <3>4 DEF CountedRev
    <2>6. CASE v # v0
      <3>1. Naming({x0}, v) = {}
        BY <1>12, <2>6 DEF Naming
      <3>2. Cardinality(Naming({x0}, v)) = 0
        BY <3>1, FS_EmptySet
      <3>3. d2.rev[v] = db.rev[v]
        BY <1>4, <1>7, <2>6
      <3>4. Cardinality(PathRefs(d2.entry, v)) = Cardinality(PathRefs(db.entry, v))
        BY <2>3, <2>4, <3>2
      <3>5. Referrers(d2.ref, v) = Referrers(db.ref, v)
        BY <1>7
      <3> QED BY <2>1, <2>3, <3>3, <3>4, <3>5 DEF CountedRev
    <2> QED BY <2>5, <2>6
  <1>15. FiniteOwn(d2, r)
    <2>1. IsFiniteSet(db.entry[r] \cup {x0})
      BY <1>4, FS_AddElement DEF FiniteRows
    <2>2. d2.entry[r] = db.entry[r] \cup {x0}
      BY <1>4, <1>7
    <2> QED BY <1>4, <1>7, <2>1, <2>2 DEF FiniteOwn, FiniteRows
  <1>16. RevKept(db, d2, r)
    <2>1. v0 \in {r} \X Manifests
      BY <1>2
    <2>2. \A v \in Revisions : v # v0 => d2.rev[v] = db.rev[v]
      BY <1>4, <1>7
    <2>3. d2.rev[v0].state = "Available"
      BY <1>2, <1>4, <1>7
    <2> QED BY <2>1, <2>2, <2>3 DEF RevKept
  <1>17. Live(d2, r) <=> Live(db, r)
    BY <1>7 DEF Live
  <1>18. LedgerOK(d2, r)
    BY <1>4, <1>7 DEF LedgerOK, RowsOf
  <1>19. FreshOK(d2, r)
    <2>1. \A n \in Manifests : n # m => d2.pub[r][n] = db.pub[r][n] /\ d2.rev[<<r, n>>] = db.rev[<<r, n>>]
      <3>1. \A n \in Manifests : <<r, n>> \in Revisions
        BY PlanFacts
      <3>2. \A n \in Manifests : n # m => <<r, n>> # v0
        BY <1>2
      <3> QED BY <1>4, <1>7, <3>1, <3>2
    <2>2. d2.pub[r][m].phase = "Published"
      BY <1>4, <1>6, <1>7
    <2> QED BY <1>4, <2>1, <2>2 DEF FreshOK
  <1>20. Shape(d2, r)
    <2>1. d2.entry[r] = db.entry[r] \cup {x0}
      BY <1>4, <1>7
    <2>2. x0 \in ManifestRows(r)
      BY <1>2 DEF ManifestRows
    <2>3. d2.op[r].phase = "SourceSealed" /\ d2.op[r].bound
      BY <1>3, <1>7
    <2> QED BY <1>4, <1>7, <2>1, <2>2, <2>3 DEF Shape, Early, Building
  <1>21. StoreOK(d2)
    <2>1. db.op[r].phase # "Complete"
      BY <1>3
    <2> QED BY <1>10, <1>14, <1>15, <1>16, <1>17, <1>18, <1>19, <1>20, <2>1, RowsStep
  <1> QED BY <1>1, <1>7, <1>21

\* A path of a visible workspace goes.
PathRemoved(d, d2, c, x) == d2 = [d EXCEPT !.entry[c] = @ \ {x}, !.rev = Count(@, {x}, -1)]

LEMMA RemoveStep ==
    ASSUME plan \in Plans, NEW d, StoreOK(d), NEW c \in Commits, NEW x \in d.entry[c], NEW d2,
           c # Base => d.op[c].phase = "Complete", PathRemoved(d, d2, c, x)
    PROVE  StoreOK(d2) /\ d2.op = d.op
  <1>1. /\ d \in Stores /\ RefsOK(d) /\ FiniteRows(d) /\ PinsOK(d) /\ ViewOK(d)
        /\ d.entry \in [Commits -> SUBSET RowSet] /\ d.rev \in [Revisions -> RevRows]
    BY DEF StoreOK, Stores
  <1>2. PICK rev : rev = Count(d.rev, {x}, -1)
    OBVIOUS
  <1>3. IsFiniteSet({x}) /\ IsFiniteSet(d.entry[c] \ {x})
    <2>1. PICK T : T = d.entry[c]
      OBVIOUS
    <2>2. IsFiniteSet(T)
      BY <1>1, <2>1 DEF FiniteRows
    <2>3. IsFiniteSet(T \ {x})
      BY <2>2, FS_RemoveElement
    <2>4. IsFiniteSet({x})
      BY FS_Singleton
    <2> QED BY <2>1, <2>3, <2>4
  <1>4. rev \in [Revisions -> RevRows]
    BY <1>1, <1>2, <1>3, CountDown
  <1>5. d2 = [d EXCEPT !.entry[c] = d.entry[c] \ {x}, !.rev = rev]
    BY <1>1, <1>2 DEF Stores, PathRemoved
  <1>6. /\ d2.entry = [d.entry EXCEPT ![c] = d.entry[c] \ {x}] /\ d2.rev = rev
        /\ d2.op = d.op /\ d2.ws = d.ws /\ d2.pub = d.pub /\ d2.ref = d.ref
        /\ d2.ledger = d.ledger /\ d2.member = d.member /\ d2.commit = d.commit
        /\ d2.consumer = d.consumer /\ d2.snapshot = d.snapshot /\ d2.hold = d.hold
    BY <1>1, <1>5 DEF Stores
  <1>7. d2.entry \in [Commits -> SUBSET RowSet] /\ Shrunk(d.entry, d2.entry, c, {x})
    BY <1>1, <1>6 DEF Shrunk
  <1>8. d2 \in Stores
    BY <1>1, <1>4, <1>5, <1>6, <1>7 DEF Stores
  <1> HIDE <1>5
  <1>9. RefsOK(d2) /\ Recounted(d, d2)
    <2>1. {x} \subseteq d.entry[c]
      OBVIOUS
    <2> QED BY <1>1, <1>2, <1>3, <1>6, <1>7, <2>1, RefsLessRows
  <1>10. FiniteRows(d2)
    BY <1>1, <1>3, <1>6 DEF FiniteRows
  <1>11. ViewOK(d2)
    <2>1. \A y \in plan.view : y[2] \in Revisions
      BY PlanFacts DEF RowSet
    <2> QED BY <1>1, <1>6, <1>9, <2>1 DEF ViewOK, Recounted, Available
  <1>12. PinsOK(d2)
    <2>1. \A q \in Restores : Live(d2, q) <=> Live(d, q)
      BY <1>6 DEF Live
    <2> QED BY <1>1, <1>6, <2>1, PinsSame
  <1>13. Kept(d, d2, {})
    <2>1. \A q \in Restores : Own(d, d2, q)
      <3>1. Restores \subseteq Commits /\ Base \notin Restores
        BY PlanFacts
      <3> QED BY <1>1, <1>6, <3>1 DEF Own
    <2>2. \A q \in Restores, n \in Manifests :
             d.rev[<<q, n>>] = NoRevision => d2.rev[<<q, n>>] = NoRevision
      <3>1. \A q \in Restores, n \in Manifests : <<q, n>> \in Revisions
        BY PlanFacts
      <3> QED BY <1>9, <3>1 DEF Recounted, NoRevision
    <2> QED BY <1>6, <2>1, <2>2 DEF Kept
  <1>14. StoreOK(d2)
    BY <1>6, <1>8, <1>9, <1>10, <1>11, <1>12, <1>13, StepKeeps
  <1> QED BY <1>6, <1>14

LEMMA RemovePathStep ==
    ASSUME plan \in Plans, StoreOK(db), NEW c \in Commits, RemovePath(c)
    PROVE  StoreOK(db') /\ db'.op = db.op
  <1>1. PICK d2 : d2 = db'
    OBVIOUS
  <1>2. PICK x \in Materialized(db.entry[c]) : PathRemoved(db, d2, c, x)
    BY <1>1 DEF RemovePath, Rows, PathRemoved
  <1>3. x \in db.entry[c] /\ (c # Base => db.op[c].phase = "Complete")
    BY <1>2 DEF Materialized, RemovePath
  <1> QED BY <1>1, <1>2, <1>3, RemoveStep

LEMMA CollectStep ==
    ASSUME plan \in Plans, StoreOK(db), NEW v \in Revisions, CollectRevision(v)
    PROVE  StoreOK(db') /\ db'.op = db.op
  <1>1. PICK d2 : d2 = db'
    OBVIOUS
  <1>2. /\ d2 = [db EXCEPT !.rev[v].state = "Collected"] /\ db.hold = {}
        /\ db.rev[v] = [state |-> "Available", count |-> 0]
    BY <1>1 DEF CollectRevision, Rows
  <1>3. PICK row : row = [db.rev[v] EXCEPT !.state = "Collected"]
    OBVIOUS
  <1>4. row \in RevRows /\ row.state = "Collected" /\ row.count = 0
    BY <1>2, <1>3 DEF RevRows
  <1>5. db \in Stores /\ db.rev \in [Revisions -> RevRows] /\ RefsOK(db) /\ FiniteRows(db) /\ PinsOK(db)
    BY DEF StoreOK, Stores
  <1>6. d2 = [db EXCEPT !.rev[v] = row]
    BY <1>2, <1>3, <1>5 DEF Stores
  <1>7. /\ d2 \in Stores /\ d2.rev = [db.rev EXCEPT ![v] = row]
        /\ d2.op = db.op /\ d2.ws = db.ws /\ d2.pub = db.pub /\ d2.ref = db.ref
        /\ d2.ledger = db.ledger /\ d2.member = db.member /\ d2.commit = db.commit
        /\ d2.consumer = db.consumer /\ d2.snapshot = db.snapshot /\ d2.hold = db.hold
        /\ d2.entry = db.entry
    BY <1>4, <1>5, <1>6 DEF Stores
  <1>8. \A w \in Revisions : w # v => d2.rev[w] = db.rev[w]
    BY <1>5, <1>7
  <1>9. RefsOK(d2)
    <2>1. d2.rev[v].count = db.rev[v].count /\ d2.rev[v].state = "Collected" /\ db.rev[v].count = 0
      BY <1>2, <1>4, <1>5, <1>7
    <2> QED BY <1>5, <1>7, <1>8, <2>1 DEF RefsOK, CountedRev
  <1>10. FiniteRows(d2) /\ ViewOK(d2)
    BY <1>2, <1>5, <1>7 DEF FiniteRows, ViewOK
  <1>11. PinsOK(d2)
    <2>1. \A q \in Restores : Live(d2, q) <=> Live(db, q)
      BY <1>7 DEF Live
    <2> QED BY <1>5, <1>7, <2>1, PinsSame
  <1>12. Kept(db, d2, {})
    <2>1. \A q \in Restores, m \in Manifests : <<q, m>> \in Revisions
      BY PlanFacts
    <2>2. \A q \in Restores, m \in Manifests :
             db.rev[<<q, m>>] = NoRevision => d2.rev[<<q, m>>] = NoRevision
      <3>1. db.rev[v] # NoRevision
        BY <1>2 DEF NoRevision
      <3> QED BY <1>8, <2>1, <3>1
    <2> QED BY <1>7, <2>2 DEF Kept, Own
  <1>13. StoreOK(d2)
    BY <1>7, <1>9, <1>10, <1>11, <1>12, StepKeeps
  <1> QED BY <1>1, <1>7, <1>13

\* A page of paths becomes members.
BuiltTo(d, d2, r, o, M, F, V) ==
    d2 = [d EXCEPT !.op[r] = o, !.member[r] = M, !.ref[r] = F, !.rev = V]

BuiltRows(d, d2, r, o, M, F, V) ==
    /\ RowsOnly(d, d2, r) /\ d2.op[r] = o /\ d2.pub = d.pub /\ d2.member[r] = M
    /\ d2.ref[r] = F /\ d2.entry = d.entry /\ d2.ledger = d.ledger /\ d2.rev = V
    /\ \A c \in Commits : c # r => d2.ref[c] = d.ref[c] /\ d2.member[c] = d.member[c]

LEMMA BuiltFields ==
    ASSUME plan \in Plans, NEW d \in Stores, NEW r \in Restores, NEW o \in OpRows, NEW M, NEW F,
           M \subseteq RowSet, F \subseteq Revisions, NEW V \in [Revisions -> RevRows], NEW d2,
           BuiltTo(d, d2, r, o, M, F, V)
    PROVE  BuiltRows(d, d2, r, o, M, F, V)
  <1>1. r \in Commits
    BY PlanFacts
  <1>2. /\ d2.op = [d.op EXCEPT ![r] = o] /\ d2.member = [d.member EXCEPT ![r] = M]
        /\ d2.ref = [d.ref EXCEPT ![r] = F] /\ d2.rev = V
        /\ d2.ws = d.ws /\ d2.pub = d.pub /\ d2.entry = d.entry /\ d2.ledger = d.ledger
        /\ d2.commit = d.commit /\ d2.consumer = d.consumer
        /\ d2.snapshot = d.snapshot /\ d2.hold = d.hold
    BY DEF BuiltTo, Stores
  <1>3. /\ d.op \in [Restores -> OpRows] /\ d.member \in [Commits -> SUBSET RowSet]
        /\ d.ref \in [Commits -> SUBSET Revisions]
    BY DEF Stores
  <1>4. /\ d2.op \in [Restores -> OpRows] /\ d2.member \in [Commits -> SUBSET RowSet]
        /\ d2.ref \in [Commits -> SUBSET Revisions]
    BY <1>1, <1>2, <1>3
  <1>5. d2 \in Stores
    BY <1>2, <1>4 DEF BuiltTo, Stores
  <1>6. RowsOnly(d, d2, r)
    BY <1>1, <1>2, <1>3, <1>5 DEF RowsOnly
  <1> QED BY <1>1, <1>2, <1>3, <1>6 DEF BuiltRows

\* The source of a restore is another commit.
LEMMA SourceUntouched ==
    ASSUME plan \in Plans, NEW d, NEW d2, NEW r \in Restores,
           \A c \in Commits : c # r => d2.member[c] = d.member[c]
    PROVE  RowsOf(d2, r) = RowsOf(d, r)
  <1>1. Source(r) \in Commits /\ Source(r) # r
    BY PlanFacts
  <1> QED BY <1>1 DEF RowsOf

LEMMA BuildStep ==
    ASSUME plan \in Plans, StoreOK(db), NEW s \in Sessions, BuildMembers(s)
    PROVE  StoreOK(db')
  <1>0. PICK r \in Restores : r = plan.session[s]
    BY PlanFacts
  <1>1. PICK d2, k0, rows : /\ d2 = db' /\ k0 = db.op[r].memberCursor
                            /\ rows = Beyond(db.entry[r], k0)
    OBVIOUS
  <1>2. PICK S \in Pages(rows) :
           (S = {} => rows = {}) /\ Available(db.rev, S) /\ d2 = Built(r, S, S = rows)
    BY <1>0, <1>1 DEF BuildMembers, Advance
  <1>3. /\ db \in Stores /\ db.op[r] \in OpRows /\ db.op[r].phase = "DestinationBuilding"
        /\ r \in Commits /\ k0 \in Nat
        /\ Shape(db, r) /\ FreshOK(db, r) /\ LedgerOK(db, r) /\ RefsOK(db) /\ FiniteRows(db)
        /\ db.rev \in [Revisions -> RevRows]
        /\ db.entry[r] \subseteq RowSet /\ db.member[r] \subseteq RowSet /\ db.ref[r] \subseteq Revisions
    BY <1>0, <1>1, PlanFacts DEF StoreOK, Stores, BuildMembers, OpRows
  <1>4. \A x \in RowSet : x[1] \in Nat /\ x[2] \in Revisions
    BY DEF RowSet
  <1>5. /\ S \subseteq rows /\ rows \subseteq db.entry[r] /\ S \subseteq RowSet /\ rows \subseteq RowSet
        /\ IsFiniteSet(S) /\ \A x \in rows : x[1] > k0
        /\ \A x \in S, y \in rows \ S : x[1] < y[1]
    <2>1. S \subseteq rows /\ rows \subseteq db.entry[r] /\ \A x \in rows : x[1] > k0
      BY <1>1, <1>2 DEF Pages, Beyond
    <2>2. \A x \in S, y \in rows \ S : x[1] < y[1]
      BY <1>2 DEF Pages
    <2>3. IsFiniteSet(S)
      BY <1>3, <2>1, FS_Subset DEF FiniteRows
    <2> QED BY <1>3, <2>1, <2>2, <2>3
  <1>6. PICK k \in Nat : /\ k = Last(S, k0) /\ (S = {} => k = k0)
                         /\ (\A x \in S : x[1] <= k) /\ (S # {} => \E x \in S : x[1] = k)
    <2>1. \A x \in S : x[1] \in Nat
      BY <1>4, <1>5
    <2> QED BY <1>3, <1>5, <2>1, LastFacts
  <1>7. PICK img, fresh : img = {x[2] : x \in S} /\ fresh = img \ db.ref[r]
    OBVIOUS
  <1>8. IsFiniteSet(fresh) /\ fresh \subseteq Revisions /\ fresh \cap db.ref[r] = {} /\ img \subseteq Revisions
    <2>1. IsFiniteSet(img)
      BY <1>5, <1>7, ImageFinite
    <2>2. fresh \subseteq img
      BY <1>7
    <2>3. IsFiniteSet(fresh)
      BY <2>1, <2>2, FS_Subset
    <2>4. img \subseteq Revisions
      BY <1>4, <1>5, <1>7
    <2> QED BY <1>7, <2>2, <2>3, <2>4
  <1>9. PICK n \in Int, f \in Int : /\ n = db.op[r].members + Cardinality(S)
                                    /\ f = db.op[r].refs + Cardinality(fresh)
    <2>1. db.op[r].members \in Int /\ db.op[r].refs \in Int
      BY <1>3 DEF OpRows
    <2>2. Cardinality(S) \in Nat
      BY <1>5, FS_CardinalityType
    <2>3. Cardinality(fresh) \in Nat
      BY <1>8, FS_CardinalityType
    <2>4. /\ db.op[r].members + Cardinality(S) \in Int
          /\ db.op[r].refs + Cardinality(fresh) \in Int
      BY <2>1, <2>2, <2>3
    <2> QED BY <2>4
  <1>10. PICK ph \in {"DestinationBuilding", "DestinationSealing"} :
            /\ ph = IF S = rows THEN "DestinationSealing" ELSE db.op[r].phase
            /\ ph = "DestinationSealing" => S = rows
    BY <1>3
  <1>11. PICK o : o = [db.op[r] EXCEPT !.memberCursor = k, !.members = n, !.refs = f, !.phase = ph]
    OBVIOUS
  <1>12. /\ o \in OpRows /\ o.phase = ph /\ o.memberCursor = k /\ o.members = n /\ o.refs = f
         /\ o.bound = db.op[r].bound
    BY <1>3, <1>11 DEF OpRows, Phases, ForwardPhases
  <1>13. PICK M, F, V : /\ M = db.member[r] \cup S /\ F = db.ref[r] \cup fresh
                        /\ V = Count(db.rev, CommitRefs(fresh), 1)
    OBVIOUS
  <1>14. BuiltTo(db, d2, r, o, M, F, V)
    <2>1. PICK a : a = [db.op[r] EXCEPT !.memberCursor = Last(S, db.op[r].memberCursor),
                          !.members = db.op[r].members + Cardinality(S),
                          !.refs = db.op[r].refs + Cardinality(fresh),
                          !.phase = IF S = rows THEN "DestinationSealing" ELSE db.op[r].phase]
      OBVIOUS
    <2>2. d2 = [db EXCEPT !.op[r] = a, !.member[r] = @ \cup S, !.ref[r] = @ \cup fresh,
                          !.rev = Count(@, CommitRefs(fresh), 1)]
      BY <1>2, <1>3, <1>7, <2>1 DEF Built, Stores
    <2>3. a = o
      BY <1>1, <1>3, <1>6, <1>9, <1>10, <1>11, <2>1 DEF OpRows
    <2> HIDE <2>1
    <2>4. d2 = [db EXCEPT !.op[r] = a, !.member[r] = M, !.ref[r] = F, !.rev = V]
      BY <1>3, <1>13, <2>2 DEF Stores
    <2> QED BY <2>3, <2>4 DEF BuiltTo
  <1>15. V \in [Revisions -> RevRows] /\ M \subseteq RowSet /\ F \subseteq Revisions
    BY <1>3, <1>5, <1>8, <1>13, CommitRefsFinite, CountUp
  <1>16. /\ RowsOnly(db, d2, r) /\ d2.op[r] = o /\ d2.pub = db.pub /\ d2.member[r] = M
         /\ d2.ref[r] = F /\ d2.entry = db.entry /\ d2.ledger = db.ledger /\ d2.rev = V
         /\ \A c \in Commits : c # r => d2.ref[c] = db.ref[c] /\ d2.member[c] = db.member[c]
    <2>1. db \in Stores /\ o \in OpRows
      BY <1>3, <1>12
    <2>2. BuiltRows(db, d2, r, o, M, F, V)
      BY <1>14, <1>15, <2>1, BuiltFields
    <2> QED BY <2>2 DEF BuiltRows
  <1>17. RefsOK(d2) /\ Recounted(db, d2)
    <2>1. Grown(db.ref, d2.ref, r, fresh)
      BY <1>13, <1>16 DEF Grown
    <2>2. \A v \in fresh : db.rev[v].state = "Available"
      BY <1>2, <1>7 DEF Available
    <2> QED BY <1>3, <1>8, <1>13, <1>16, <2>1, <2>2, RefsMoreRefs
  <1>18. /\ \A m \in Manifests : db.pub[r][m].phase = "Published"
         /\ ManifestRows(r) \subseteq db.entry[r]
         /\ Cardinality(db.member[r]) = db.op[r].members
         /\ Cardinality(db.ref[r]) = db.op[r].refs
         /\ db.ref[r] = {x[2] : x \in db.member[r]}
         /\ db.member[r] = {x \in db.entry[r] : x[1] <= k0}
         /\ db.ledger[r] \subseteq db.entry[r]
         /\ db.entry[r] \subseteq db.ledger[r] \cup ManifestRows(r)
         /\ db.commit[r].state = "Absent"
    BY <1>1, <1>3 DEF Shape, Building
  <1>19. db.member[r] \cap S = {}
    BY <1>3, <1>4, <1>5, <1>18
  <1>20. /\ IsFiniteSet(M) /\ Cardinality(M) = n /\ IsFiniteSet(F) /\ Cardinality(F) = f
    <2>1. IsFiniteSet(db.member[r]) /\ IsFiniteSet(db.ref[r])
      BY <1>3 DEF FiniteRows
    <2>2. IsFiniteSet(M) /\ Cardinality(M) = Cardinality(db.member[r]) + Cardinality(S)
      BY <1>5, <1>13, <1>19, <2>1, DisjointUnion
    <2>3. IsFiniteSet(F) /\ Cardinality(F) = Cardinality(db.ref[r]) + Cardinality(fresh)
      BY <1>8, <1>13, <2>1, DisjointUnion
    <2> QED BY <1>9, <1>18, <2>2, <2>3
  <1>21. FiniteOwn(d2, r)
    BY <1>3, <1>16, <1>20 DEF FiniteOwn, FiniteRows
  <1>22. Live(d2, r) /\ Live(db, r)
    BY <1>3, <1>12, <1>16 DEF Live
  <1>23. LedgerOK(d2, r)
    <2>1. RowsOf(d2, r) = RowsOf(db, r)
      BY <1>16, SourceUntouched
    <2> QED BY <1>3, <1>16, <2>1 DEF LedgerOK, Building
  <1>24. F = {x[2] : x \in M}
    <2>1. \A v : v \in F <=> v \in db.ref[r] \/ v \in img
      BY <1>7, <1>13
    <2>2. \A v : v \in {x[2] : x \in M} <=> v \in {x[2] : x \in db.member[r]} \/ v \in img
      BY <1>7, <1>13
    <2> QED BY <1>18, <2>1, <2>2
  <1>25. M = {x \in db.entry[r] : x[1] <= k}
    <2>1. \A x \in db.entry[r] : x[1] \in Nat
      BY <1>3, <1>4
    <2>2. \A x \in db.entry[r] : x \in rows <=> x[1] > k0
      BY <1>1 DEF Beyond
    <2>3. CASE S = {}
      BY <1>3, <1>6, <1>13, <1>18, <2>3
    <2>4. CASE S # {}
      <3>1. PICK z \in S : z[1] = k
        BY <1>6, <2>4
      <3>2. k > k0 /\ \A y \in rows \ S : y[1] > k
        BY <1>5, <3>1
      <3>3. \A x \in db.entry[r] : x[1] <= k <=> x[1] <= k0 \/ x \in S
        BY <1>3, <1>5, <1>6, <2>1, <2>2, <3>2
      <3> QED BY <1>5, <1>13, <1>18, <3>3
    <2> QED BY <2>3, <2>4
  <1>26. ph = "DestinationSealing" => M = db.entry[r]
    <2>1. \A x \in db.entry[r] : x[1] \in Nat
      BY <1>3, <1>4
    <2>2. \A x \in db.entry[r] : x \in rows <=> x[1] > k0
      BY <1>1 DEF Beyond
    <2>3. \A x \in db.entry[r] : x \in rows \/ x[1] <= k0
      BY <1>3, <2>1, <2>2
    <2> QED BY <1>5, <1>10, <1>13, <1>18, <2>3
  <1>27. Shape(d2, r)
    <2>1. ~o.bound => \A m \in Manifests : d2.pub[r][m].phase = "None"
      BY <1>3, <1>12, <1>16 DEF Shape
    <2>2. d2.commit = db.commit
      BY <1>16 DEF RowsOnly
    <2>3. /\ \A m \in Manifests : d2.pub[r][m].phase = "Published"
          /\ ManifestRows(r) \subseteq d2.entry[r]
          /\ Cardinality(d2.member[r]) = o.members /\ Cardinality(d2.ref[r]) = o.refs
          /\ d2.ref[r] = {x[2] : x \in d2.member[r]}
          /\ d2.member[r] = {x \in d2.entry[r] : x[1] <= o.memberCursor}
          /\ d2.ledger[r] \subseteq d2.entry[r]
          /\ d2.entry[r] \subseteq d2.ledger[r] \cup ManifestRows(r)
          /\ d2.commit[r].state = "Absent"
      BY <1>12, <1>16, <1>18, <1>20, <1>24, <1>25, <2>2
    <2>4. o.phase = "DestinationSealing" => d2.member[r] = d2.entry[r]
      BY <1>12, <1>16, <1>26
    <2>5. o.phase \in {"DestinationBuilding", "DestinationSealing"}
      BY <1>12
    <2> QED BY <1>16, <2>1, <2>3, <2>4, <2>5 DEF Shape, Early, Building
  <1>28. FreshOK(d2, r) /\ RevKept(db, d2, r)
    BY <1>3, <1>16, <1>17, RecountedFresh, RecountedKept
  <1>29. StoreOK(d2)
    <2>1. db.op[r].phase # "Complete"
      BY <1>3
    <2> QED BY <1>16, <1>17, <1>21, <1>22, <1>23, <1>27, <1>28, <2>1, RowsStep
  <1> QED BY <1>1, <1>29

-----------------------------------------------------------------------------
(* Cleanup: references, members and paths of an aborted restore go.        *)

LEMMA CleaningStep ==
    ASSUME plan \in Plans, NEW d, NEW d2, NEW r \in Restores, StoreOK(d), RowsOnly(d, d2, r),
           d.op[r].phase = "Cleaning", d2.op[r].phase = "Cleaning",
           d2.op[r].bound = d.op[r].bound, d2.pub = d.pub,
           d2.ledger[r] \subseteq d2.entry[r],
           d2.entry[r] \subseteq d2.ledger[r] \cup ManifestRows(r),
           FiniteOwn(d2, r), RefsOK(d2), Recounted(d, d2)
    PROVE  StoreOK(d2)
  <1>1. Live(d2, r) /\ Live(d, r) /\ LedgerOK(d2, r) /\ d.op[r].phase # "Complete"
    BY DEF Live, LedgerOK, Building
  <1>2. Shape(d, r) /\ FreshOK(d, r)
    BY DEF StoreOK
  <1>3. d2.commit = d.commit
    BY DEF RowsOnly
  <1>4. Shape(d2, r)
    BY <1>2, <1>3 DEF Shape, Early, Building
  <1>5. FreshOK(d2, r) /\ RevKept(d, d2, r)
    BY <1>2, RecountedFresh, RecountedKept
  <1> QED BY <1>1, <1>4, <1>5, RowsStep

\* What the cleanup of r starts from.
LEMMA CleaningFacts ==
    ASSUME plan \in Plans, StoreOK(db), NEW r \in Restores, db.op[r].phase = "Cleaning"
    PROVE  /\ db \in Stores /\ r \in Commits /\ RefsOK(db)
           /\ db.op[r] \in OpRows /\ db.op[r].unrefs \in Int /\ db.op[r].unmembers \in Int
           /\ db.op[r].uncopied \in Int
           /\ db.rev \in [Revisions -> RevRows]
           /\ db.entry[r] \subseteq RowSet /\ db.ledger[r] \subseteq RowSet
           /\ db.member[r] \subseteq RowSet /\ db.ref[r] \subseteq Revisions
           /\ IsFiniteSet(db.entry[r]) /\ IsFiniteSet(db.ledger[r])
           /\ IsFiniteSet(db.member[r]) /\ IsFiniteSet(db.ref[r])
           /\ db.ledger[r] \subseteq db.entry[r]
           /\ db.entry[r] \subseteq db.ledger[r] \cup ManifestRows(r)
  <1>1. db \in Stores /\ r \in Commits /\ RefsOK(db) /\ FiniteRows(db) /\ Shape(db, r)
    BY PlanFacts DEF StoreOK
  <1>2. /\ db.op[r] \in OpRows /\ db.rev \in [Revisions -> RevRows]
        /\ db.entry[r] \subseteq RowSet /\ db.ledger[r] \subseteq RowSet
        /\ db.member[r] \subseteq RowSet /\ db.ref[r] \subseteq Revisions
    BY <1>1 DEF Stores
  <1>3. db.op[r].unrefs \in Int /\ db.op[r].unmembers \in Int /\ db.op[r].uncopied \in Int
    BY <1>2 DEF OpRows
  <1>4. /\ IsFiniteSet(db.entry[r]) /\ IsFiniteSet(db.ledger[r])
        /\ IsFiniteSet(db.member[r]) /\ IsFiniteSet(db.ref[r])
    BY <1>1 DEF FiniteRows
  <1>5. /\ db.ledger[r] \subseteq db.entry[r]
        /\ db.entry[r] \subseteq db.ledger[r] \cup ManifestRows(r)
    BY <1>1 DEF Shape
  <1> QED BY <1>1, <1>2, <1>3, <1>4, <1>5

\* A page of references, of members or of paths has gone.
RefsCleaned(d, d2, r, S) ==
    d2 = [d EXCEPT !.op[r].unrefs = @ + Cardinality(S), !.ref[r] = @ \ S,
                   !.rev = Count(@, CommitRefs(S), -1)]
MembersCleaned(d, d2, r, S) ==
    d2 = [d EXCEPT !.op[r].unmembers = @ + Cardinality(S), !.member[r] = @ \ S]
PathsCleaned(d, d2, r, S) ==
    d2 = [d EXCEPT !.op[r].uncopied = @ + Cardinality(S), !.ledger[r] = @ \ S,
                   !.entry[r] = @ \ S, !.rev = Count(@, S, -1)]

LEMMA CleanRefsStep ==
    ASSUME plan \in Plans, StoreOK(db), NEW r \in Restores, db.op[r].phase = "Cleaning",
           NEW S, S \subseteq db.ref[r], NEW d2,
           RefsCleaned(db, d2, r, S)
    PROVE  StoreOK(d2)
  <1>1. /\ db \in Stores /\ r \in Commits /\ RefsOK(db)
        /\ db.op[r] \in OpRows /\ db.op[r].unrefs \in Int
        /\ db.rev \in [Revisions -> RevRows]
        /\ db.member[r] \subseteq RowSet /\ db.ref[r] \subseteq Revisions
        /\ IsFiniteSet(db.entry[r]) /\ IsFiniteSet(db.ledger[r])
        /\ IsFiniteSet(db.member[r]) /\ IsFiniteSet(db.ref[r])
        /\ db.ledger[r] \subseteq db.entry[r]
        /\ db.entry[r] \subseteq db.ledger[r] \cup ManifestRows(r)
    BY CleaningFacts
  <1>2. IsFiniteSet(S) /\ IsFiniteSet(db.ref[r] \ S) /\ Cardinality(S) \in Nat
    BY <1>1, SubsetTaken, FS_CardinalityType
  <1>3. PICK n \in Int : n = db.op[r].unrefs + Cardinality(S)
    BY <1>1, <1>2
  <1>4. PICK o, M, F, V : /\ o = [db.op[r] EXCEPT !.unrefs = n] /\ M = db.member[r]
                          /\ F = db.ref[r] \ S /\ V = Count(db.rev, CommitRefs(S), -1)
    OBVIOUS
  <1>5. o \in OpRows /\ o.phase = "Cleaning" /\ o.bound = db.op[r].bound
    BY <1>1, <1>4 DEF OpRows
  <1>6. BuiltTo(db, d2, r, o, M, F, V)
    <2>1. d2 = [db EXCEPT !.op[r] = o, !.ref[r] = F, !.rev = V]
      BY <1>1, <1>3, <1>4 DEF RefsCleaned, Stores
    <2>2. db.member = [db.member EXCEPT ![r] = M]
      BY <1>1, <1>4 DEF Stores
    <2> HIDE <1>4
    <2> QED BY <1>1, <2>1, <2>2 DEF BuiltTo, Stores
  <1>7. M \subseteq RowSet /\ F \subseteq Revisions
    BY <1>1, <1>4
  <1>8. V \in [Revisions -> RevRows]
    BY <1>1, <1>2, <1>4, CommitRefsFinite, CountDown
  <1>9. BuiltRows(db, d2, r, o, M, F, V)
    BY <1>1, <1>5, <1>6, <1>7, <1>8, BuiltFields
  <1>10. RefsOK(d2) /\ Recounted(db, d2)
    <2>1. Shrunk(db.ref, d2.ref, r, S) /\ d2.entry = db.entry
      BY <1>4, <1>9 DEF Shrunk, BuiltRows
    <2>2. d2.rev = Count(db.rev, CommitRefs(S), -1)
      BY <1>4, <1>9 DEF BuiltRows
    <2> QED BY <1>1, <1>2, <2>1, <2>2, RefsLessRefs
  <1>11. FiniteOwn(d2, r)
    BY <1>1, <1>2, <1>4, <1>9 DEF FiniteOwn, BuiltRows
  <1>12. /\ RowsOnly(db, d2, r) /\ d2.op[r].phase = "Cleaning" /\ d2.op[r].bound = db.op[r].bound
         /\ d2.pub = db.pub /\ d2.ledger[r] \subseteq d2.entry[r]
         /\ d2.entry[r] \subseteq d2.ledger[r] \cup ManifestRows(r)
    BY <1>1, <1>5, <1>9 DEF BuiltRows
  <1> QED BY <1>10, <1>11, <1>12, CleaningStep

LEMMA CleanMembersStep ==
    ASSUME plan \in Plans, StoreOK(db), NEW r \in Restores, db.op[r].phase = "Cleaning",
           NEW S, S \subseteq db.member[r], NEW d2,
           MembersCleaned(db, d2, r, S)
    PROVE  StoreOK(d2)
  <1>1. /\ db \in Stores /\ r \in Commits /\ RefsOK(db)
        /\ db.op[r] \in OpRows /\ db.op[r].unmembers \in Int
        /\ db.rev \in [Revisions -> RevRows]
        /\ db.member[r] \subseteq RowSet /\ db.ref[r] \subseteq Revisions
        /\ IsFiniteSet(db.entry[r]) /\ IsFiniteSet(db.ledger[r])
        /\ IsFiniteSet(db.member[r]) /\ IsFiniteSet(db.ref[r])
        /\ db.ledger[r] \subseteq db.entry[r]
        /\ db.entry[r] \subseteq db.ledger[r] \cup ManifestRows(r)
    BY CleaningFacts
  <1>2. IsFiniteSet(S) /\ IsFiniteSet(db.member[r] \ S) /\ Cardinality(S) \in Nat
    BY <1>1, SubsetTaken, FS_CardinalityType
  <1>3. PICK n \in Int : n = db.op[r].unmembers + Cardinality(S)
    BY <1>1, <1>2
  <1>4. PICK o, M, F, V : /\ o = [db.op[r] EXCEPT !.unmembers = n] /\ M = db.member[r] \ S
                          /\ F = db.ref[r] /\ V = db.rev
    OBVIOUS
  <1>5. o \in OpRows /\ o.phase = "Cleaning" /\ o.bound = db.op[r].bound
    BY <1>1, <1>4 DEF OpRows
  <1>6. BuiltTo(db, d2, r, o, M, F, V)
    <2>1. o = [db.op[r] EXCEPT !.unmembers = @ + Cardinality(S)]
      BY <1>3, <1>4
    <2>2. d2 = [db EXCEPT !.op[r] = o, !.member[r] = M]
      BY <1>1, <1>4, <2>1 DEF MembersCleaned, Stores
    <2>3. db.ref = [db.ref EXCEPT ![r] = F] /\ db.rev = V
      BY <1>1, <1>4 DEF Stores
    <2>4. db = [db EXCEPT !.ref = [db.ref EXCEPT ![r] = F], !.rev = V]
      BY <1>1, <2>3 DEF Stores
    <2> QED BY <1>1, <2>2, <2>3, <2>4 DEF BuiltTo, Stores
  <1>7. M \subseteq RowSet /\ F \subseteq Revisions /\ V \in [Revisions -> RevRows]
    BY <1>1, <1>4
  <1>8. BuiltRows(db, d2, r, o, M, F, V)
    BY <1>1, <1>5, <1>6, <1>7, BuiltFields
  <1>9. RefsOK(d2)
    <2>1. d2.ref[r] = db.ref[r] /\ \A c \in Commits : c # r => d2.ref[c] = db.ref[c]
      BY <1>4, <1>8 DEF BuiltRows
    <2>2. db.ref \in [Commits -> SUBSET Revisions] /\ d2.ref \in [Commits -> SUBSET Revisions]
      BY <1>1, <1>8 DEF Stores, BuiltRows, RowsOnly
    <2>3. d2.ref = db.ref
      BY <2>1, <2>2
    <2>4. d2.entry = db.entry /\ d2.rev = db.rev
      BY <1>4, <1>8 DEF BuiltRows
    <2> QED BY <1>1, <2>3, <2>4, RefsSame
  <1>10. Recounted(db, d2)
    BY <1>1, <1>4, <1>8 DEF Recounted, BuiltRows
  <1>11. FiniteOwn(d2, r)
    BY <1>1, <1>2, <1>4, <1>8 DEF FiniteOwn, BuiltRows
  <1>12. /\ RowsOnly(db, d2, r) /\ d2.op[r].phase = "Cleaning" /\ d2.op[r].bound = db.op[r].bound
         /\ d2.pub = db.pub /\ d2.ledger[r] \subseteq d2.entry[r]
         /\ d2.entry[r] \subseteq d2.ledger[r] \cup ManifestRows(r)
    BY <1>1, <1>5, <1>8 DEF BuiltRows
  <1> QED BY <1>9, <1>10, <1>11, <1>12, CleaningStep

LEMMA CleanLedgerStep ==
    ASSUME plan \in Plans, StoreOK(db), NEW r \in Restores, db.op[r].phase = "Cleaning",
           NEW S, S \subseteq db.ledger[r], NEW d2,
           PathsCleaned(db, d2, r, S)
    PROVE  StoreOK(d2)
  <1>1. /\ db \in Stores /\ r \in Commits /\ RefsOK(db)
        /\ db.op[r] \in OpRows /\ db.op[r].uncopied \in Int
        /\ db.rev \in [Revisions -> RevRows]
        /\ db.entry[r] \subseteq RowSet /\ db.ledger[r] \subseteq RowSet
        /\ IsFiniteSet(db.entry[r]) /\ IsFiniteSet(db.ledger[r])
        /\ IsFiniteSet(db.member[r]) /\ IsFiniteSet(db.ref[r])
        /\ db.ledger[r] \subseteq db.entry[r]
        /\ db.entry[r] \subseteq db.ledger[r] \cup ManifestRows(r)
    BY CleaningFacts
  <1>2. /\ IsFiniteSet(S) /\ IsFiniteSet(db.ledger[r] \ S) /\ IsFiniteSet(db.entry[r] \ S)
        /\ Cardinality(S) \in Nat /\ S \subseteq db.entry[r]
    BY <1>1, SubsetTaken, FS_CardinalityType
  <1>3. PICK n \in Int : n = db.op[r].uncopied + Cardinality(S)
    BY <1>1, <1>2
  <1>4. PICK o, E, L, V : /\ o = [db.op[r] EXCEPT !.uncopied = n] /\ E = db.entry[r] \ S
                          /\ L = db.ledger[r] \ S /\ V = Count(db.rev, S, -1)
    OBVIOUS
  <1>5. o \in OpRows /\ o.phase = "Cleaning" /\ o.bound = db.op[r].bound
    BY <1>1, <1>4 DEF OpRows
  <1>6. CopiedTo(db, d2, r, o, E, L, V)
    BY <1>1, <1>3, <1>4 DEF PathsCleaned, CopiedTo, Stores
  <1>7. E \subseteq RowSet /\ L \subseteq RowSet
    BY <1>1, <1>4
  <1>8. V \in [Revisions -> RevRows]
    BY <1>1, <1>2, <1>4, CountDown
  <1>9. /\ RowsOnly(db, d2, r) /\ d2.op[r] = o /\ d2.pub = db.pub /\ d2.entry[r] = E
        /\ d2.ledger[r] = L /\ d2.member = db.member /\ d2.ref = db.ref /\ d2.rev = V
        /\ \A c \in Commits : c # r => d2.entry[c] = db.entry[c]
    <2>1. CopiedRows(db, d2, r, o, E, L, V)
      BY <1>1, <1>5, <1>6, <1>7, <1>8, CopiedFields
    <2> QED BY <2>1 DEF CopiedRows
  <1>10. RefsOK(d2) /\ Recounted(db, d2)
    <2>1. Shrunk(db.entry, d2.entry, r, S)
      BY <1>4, <1>9 DEF Shrunk
    <2> QED BY <1>1, <1>2, <1>4, <1>9, <2>1, RefsLessRows
  <1>11. FiniteOwn(d2, r)
    BY <1>1, <1>2, <1>4, <1>9 DEF FiniteOwn
  <1>12. /\ d2.ledger[r] \subseteq d2.entry[r]
         /\ d2.entry[r] \subseteq d2.ledger[r] \cup ManifestRows(r)
    BY <1>1, <1>4, <1>9
  <1> QED BY <1>5, <1>9, <1>10, <1>11, <1>12, CleaningStep

LEMMA CleanStep ==
    ASSUME plan \in Plans, StoreOK(db), NEW r \in Restores, CleanRestore(r), db' # db
    PROVE  StoreOK(db')
  <1>1. PICK d2 : d2 = db'
    OBVIOUS
  <1>2. db.op[r].phase = "Cleaning"
    BY DEF CleanRestore
  <1>3. CASE CleanScaffolding(r)
    <2>1. \/ \E S \in SUBSET db.ref[r] : RefsCleaned(db, d2, r, S)
          \/ \E S \in SUBSET db.member[r] : MembersCleaned(db, d2, r, S)
      BY <1>1, <1>3 DEF CleanScaffolding, FirstRows, Pages, Fail, Rows, RefsCleaned, MembersCleaned
    <2> QED BY <1>1, <1>2, <2>1, CleanRefsStep, CleanMembersStep
  <1>4. CASE CleanLedger(r)
    <2>1. \E S \in SUBSET db.ledger[r] : PathsCleaned(db, d2, r, S)
      BY <1>1, <1>4 DEF CleanLedger, Pages, Rows, PathsCleaned
    <2> QED BY <1>1, <1>2, <2>1, CleanLedgerStep
  <1> QED BY <1>3, <1>4 DEF CleanRestore

-----------------------------------------------------------------------------
(* The source is pinned, released and handed over to the child.            *)

\* All restores but r are pinned as they should be; r is, or is not.
OthersPinned(d, r) ==
    ConsumersOK(d) /\ SnapshotOK(d) /\ \A q \in Restores : q # r => PinOK(d, q)
Held(d, r) ==
    /\ OthersPinned(d, r)
    /\ FromSnapshot(r) <=> r \in d.hold
    /\ ~FromSnapshot(r) <=> Lease(r) \in d.consumer[Source(r)]
Freed(d, r) == OthersPinned(d, r) /\ r \notin d.hold /\ Lease(r) \notin d.consumer[Source(r)]

\* Nothing but the pins of r has moved.
Repinned(d, d2, r) ==
    /\ SameRows(d, d2) /\ \A c \in Commits : d2.commit[c].state = d.commit[c].state
    /\ d2.snapshot.state = d.snapshot.state
    /\ d2.hold \subseteq d.hold \cup {r} /\ (~FromSnapshot(r) => d2.hold = d.hold)

HoldSet(d, d2, n, H) == d2 = [d EXCEPT !.snapshot.count = n, !.hold = H]
HoldMoved(d, d2, n, H) ==
    /\ SameRows(d, d2) /\ d2.commit = d.commit /\ d2.consumer = d.consumer
    /\ d2.snapshot.state = d.snapshot.state /\ d2.snapshot.count = n /\ d2.hold = H

LEMMA HoldFields ==
    ASSUME NEW d \in Stores, NEW H, H \subseteq Commits, NEW n \in Int, NEW d2,
           HoldSet(d, d2, n, H)
    PROVE  HoldMoved(d, d2, n, H)
  <1>1. PICK row : row = [d.snapshot EXCEPT !.count = n]
    OBVIOUS
  <1>2. d.snapshot \in SnapshotRows
    BY DEF Stores
  <1>3. row \in SnapshotRows /\ row.state = d.snapshot.state /\ row.count = n
    BY <1>1, <1>2 DEF SnapshotRows
  <1>4. d2 = [d EXCEPT !.snapshot = row, !.hold = H]
    BY <1>1, <1>2 DEF HoldSet, Stores
  <1>5. /\ d2.snapshot = row /\ d2.hold = H /\ d2.commit = d.commit /\ d2.consumer = d.consumer
        /\ d2.op = d.op /\ d2.ws = d.ws /\ d2.pub = d.pub /\ d2.entry = d.entry
        /\ d2.ledger = d.ledger /\ d2.member = d.member /\ d2.ref = d.ref /\ d2.rev = d.rev
    BY <1>4 DEF Stores
  <1>6. d2 \in Stores
    BY <1>3, <1>4, <1>5 DEF Stores
  <1> QED BY <1>3, <1>5, <1>6 DEF SameRows, HoldMoved

\* The consumers of q are those of q still when r's come or go.
LEMMA OthersKeep ==
    ASSUME plan \in Plans, NEW d, NEW d2, NEW r \in Restores, NEW q \in Restores, q # r,
           PinOK(d, q), d2.op = d.op, d2.commit[q].state = d.commit[q].state,
           \A x : x # r => (x \in d2.hold <=> x \in d.hold),
           \A c \in Commits : \A x : x # Lease(r) /\ x # Child(r)
              => (x \in d2.consumer[c] <=> x \in d.consumer[c])
    PROVE  PinOK(d2, q)
  <1>1. /\ Lease(q) # Lease(r) /\ Child(q) # Child(r) /\ Lease(q) # Child(r) /\ Child(q) # Lease(r)
        /\ Source(q) \in Commits
    BY PlanFacts DEF Lease, Child
  <1>2. SamePin(d, d2, q)
    BY <1>1 DEF SamePin, Live
  <1> QED BY <1>2, SamePinKeeps

LEMMA HoldTaken ==
    ASSUME plan \in Plans, NEW d \in Stores, NEW r \in Restores, FromSnapshot(r), Freed(d, r),
           d.snapshot.state = "Active", NEW d2, d2 = Pin(d, r)
    PROVE  Held(d2, r) /\ Repinned(d, d2, r) /\ d2.consumer = d.consumer
  <1>1. r \in Commits /\ r # Base /\ FromSnapshot(r) \in BOOLEAN
    BY PlanFacts
  <1>2. d.hold \subseteq Commits /\ d.snapshot.count \in Int /\ d.snapshot \in SnapshotRows
    BY DEF Stores, SnapshotRows
  <1>2a. PICK n \in Int : n = d.snapshot.count + 1
    BY <1>2
  <1>2b. PICK H : H = d.hold \cup {r}
    OBVIOUS
  <1>3. H = d.hold \cup {r} /\ n = d.snapshot.count + 1
    BY <1>2a, <1>2b
  <1>4. HoldSet(d, d2, n, H)
    BY <1>2, <1>3 DEF Pin, Stores, HoldSet
  <1>5. H \subseteq Commits
    BY <1>1, <1>2, <1>3
  <1>6. /\ SameRows(d, d2) /\ d2.commit = d.commit /\ d2.consumer = d.consumer
        /\ d2.snapshot.state = d.snapshot.state /\ d2.snapshot.count = n /\ d2.hold = H
    BY <1>4, <1>5, HoldFields DEF HoldMoved
  <1>7. SnapshotOK(d) /\ ConsumersOK(d) /\ r \notin d.hold /\ Lease(r) \notin d.consumer[Source(r)]
    BY DEF Freed, OthersPinned
  <1>8. IsFiniteSet(H) /\ Cardinality(H \ {Base}) = n
    <2>1. PICK A : A = d.hold \ {Base}
      OBVIOUS
    <2>2. IsFiniteSet(A) /\ d.snapshot.count = Cardinality(A) /\ r \notin A /\ IsFiniteSet(d.hold)
      BY <1>7, <2>1, FS_Subset DEF SnapshotOK
    <2>3. Cardinality(A \cup {r}) = Cardinality(A) + 1
      BY <2>2, FS_AddElement
    <2>4. H \ {Base} = A \cup {r}
      BY <1>1, <1>3, <2>1
    <2>5. IsFiniteSet(H)
      BY <1>3, <2>2, FS_AddElement
    <2> QED BY <1>3, <2>2, <2>3, <2>4, <2>5
  <1>9. SnapshotOK(d2)
    BY <1>1, <1>3, <1>6, <1>7, <1>8 DEF SnapshotOK
  <1>10. ConsumersOK(d2)
    BY <1>6, <1>7 DEF ConsumersOK
  <1>11. ASSUME NEW q \in Restores, q # r PROVE PinOK(d2, q)
    <2>1. PinOK(d, q) /\ d2.op = d.op /\ d2.commit[q].state = d.commit[q].state
      BY <1>6, <1>11 DEF Freed, OthersPinned, SameRows
    <2>2. \A x : x # r => (x \in d2.hold <=> x \in d.hold)
      BY <1>3, <1>6
    <2>3. \A c \in Commits : \A x : x # Lease(r) /\ x # Child(r)
             => (x \in d2.consumer[c] <=> x \in d.consumer[c])
      BY <1>6
    <2> QED BY <1>11, <2>1, <2>2, <2>3, OthersKeep
  <1>12. Held(d2, r)
    BY <1>1, <1>3, <1>6, <1>7, <1>9, <1>10, <1>11 DEF Held, OthersPinned
  <1> QED BY <1>3, <1>6, <1>12 DEF Repinned

LEMMA LeaseTaken ==
    ASSUME plan \in Plans, NEW d \in Stores, NEW r \in Restores, ~FromSnapshot(r), Freed(d, r),
           d.commit[Source(r)].state = "Sealed", NEW d2, d2 = Pin(d, r)
    PROVE  /\ Held(d2, r) /\ Repinned(d, d2, r)
           /\ Child(r) \in d2.consumer[Source(r)] <=> Child(r) \in d.consumer[Source(r)]
  <1>1. r \in Commits /\ Source(r) \in Commits /\ Lease(r) \in Consumers /\ Base \in Commits
    BY PlanFacts DEF Lease, Consumers
  <1>2. d2 = AddConsumer(d, Source(r), Lease(r))
    BY DEF Pin
  <1>3. /\ SameRows(d, d2) /\ d2.snapshot = d.snapshot /\ d2.hold = d.hold
        /\ Pinned(d, d2, Source(r), Lease(r))
    BY <1>1, <1>2, AddFields
  <1>4. SnapshotOK(d) /\ ConsumersOK(d) /\ r \notin d.hold /\ Lease(r) \notin d.consumer[Source(r)]
    BY DEF Freed, OthersPinned
  <1>5. ConsumersOK(d2)
    BY <1>1, <1>3, <1>4, PinnedCounts
  <1>6. \A c \in Commits : \A x : x # Lease(r) => (x \in d2.consumer[c] <=> x \in d.consumer[c])
    BY <1>3 DEF Pinned, Grown
  <1>7. \A c \in Commits : d2.commit[c].state = d.commit[c].state
    BY <1>3 DEF Pinned
  <1>8. SnapshotConsumer # Lease(r) /\ Child(r) # Lease(r)
    BY DEF SnapshotConsumer, Lease, Child
  <1>9. SnapshotOK(d2)
    BY <1>1, <1>3, <1>4, <1>6, <1>8 DEF SnapshotOK
  <1>10. ASSUME NEW q \in Restores, q # r PROVE PinOK(d2, q)
    <2>1. PinOK(d, q) /\ d2.op = d.op /\ q \in Commits
      BY <1>3, <1>10, PlanFacts DEF Freed, OthersPinned, SameRows
    <2> QED BY <1>3, <1>6, <1>7, <1>10, <2>1, OthersKeep
  <1>11. Lease(r) \in d2.consumer[Source(r)]
    BY <1>3 DEF Pinned, Grown
  <1>12. Held(d2, r)
    BY <1>3, <1>4, <1>5, <1>9, <1>10, <1>11 DEF Held, OthersPinned
  <1> QED BY <1>1, <1>3, <1>6, <1>7, <1>8, <1>12 DEF Repinned

LEMMA HoldReleased ==
    ASSUME plan \in Plans, NEW d \in Stores, NEW r \in Restores, FromSnapshot(r), Held(d, r),
           NEW d2, d2 = ReleaseSource(d, r)
    PROVE  Freed(d2, r) /\ Repinned(d, d2, r) /\ d2.consumer = d.consumer
  <1>1. r \in Commits /\ r # Base /\ FromSnapshot(r) \in BOOLEAN
    BY PlanFacts
  <1>2. d.hold \subseteq Commits /\ d.snapshot.count \in Int /\ d.snapshot \in SnapshotRows
    BY DEF Stores, SnapshotRows
  <1>2a. PICK n \in Int : n = d.snapshot.count - 1
    BY <1>2
  <1>2b. PICK H : H = d.hold \ {r}
    OBVIOUS
  <1>3. H = d.hold \ {r} /\ n = d.snapshot.count - 1
    BY <1>2a, <1>2b
  <1>4. HoldSet(d, d2, n, H)
    BY <1>2, <1>3 DEF ReleaseSource, Stores, HoldSet
  <1>5. H \subseteq Commits
    BY <1>2, <1>3
  <1>6. /\ SameRows(d, d2) /\ d2.commit = d.commit /\ d2.consumer = d.consumer
        /\ d2.snapshot.state = d.snapshot.state /\ d2.snapshot.count = n /\ d2.hold = H
    BY <1>4, <1>5, HoldFields DEF HoldMoved
  <1>7. SnapshotOK(d) /\ ConsumersOK(d) /\ r \in d.hold /\ Lease(r) \notin d.consumer[Source(r)]
    BY <1>1 DEF Held, OthersPinned
  <1>8. IsFiniteSet(H) /\ Cardinality(H \ {Base}) = n
    <2>1. PICK A : A = d.hold \ {Base}
      OBVIOUS
    <2>2. IsFiniteSet(A) /\ d.snapshot.count = Cardinality(A) /\ r \in A /\ IsFiniteSet(d.hold)
      BY <1>1, <1>7, <2>1, FS_Subset DEF SnapshotOK
    <2>3. Cardinality(A \ {r}) = Cardinality(A) - 1
      BY <2>2, FS_RemoveElement
    <2>4. H \ {Base} = A \ {r}
      BY <1>1, <1>3, <2>1
    <2>5. IsFiniteSet(H)
      BY <1>3, <2>2, FS_Subset
    <2> QED BY <1>3, <2>2, <2>3, <2>4, <2>5
  <1>9. SnapshotOK(d2)
    BY <1>1, <1>3, <1>6, <1>7, <1>8 DEF SnapshotOK
  <1>10. ConsumersOK(d2)
    BY <1>6, <1>7 DEF ConsumersOK
  <1>11. ASSUME NEW q \in Restores, q # r PROVE PinOK(d2, q)
    <2>1. PinOK(d, q) /\ d2.op = d.op /\ d2.commit[q].state = d.commit[q].state
      BY <1>6, <1>11 DEF Held, OthersPinned, SameRows
    <2>2. \A x : x # r => (x \in d2.hold <=> x \in d.hold)
      BY <1>3, <1>6
    <2>3. \A c \in Commits : \A x : x # Lease(r) /\ x # Child(r)
             => (x \in d2.consumer[c] <=> x \in d.consumer[c])
      BY <1>6
    <2> QED BY <1>11, <2>1, <2>2, <2>3, OthersKeep
  <1>12. Freed(d2, r)
    BY <1>3, <1>6, <1>7, <1>9, <1>10, <1>11 DEF Freed, OthersPinned
  <1> QED BY <1>3, <1>6, <1>12 DEF Repinned

LEMMA LeaseReleased ==
    ASSUME plan \in Plans, NEW d \in Stores, NEW r \in Restores, ~FromSnapshot(r), Held(d, r),
           NEW d2, d2 = ReleaseSource(d, r)
    PROVE  /\ Freed(d2, r) /\ Repinned(d, d2, r)
           /\ Child(r) \in d2.consumer[Source(r)] <=> Child(r) \in d.consumer[Source(r)]
  <1>1. Source(r) \in Commits /\ Base \in Commits
    BY PlanFacts
  <1>2. d2 = RemoveConsumer(d, Source(r), Lease(r))
    BY DEF ReleaseSource
  <1>3. /\ SameRows(d, d2) /\ d2.snapshot = d.snapshot /\ d2.hold = d.hold
        /\ Unpinned(d, d2, Source(r), Lease(r))
    BY <1>1, <1>2, RemoveFields
  <1>4. SnapshotOK(d) /\ ConsumersOK(d) /\ r \notin d.hold /\ Lease(r) \in d.consumer[Source(r)]
    BY DEF Held, OthersPinned
  <1>5. ConsumersOK(d2)
    BY <1>1, <1>3, <1>4, UnpinnedCounts
  <1>6. \A c \in Commits : \A x : x # Lease(r) => (x \in d2.consumer[c] <=> x \in d.consumer[c])
    BY <1>3 DEF Unpinned, Shrunk
  <1>7. \A c \in Commits : d2.commit[c].state = d.commit[c].state
    BY <1>3 DEF Unpinned
  <1>8. SnapshotConsumer # Lease(r) /\ Child(r) # Lease(r)
    BY DEF SnapshotConsumer, Lease, Child
  <1>9. SnapshotOK(d2)
    BY <1>1, <1>3, <1>4, <1>6, <1>8 DEF SnapshotOK
  <1>10. ASSUME NEW q \in Restores, q # r PROVE PinOK(d2, q)
    <2>1. PinOK(d, q) /\ d2.op = d.op /\ q \in Commits
      BY <1>3, <1>10, PlanFacts DEF Held, OthersPinned, SameRows
    <2> QED BY <1>3, <1>6, <1>7, <1>10, <2>1, OthersKeep
  <1>11. Lease(r) \notin d2.consumer[Source(r)]
    BY <1>3 DEF Unpinned, Shrunk
  <1>12. Freed(d2, r)
    BY <1>3, <1>4, <1>5, <1>9, <1>10, <1>11 DEF Freed, OthersPinned
  <1> QED BY <1>1, <1>3, <1>6, <1>7, <1>8, <1>12 DEF Repinned

LEMMA ChildAdded ==
    ASSUME plan \in Plans, NEW d \in Stores, NEW r \in Restores, Freed(d, r),
           d.commit[Source(r)].state = "Sealed", Child(r) \notin d.consumer[Source(r)],
           NEW d2, d2 = AddConsumer(d, Source(r), Child(r))
    PROVE  Freed(d2, r) /\ Repinned(d, d2, r) /\ Child(r) \in d2.consumer[Source(r)]
  <1>1. r \in Commits /\ Source(r) \in Commits /\ Child(r) \in Consumers /\ Base \in Commits
    BY PlanFacts DEF Child, Consumers
  <1>3. /\ SameRows(d, d2) /\ d2.snapshot = d.snapshot /\ d2.hold = d.hold
        /\ Pinned(d, d2, Source(r), Child(r))
    BY <1>1, AddFields
  <1>4. SnapshotOK(d) /\ ConsumersOK(d) /\ r \notin d.hold /\ Lease(r) \notin d.consumer[Source(r)]
    BY DEF Freed, OthersPinned
  <1>5. ConsumersOK(d2)
    BY <1>1, <1>3, <1>4, PinnedCounts
  <1>6. \A c \in Commits : \A x : x # Child(r) => (x \in d2.consumer[c] <=> x \in d.consumer[c])
    BY <1>3 DEF Pinned, Grown
  <1>7. \A c \in Commits : d2.commit[c].state = d.commit[c].state
    BY <1>3 DEF Pinned
  <1>8. SnapshotConsumer # Child(r) /\ Child(r) # Lease(r)
    BY DEF SnapshotConsumer, Lease, Child
  <1>9. SnapshotOK(d2)
    BY <1>1, <1>3, <1>4, <1>6, <1>8 DEF SnapshotOK
  <1>10. ASSUME NEW q \in Restores, q # r PROVE PinOK(d2, q)
    <2>1. PinOK(d, q) /\ d2.op = d.op /\ q \in Commits
      BY <1>3, <1>10, PlanFacts DEF Freed, OthersPinned, SameRows
    <2> QED BY <1>3, <1>6, <1>7, <1>10, <2>1, OthersKeep
  <1>11. Child(r) \in d2.consumer[Source(r)]
    BY <1>3 DEF Pinned, Grown
  <1>12. Freed(d2, r)
    BY <1>1, <1>3, <1>4, <1>5, <1>6, <1>8, <1>9, <1>10 DEF Freed, OthersPinned
  <1> QED BY <1>3, <1>7, <1>11, <1>12 DEF Repinned

\* Both ways to pin, and both to release.
LEMMA PinTaken ==
    ASSUME plan \in Plans, NEW d \in Stores, NEW r \in Restores, Freed(d, r),
           d.commit[Source(r)].state = "Sealed",
           FromSnapshot(r) => d.snapshot.state = "Active", NEW d2, d2 = Pin(d, r)
    PROVE  /\ Held(d2, r) /\ Repinned(d, d2, r)
           /\ Child(r) \in d2.consumer[Source(r)] <=> Child(r) \in d.consumer[Source(r)]
  BY HoldTaken, LeaseTaken

LEMMA PinReleased ==
    ASSUME plan \in Plans, NEW d \in Stores, NEW r \in Restores, Held(d, r),
           NEW d2, d2 = ReleaseSource(d, r)
    PROVE  /\ Freed(d2, r) /\ Repinned(d, d2, r)
           /\ Child(r) \in d2.consumer[Source(r)] <=> Child(r) \in d.consumer[Source(r)]
  BY HoldReleased, LeaseReleased

-----------------------------------------------------------------------------
(* A restore begins.                                                       *)

LEMMA HeldPins ==
    ASSUME plan \in Plans, NEW d, NEW r \in Restores, Held(d, r), Live(d, r),
           Child(r) \notin d.consumer[Source(r)], d.commit[r].state = "Absent"
    PROVE  PinsOK(d)
  <1>1. PinOK(d, r)
    BY DEF Held, PinOK
  <1> QED BY <1>1 DEF PinsOK, Held, OthersPinned

LEMMA FreedPins ==
    ASSUME plan \in Plans, NEW d, NEW r \in Restores, Freed(d, r), ~Live(d, r),
           d.commit[r].state \in {"Sealed", "Claiming"} => Child(r) \in d.consumer[Source(r)],
           Child(r) \in d.consumer[Source(r)] => d.commit[r].state # "Absent"
    PROVE  PinsOK(d)
  <1>1. PinOK(d, r)
    BY DEF Freed, PinOK
  <1> QED BY <1>1 DEF PinsOK, Freed, OthersPinned

\* The pins of other restores do not depend on the record of r.
LEMMA OthersStayPinned ==
    ASSUME plan \in Plans, NEW d, PinsOK(d), NEW d1, NEW r \in Restores,
           d1.commit = d.commit, d1.consumer = d.consumer, d1.snapshot = d.snapshot,
           d1.hold = d.hold, \A q \in Restores : q # r => d1.op[q] = d.op[q]
    PROVE  OthersPinned(d1, r)
  <1>1. ConsumersOK(d1) /\ SnapshotOK(d1)
    BY DEF PinsOK, ConsumersOK, SnapshotOK
  <1>2. ASSUME NEW q \in Restores, q # r PROVE PinOK(d1, q)
    <2>1. PinOK(d, q)
      BY DEF PinsOK
    <2>2. SamePin(d, d1, q)
      BY <1>2 DEF SamePin, Live
    <2> QED BY <2>1, <2>2, SamePinKeeps
  <1> QED BY <1>1, <1>2 DEF OthersPinned

\* The record and the name of r alone have changed.
NameSet(d, d1, r, o, w) == d1 = [d EXCEPT !.op[r] = o, !.ws[plan.name[r]] = w]
NameMoved(d, d1, r, o, w) ==
    /\ d1 \in Stores /\ d1.op[r] = o /\ d1.ws[plan.name[r]] = w
    /\ \A q \in Restores : q # r => d1.op[q] = d.op[q]
    /\ \A n \in Names : n # plan.name[r] => d1.ws[n] = d.ws[n]
    /\ d1.pub = d.pub /\ d1.entry = d.entry /\ d1.ledger = d.ledger /\ d1.member = d.member
    /\ d1.ref = d.ref /\ d1.rev = d.rev /\ d1.commit = d.commit /\ d1.consumer = d.consumer
    /\ d1.snapshot = d.snapshot /\ d1.hold = d.hold

LEMMA NameFields ==
    ASSUME plan \in Plans, NEW d \in Stores, NEW r \in Restores, NEW o \in OpRows,
           NEW w \in NameRows, NEW d1, NameSet(d, d1, r, o, w)
    PROVE  NameMoved(d, d1, r, o, w)
  <1>1. d.op \in [Restores -> OpRows] /\ d.ws \in [Names -> NameRows] /\ plan.name[r] \in Names
    BY DEF Stores, Names
  <1>2. /\ d1.op = [d.op EXCEPT ![r] = o] /\ d1.ws = [d.ws EXCEPT ![plan.name[r]] = w]
        /\ d1.pub = d.pub /\ d1.entry = d.entry /\ d1.ledger = d.ledger /\ d1.member = d.member
        /\ d1.ref = d.ref /\ d1.rev = d.rev /\ d1.commit = d.commit /\ d1.consumer = d.consumer
        /\ d1.snapshot = d.snapshot /\ d1.hold = d.hold
    BY DEF NameSet, Stores
  <1>3. d1.op \in [Restores -> OpRows] /\ d1.ws \in [Names -> NameRows]
    BY <1>1, <1>2
  <1>4. d1 \in Stores
    BY <1>2, <1>3 DEF NameSet, Stores
  <1> QED BY <1>1, <1>2, <1>4 DEF NameMoved

LEMMA BeginStep ==
    ASSUME plan \in Plans, StoreOK(db), NEW r \in Restores, BeginRestore(r)
    PROVE  StoreOK(db') /\ db'.op[r].phase = "Preparing"
           /\ \A q \in Restores : q # r => db'.op[q] = db.op[q]
  <1>1. /\ db \in Stores /\ db.op[r] \in OpRows /\ db.op[r].phase = "None" /\ r \in Commits
        /\ Shape(db, r) /\ FreshOK(db, r) /\ PinsOK(db) /\ PinOK(db, r)
        /\ Source(r) \in Commits /\ Base \in Commits /\ FromSnapshot(r) \in BOOLEAN
    BY PlanFacts DEF StoreOK, Stores, BeginRestore, PinsOK
  <1>2. PICK o, w : /\ o = [db.op[r] EXCEPT !.phase = "Preparing"]
                    /\ w = [state |-> "Staging", owner |-> r]
    OBVIOUS
  <1>3. /\ o \in OpRows /\ o.phase = "Preparing" /\ o.bound = db.op[r].bound
        /\ o.cursor = db.op[r].cursor /\ o.members = db.op[r].members /\ o.refs = db.op[r].refs
        /\ o.memberCursor = db.op[r].memberCursor
    BY <1>1, <1>2 DEF OpRows, Phases
  <1>4. w \in NameRows
    BY <1>2 DEF NameRows
  <1>5. PICK d1, d2 : /\ d1 = [db EXCEPT !.op[r].phase = "Preparing",
                              !.ws[plan.name[r]] = [state |-> "Staging", owner |-> r]]
                      /\ d2 = Pin(d1, r) /\ d2 = db'
    BY DEF BeginRestore, Rows
  <1>6. NameSet(db, d1, r, o, w)
    BY <1>1, <1>2, <1>5 DEF NameSet, Stores
  <1>7. NameMoved(db, d1, r, o, w)
    BY <1>1, <1>3, <1>4, <1>6, NameFields
  <1>8. ~Live(db, r) /\ r \notin db.hold /\ Lease(r) \notin db.consumer[Source(r)]
        /\ db.commit[r].state = "Absent" /\ Child(r) \notin db.consumer[Source(r)]
    BY <1>1 DEF Live, PinOK, Shape
  <1>9. OthersPinned(d1, r)
    BY <1>1, <1>7, OthersStayPinned DEF NameMoved
  <1>10. Freed(d1, r)
    BY <1>7, <1>8, <1>9 DEF Freed, NameMoved
  <1>11. /\ d1 \in Stores /\ d1.commit[Source(r)].state = "Sealed"
         /\ FromSnapshot(r) => d1.snapshot.state = "Active"
    BY <1>7 DEF NameMoved, BeginRestore, SourceReadable
  <1>12. /\ Held(d2, r) /\ Repinned(d1, d2, r)
         /\ Child(r) \in d2.consumer[Source(r)] <=> Child(r) \in d1.consumer[Source(r)]
    BY <1>5, <1>10, <1>11, PinTaken
  <1>13. /\ d2 \in Stores /\ d2.op = d1.op /\ d2.ws = d1.ws /\ d2.pub = db.pub
         /\ d2.entry = db.entry /\ d2.ledger = db.ledger /\ d2.member = db.member
         /\ d2.ref = db.ref /\ d2.rev = db.rev
         /\ \A c \in Commits : d2.commit[c].state = db.commit[c].state
    BY <1>7, <1>12 DEF NameMoved, Repinned, SameRows
  <1>14. Live(d2, r)
    BY <1>3, <1>7, <1>13 DEF Live, NameMoved
  <1>15. PinsOK(d2)
    BY <1>1, <1>7, <1>8, <1>12, <1>13, <1>14, HeldPins DEF NameMoved
  <1>16. ViewOK(d2)
    <2>1. d2.hold # {} => db.hold # {}
      <3>1. CASE FromSnapshot(r)
        <4>1. d1.snapshot.state = "Active" /\ SnapshotOK(db) /\ d1.snapshot = db.snapshot
          BY <1>1, <1>7, <1>11, <3>1 DEF NameMoved, PinsOK
        <4> QED BY <4>1 DEF SnapshotOK
      <3>2. CASE ~FromSnapshot(r)
        BY <1>7, <1>12, <3>2 DEF Repinned, NameMoved
      <3> QED BY <3>1, <3>2
    <2> QED BY <1>13, <2>1 DEF StoreOK, ViewOK
  <1>17. FiniteRows(d2)
    BY <1>13 DEF StoreOK, FiniteRows
  <1>18. RefsOK(d2)
    BY <1>13, RefsSame DEF StoreOK
  <1>19. Kept(db, d2, {r})
    <2>1. ASSUME NEW q \in Restores, q # r PROVE Own(db, d2, q)
      <3>1. q \in Commits /\ d2.op[q] = db.op[q]
        BY <1>7, <1>13, <2>1, PlanFacts DEF NameMoved
      <3> QED BY <1>13, <3>1 DEF Own
    <2>2. ASSUME NEW q \in Restores, q # r, Live(db, q)
          PROVE  d2.ws[plan.name[q]] = db.ws[plan.name[q]]
      <3>1. db.ws[plan.name[q]] = [state |-> "Staging", owner |-> q]
        BY <2>2 DEF StoreOK, NameOK
      <3>2. db.ws[plan.name[r]].state # "Staging"
        BY DEF BeginRestore, DestinationFree
      <3>3. plan.name[q] # plan.name[r] /\ plan.name[q] \in Names
        BY <3>1, <3>2 DEF Names
      <3> QED BY <1>7, <1>13, <3>3 DEF NameMoved
    <2> QED BY <1>13, <2>1, <2>2 DEF Kept
  <1>20. RestoreOK(d2, r)
    <2>1. d2.op[r] = o /\ d2.ws[plan.name[r]] = w
      BY <1>7, <1>13 DEF NameMoved
    <2>2. Shape(d2, r)
      BY <1>1, <1>3, <1>13, <2>1 DEF Shape, Early, Building
    <2>3. LedgerOK(d2, r)
      BY <1>3, <2>1 DEF LedgerOK, Building
    <2>4. NameOK(d2, r)
      BY <1>2, <2>1 DEF NameOK
    <2>5. FreshOK(d2, r)
      BY <1>1, <1>13 DEF FreshOK
    <2> QED BY <2>2, <2>3, <2>4, <2>5 DEF RestoreOK
  <1>21. \A c \in Commits : d2.commit[c].state = "Sealed" /\ db.commit[c].state # "Sealed"
            => CommitOK(d2, c)
    BY <1>13
  <1>22. \A q \in Restores : q \in {r} => RestoreOK(d2, q)
    BY <1>20
  <1>23. StoreOK(d2)
    BY <1>13, <1>15, <1>16, <1>17, <1>18, <1>19, <1>21, <1>22, StepKeeps
  <1> QED BY <1>3, <1>5, <1>7, <1>13, <1>23 DEF NameMoved

-----------------------------------------------------------------------------
(* An aborted restore is cleaned up.                                       *)

EmptySet(d, d1, r, o, w, E, V) ==
    d1 = [d EXCEPT !.op[r] = o, !.ws[plan.name[r]] = w, !.entry[r] = E, !.rev = V]
Emptied(d, d1, r, o, w, E, V) ==
    /\ d1 \in Stores /\ d1.op[r] = o /\ d1.ws[plan.name[r]] = w /\ d1.entry[r] = E /\ d1.rev = V
    /\ \A q \in Restores : q # r => d1.op[q] = d.op[q]
    /\ \A n \in Names : n # plan.name[r] => d1.ws[n] = d.ws[n]
    /\ \A c \in Commits : c # r => d1.entry[c] = d.entry[c]
    /\ d1.pub = d.pub /\ d1.ledger = d.ledger /\ d1.member = d.member
    /\ d1.ref = d.ref /\ d1.commit = d.commit /\ d1.consumer = d.consumer
    /\ d1.snapshot = d.snapshot /\ d1.hold = d.hold

LEMMA EmptyFields ==
    ASSUME plan \in Plans, NEW d \in Stores, NEW r \in Restores, NEW o \in OpRows,
           NEW w \in NameRows, NEW E, E \subseteq RowSet, NEW V \in [Revisions -> RevRows],
           NEW d1, EmptySet(d, d1, r, o, w, E, V)
    PROVE  Emptied(d, d1, r, o, w, E, V)
  <1>1. /\ d.op \in [Restores -> OpRows] /\ d.ws \in [Names -> NameRows] /\ plan.name[r] \in Names
        /\ d.entry \in [Commits -> SUBSET RowSet] /\ r \in Commits
    BY PlanFacts DEF Stores, Names
  <1>2. /\ d1.op = [d.op EXCEPT ![r] = o] /\ d1.ws = [d.ws EXCEPT ![plan.name[r]] = w]
        /\ d1.entry = [d.entry EXCEPT ![r] = E] /\ d1.rev = V
        /\ d1.pub = d.pub /\ d1.ledger = d.ledger /\ d1.member = d.member
        /\ d1.ref = d.ref /\ d1.commit = d.commit /\ d1.consumer = d.consumer
        /\ d1.snapshot = d.snapshot /\ d1.hold = d.hold
    BY DEF EmptySet, Stores
  <1>3. /\ d1.op \in [Restores -> OpRows] /\ d1.ws \in [Names -> NameRows]
        /\ d1.entry \in [Commits -> SUBSET RowSet]
    BY <1>1, <1>2
  <1>4. d1 \in Stores
    BY <1>2, <1>3 DEF EmptySet, Stores
  <1> QED BY <1>1, <1>2, <1>4 DEF Emptied

\* Names of live restores differ.
LEMMA NamesDiffer ==
    ASSUME NEW d, NEW r \in Restores, NEW q \in Restores, q # r,
           NameOK(d, r), NameOK(d, q), Live(d, r), Live(d, q)
    PROVE  plan.name[q] # plan.name[r] /\ plan.name[q] \in Names
  BY DEF NameOK, Names

LEMMA CleanedStep ==
    ASSUME plan \in Plans, StoreOK(db), NEW r \in Restores, db.op[r].phase = "Cleaning",
           Finishable(r) = "clean", db.ledger[r] = {}, db.member[r] = {}, db.ref[r] = {},
           NEW d2, d2 = CleanedUp(r)
    PROVE  StoreOK(d2) /\ d2.op[r].phase = "Cleaned"
           /\ \A q \in Restores : q # r => d2.op[q] = db.op[q]
  <1>1. /\ db \in Stores /\ db.op[r] \in OpRows /\ r \in Commits /\ RefsOK(db)
        /\ Shape(db, r) /\ FreshOK(db, r) /\ NameOK(db, r) /\ PinsOK(db) /\ PinOK(db, r)
        /\ db.rev \in [Revisions -> RevRows] /\ db.entry[r] \subseteq RowSet
        /\ IsFiniteSet(db.entry[r]) /\ FromSnapshot(r) \in BOOLEAN
        /\ \A q \in Restores : NameOK(db, q)
    BY PlanFacts DEF StoreOK, Stores, PinsOK, FiniteRows
  <1>2. Live(db, r) /\ db.commit[r].state = "Absent" /\ Child(r) \notin db.consumer[Source(r)]
    BY <1>1 DEF Live, PinOK, Shape
  <1>3. PICK left : left = {x \in db.entry[r] : x[1] \in Manifests}
    OBVIOUS
  <1>4. left = db.entry[r]
    <2>1. db.entry[r] \subseteq ManifestRows(r)
      BY <1>1 DEF Shape
    <2>2. \A x \in ManifestRows(r) : x[1] \in Manifests
      BY DEF ManifestRows
    <2> QED BY <1>3, <2>1, <2>2
  <1>5. PICK o, w, E, V : /\ o = [db.op[r] EXCEPT !.phase = "Cleaned"]
                          /\ w = [state |-> "Retired", owner |-> r]
                          /\ E = {} /\ V = Count(db.rev, left, -1)
    OBVIOUS
  <1>6. o \in OpRows /\ o.phase = "Cleaned" /\ o.bound = db.op[r].bound
    BY <1>1, <1>5 DEF OpRows, Phases, AbortPhases
  <1>7. w \in NameRows /\ E \subseteq RowSet
    BY <1>5 DEF NameRows
  <1>8. V \in [Revisions -> RevRows]
    BY <1>1, <1>4, <1>5, CountDown
  <1>9. PICK d1 : /\ d1 = [db EXCEPT !.op[r].phase = "Cleaned",
                              !.ws[plan.name[r]] = [state |-> "Retired", owner |-> r],
                              !.entry[r] = @ \ left, !.rev = Count(@, left, -1)]
                  /\ d2 = ReleaseSource(d1, r)
    BY <1>3 DEF CleanedUp
  <1>10. EmptySet(db, d1, r, o, w, E, V)
    <2>1. db.entry[r] \ left = E
      BY <1>4, <1>5
    <2>2. d1 = [db EXCEPT !.op[r] = o, !.ws[plan.name[r]] = w,
                          !.entry[r] = db.entry[r] \ left, !.rev = V]
      BY <1>1, <1>5, <1>9 DEF Stores
    <2> QED BY <2>1, <2>2 DEF EmptySet
  <1>11. Emptied(db, d1, r, o, w, E, V)
    BY <1>1, <1>6, <1>7, <1>8, <1>10, EmptyFields
  <1>12. OthersPinned(d1, r)
    BY <1>1, <1>11, OthersStayPinned DEF Emptied
  <1>13. Held(d1, r)
    BY <1>1, <1>2, <1>11, <1>12 DEF Held, PinOK, Emptied
  <1>14. d1 \in Stores
    BY <1>11 DEF Emptied
  <1>15. /\ Freed(d2, r) /\ Repinned(d1, d2, r)
         /\ Child(r) \in d2.consumer[Source(r)] <=> Child(r) \in d1.consumer[Source(r)]
    BY <1>9, <1>13, <1>14, PinReleased
  <1>16. /\ d2 \in Stores /\ d2.op = d1.op /\ d2.ws = d1.ws /\ d2.pub = db.pub
         /\ d2.entry = d1.entry /\ d2.ledger = db.ledger /\ d2.member = db.member
         /\ d2.ref = db.ref /\ d2.rev = V /\ d1.ref = db.ref /\ d1.rev = V
         /\ \A c \in Commits : d2.commit[c].state = db.commit[c].state
         /\ d2.op[r] = o /\ d2.ws[plan.name[r]] = w /\ d2.entry[r] = {}
    BY <1>5, <1>11, <1>15 DEF Emptied, Repinned, SameRows
  <1>17. RefsOK(d1) /\ Recounted(db, d1)
    <2>1. Shrunk(db.entry, d1.entry, r, left)
      BY <1>4, <1>5, <1>11 DEF Shrunk, Emptied
    <2>2. d1.rev = Count(db.rev, left, -1) /\ IsFiniteSet(left) /\ left \subseteq db.entry[r]
      BY <1>1, <1>4, <1>5, <1>16
    <2> QED BY <1>1, <1>16, <2>1, <2>2, RefsLessRows
  <1>18. RefsOK(d2)
    BY <1>16, <1>17, RefsSame
  <1>19. Recounted(db, d2)
    BY <1>16, <1>17 DEF Recounted
  <1>20. ~Live(d2, r)
    BY <1>6, <1>16 DEF Live
  <1>21. PinsOK(d2)
    BY <1>1, <1>2, <1>11, <1>15, <1>16, <1>20, FreedPins DEF Emptied
  <1>22. ViewOK(d2)
    <2>1. d2.hold # {} => db.hold # {}
      <3>1. d1.hold = db.hold /\ (FromSnapshot(r) => r \in db.hold)
        BY <1>1, <1>2, <1>11 DEF Emptied, PinOK
      <3> QED BY <1>1, <1>15, <3>1 DEF Repinned
    <2>2. \A x \in plan.view : x[2] \in Revisions
      BY PlanFacts DEF RowSet
    <2>3. \A v \in Revisions : d2.rev[v].state = db.rev[v].state
      BY <1>19 DEF Recounted
    <2>4. ViewOK(db)
      BY DEF StoreOK
    <2> QED BY <2>1, <2>2, <2>3, <2>4 DEF ViewOK, Available
  <1>23. FiniteRows(d2)
    <2>1. FiniteRows(db) /\ IsFiniteSet({})
      BY FS_EmptySet DEF StoreOK
    <2>2. \A c \in Commits : d2.entry[c] = db.entry[c] \/ d2.entry[c] = {}
      BY <1>11, <1>16 DEF Emptied
    <2> QED BY <1>16, <2>1, <2>2 DEF FiniteRows
  <1>24. Kept(db, d2, {r})
    <2>1. ASSUME NEW q \in Restores, q # r PROVE Own(db, d2, q)
      <3>1. q \in Commits /\ d2.op[q] = db.op[q] /\ d2.entry[q] = db.entry[q]
        BY <1>11, <1>16, <2>1, PlanFacts DEF Emptied
      <3> QED BY <1>16, <3>1 DEF Own
    <2>2. ASSUME NEW q \in Restores, q # r, Live(db, q)
          PROVE  d2.ws[plan.name[q]] = db.ws[plan.name[q]]
      <3>1. plan.name[q] # plan.name[r] /\ plan.name[q] \in Names
        BY <1>1, <1>2, <2>2, NamesDiffer
      <3> QED BY <1>11, <1>16, <3>1 DEF Emptied
    <2>3. \A q \in Restores, m \in Manifests :
             db.rev[<<q, m>>] = NoRevision => d2.rev[<<q, m>>] = NoRevision
      <3>1. \A q \in Restores, m \in Manifests : <<q, m>> \in Revisions
        BY PlanFacts
      <3> QED BY <1>19, <3>1 DEF Recounted, NoRevision
    <2> QED BY <1>16, <2>1, <2>2, <2>3 DEF Kept
  <1>25. RestoreOK(d2, r)
    <2>1. \A m \in Manifests : db.pub[r][m].phase \notin ActivePublications
      BY NonePending
    <2>2. Shape(d2, r)
      BY <1>1, <1>2, <1>6, <1>16, <2>1 DEF Shape, Early, Building
    <2>3. LedgerOK(d2, r)
      BY <1>6, <1>16 DEF LedgerOK, Building
    <2>4. NameOK(d2, r)
      BY <1>20 DEF NameOK
    <2>5. FreshOK(d2, r)
      BY <1>1, <1>16, <1>19, RecountedFresh
    <2> QED BY <2>2, <2>3, <2>4, <2>5 DEF RestoreOK
  <1>26. \A c \in Commits : d2.commit[c].state = "Sealed" /\ db.commit[c].state # "Sealed"
            => CommitOK(d2, c)
    BY <1>16
  <1>27. \A q \in Restores : q \in {r} => RestoreOK(d2, q)
    BY <1>25
  <1>28. StoreOK(d2)
    BY <1>16, <1>18, <1>21, <1>22, <1>23, <1>24, <1>26, <1>27, StepKeeps
  <1> QED BY <1>6, <1>11, <1>16, <1>28 DEF Emptied

-----------------------------------------------------------------------------
(* A restore completes.                                                    *)

ChildSet(d, d1, r, o, w, k, K) ==
    d1 = [d EXCEPT !.op[r] = o, !.ws[plan.name[r]] = w, !.commit[r] = k, !.consumer[r] = K]
ChildMade(d, d1, r, o, w, k, K) ==
    /\ d1 \in Stores /\ d1.op[r] = o /\ d1.ws[plan.name[r]] = w
    /\ d1.commit[r] = k /\ d1.consumer[r] = K
    /\ \A q \in Restores : q # r => d1.op[q] = d.op[q]
    /\ \A n \in Names : n # plan.name[r] => d1.ws[n] = d.ws[n]
    /\ \A c \in Commits : c # r => d1.commit[c] = d.commit[c] /\ d1.consumer[c] = d.consumer[c]
    /\ d1.pub = d.pub /\ d1.entry = d.entry /\ d1.ledger = d.ledger /\ d1.member = d.member
    /\ d1.ref = d.ref /\ d1.rev = d.rev /\ d1.snapshot = d.snapshot /\ d1.hold = d.hold

LEMMA ChildFields ==
    ASSUME plan \in Plans, NEW d \in Stores, NEW r \in Restores, NEW o \in OpRows,
           NEW w \in NameRows, NEW k \in CommitRows, NEW K, K \subseteq Consumers,
           NEW d1, ChildSet(d, d1, r, o, w, k, K)
    PROVE  ChildMade(d, d1, r, o, w, k, K)
  <1>1. /\ d.op \in [Restores -> OpRows] /\ d.ws \in [Names -> NameRows] /\ plan.name[r] \in Names
        /\ d.commit \in [Commits -> CommitRows] /\ r \in Commits
        /\ d.consumer \in [Commits -> SUBSET Consumers]
    BY PlanFacts DEF Stores, Names
  <1>2. /\ d1.op = [d.op EXCEPT ![r] = o] /\ d1.ws = [d.ws EXCEPT ![plan.name[r]] = w]
        /\ d1.commit = [d.commit EXCEPT ![r] = k] /\ d1.consumer = [d.consumer EXCEPT ![r] = K]
        /\ d1.pub = d.pub /\ d1.entry = d.entry /\ d1.ledger = d.ledger /\ d1.member = d.member
        /\ d1.ref = d.ref /\ d1.rev = d.rev /\ d1.snapshot = d.snapshot /\ d1.hold = d.hold
    BY DEF ChildSet, Stores
  <1>3. /\ d1.op \in [Restores -> OpRows] /\ d1.ws \in [Names -> NameRows]
        /\ d1.commit \in [Commits -> CommitRows] /\ d1.consumer \in [Commits -> SUBSET Consumers]
    BY <1>1, <1>2
  <1>4. d1 \in Stores
    BY <1>2, <1>3 DEF ChildSet, Stores
  <1> QED BY <1>1, <1>2, <1>4 DEF ChildMade

\* The new commit has a head of its own and does not touch the pins of others.
LEMMA ChildPins ==
    ASSUME plan \in Plans, NEW d, StoreOK(d), NEW r \in Restores, Live(d, r),
           NEW d1, NEW o, NEW w, NEW k, k.state = "Sealed", k.count = 1,
           ChildMade(d, d1, r, o, w, k, {Head(r)})
    PROVE  Held(d1, r) /\ Child(r) \notin d1.consumer[Source(r)]
  <1>1. /\ PinsOK(d) /\ PinOK(d, r) /\ d.commit[r].state = "Absent"
        /\ r \in Commits /\ r # Base /\ Source(r) \in Commits /\ Source(r) # r
        /\ Base \in Commits /\ FromSnapshot(r) \in BOOLEAN
    BY PlanFacts, OverIsComplete DEF StoreOK, PinsOK, Live
  <1>2. d.consumer[r] = {}
    BY <1>1 DEF PinsOK, ConsumersOK
  <1>3. /\ d1.consumer[r] = {Head(r)} /\ d1.commit[r].state = "Sealed" /\ d1.commit[r].count = 1
        /\ \A c \in Commits : c # r => d1.commit[c] = d.commit[c] /\ d1.consumer[c] = d.consumer[c]
        /\ d1.snapshot = d.snapshot /\ d1.hold = d.hold
        /\ \A q \in Restores : q # r => d1.op[q] = d.op[q]
    BY DEF ChildMade
  <1>4. ConsumersOK(d1)
    <2>1. IsFiniteSet({Head(r)}) /\ Cardinality({Head(r)}) = 1
      BY FS_Singleton
    <2>2. ConsumersOK(d)
      BY <1>1 DEF PinsOK
    <2>3. ASSUME NEW c \in Commits
          PROVE  /\ IsFiniteSet(d1.consumer[c])
                 /\ d1.commit[c].count = Cardinality(d1.consumer[c])
                 /\ d1.consumer[c] # {} => d1.commit[c].state = "Sealed"
      <3>1. CASE c = r
        BY <1>3, <2>1, <3>1
      <3>2. CASE c # r
        BY <1>3, <2>2, <3>2 DEF ConsumersOK
      <3> QED BY <3>1, <3>2
    <2> QED BY <2>3 DEF ConsumersOK
  <1>5. SnapshotOK(d1)
    BY <1>1, <1>3 DEF PinsOK, SnapshotOK
  <1>6. ASSUME NEW q \in Restores, q # r PROVE PinOK(d1, q)
    <2>1. PinOK(d, q) /\ q \in Commits /\ Source(q) \in Commits
      BY <1>1, PlanFacts DEF PinsOK
    <2>2. Lease(q) # Head(r) /\ Child(q) # Head(r)
      BY DEF Lease, Child, Head
    <2>3. /\ Lease(q) \in d1.consumer[Source(q)] <=> Lease(q) \in d.consumer[Source(q)]
          /\ Child(q) \in d1.consumer[Source(q)] <=> Child(q) \in d.consumer[Source(q)]
      BY <1>2, <1>3, <2>1, <2>2
    <2>4. SamePin(d, d1, q)
      BY <1>3, <1>6, <2>1, <2>3 DEF SamePin, Live
    <2> QED BY <2>1, <2>4, SamePinKeeps
  <1>7. d1.consumer[Source(r)] = d.consumer[Source(r)]
    BY <1>1, <1>3
  <1>8. Child(r) \notin d.consumer[Source(r)]
    BY <1>1 DEF PinOK
  <1> QED BY <1>1, <1>3, <1>4, <1>5, <1>6, <1>7, <1>8 DEF Held, OthersPinned, PinOK

Completed(d, d2, r) ==
    d2 = Handoff([d EXCEPT !.op[r].phase = "Complete",
                           !.ws[plan.name[r]] = [state |-> "Visible", owner |-> r],
                           !.commit[r] = [state |-> "Sealed", count |-> 1],
                           !.consumer[r] = {Head(r)}], r)

LEMMA CompleteStep ==
    ASSUME plan \in Plans, StoreOK(db), NEW r \in Restores, db.op[r].phase = "Ready",
           Retained(r), NEW d2, Completed(db, d2, r)
    PROVE  StoreOK(d2) /\ d2.op[r].phase = "Complete"
           /\ \A q \in Restores : q # r => d2.op[q] = db.op[q]
  <1>1. /\ db \in Stores /\ db.op[r] \in OpRows /\ r \in Commits
        /\ Shape(db, r) /\ FreshOK(db, r) /\ LedgerOK(db, r) /\ PinsOK(db) /\ PinOK(db, r)
        /\ FromSnapshot(r) \in BOOLEAN /\ Source(r) \in Commits /\ Source(r) # r /\ r # Base
        /\ \A q \in Restores : NameOK(db, q)
    BY PlanFacts DEF StoreOK, Stores, PinsOK
  <1>2. Live(db, r) /\ db.commit[r].state = "Absent"
    BY <1>1 DEF Live, Shape
  <1>3. PICK o, w, k, K : /\ o = [db.op[r] EXCEPT !.phase = "Complete"]
                          /\ w = [state |-> "Visible", owner |-> r]
                          /\ k = [state |-> "Sealed", count |-> 1] /\ K = {Head(r)}
    OBVIOUS
  <1>4. o \in OpRows /\ o.phase = "Complete" /\ o.bound = db.op[r].bound
    BY <1>1, <1>3 DEF OpRows, Phases, ForwardPhases
  <1>5. w \in NameRows /\ k \in CommitRows /\ k.state = "Sealed" /\ k.count = 1
    BY <1>3 DEF NameRows, CommitRows
  <1>6. K \subseteq Consumers
    BY <1>1, <1>3 DEF Head, Consumers
  <1>7. PICK d1, e : /\ d1 = [db EXCEPT
                              !.op[r].phase = "Complete",
                              !.ws[plan.name[r]] = [state |-> "Visible", owner |-> r],
                              !.commit[r] = [state |-> "Sealed", count |-> 1],
                              !.consumer[r] = {Head(r)}]
                     /\ e = ReleaseSource(d1, r) /\ d2 = AddConsumer(e, Source(r), Child(r))
    BY DEF Handoff, Completed
  <1>8. ChildSet(db, d1, r, o, w, k, K)
    BY <1>1, <1>3, <1>7 DEF ChildSet, Stores
  <1>9. ChildMade(db, d1, r, o, w, k, K)
    BY <1>1, <1>4, <1>5, <1>6, <1>8, ChildFields
  <1>10. Held(d1, r) /\ Child(r) \notin d1.consumer[Source(r)] /\ d1 \in Stores
    <2>1. ChildMade(db, d1, r, o, w, k, {Head(r)})
      BY <1>3, <1>9
    <2>2. d1 \in Stores
      BY <1>9 DEF ChildMade
    <2> QED BY <1>2, <1>5, <2>1, <2>2, ChildPins
  <1>11. /\ Freed(e, r) /\ Repinned(d1, e, r) /\ Child(r) \notin e.consumer[Source(r)]
    BY <1>7, <1>10, PinReleased
  <1>12. e \in Stores /\ e.commit[Source(r)].state = "Sealed"
    BY <1>1, <1>9, <1>11 DEF Repinned, SameRows, ChildMade, Retained
  <1>13. Freed(d2, r) /\ Repinned(e, d2, r) /\ Child(r) \in d2.consumer[Source(r)]
    BY <1>7, <1>11, <1>12, ChildAdded
  <1>14. /\ d2 \in Stores /\ d2.op = d1.op /\ d2.ws = d1.ws /\ d2.pub = db.pub
         /\ d2.entry = db.entry /\ d2.ledger = db.ledger /\ d2.member = db.member
         /\ d2.ref = db.ref /\ d2.rev = db.rev
         /\ d2.op[r] = o /\ d2.commit[r].state = "Sealed"
         /\ \A c \in Commits : c # r => d2.commit[c].state = db.commit[c].state
    <2>1. SameRows(d1, e) /\ SameRows(e, d2)
      BY <1>11, <1>13 DEF Repinned
    <2>2. \A c \in Commits : d2.commit[c].state = d1.commit[c].state
      BY <1>11, <1>13 DEF Repinned
    <2>3. /\ d2 \in Stores /\ d2.op = d1.op /\ d2.ws = d1.ws /\ d2.pub = d1.pub
          /\ d2.entry = d1.entry /\ d2.ledger = d1.ledger /\ d2.member = d1.member
          /\ d2.ref = d1.ref /\ d2.rev = d1.rev
      BY <2>1 DEF SameRows
    <2>4. /\ d1.pub = db.pub /\ d1.entry = db.entry /\ d1.ledger = db.ledger
          /\ d1.member = db.member /\ d1.ref = db.ref /\ d1.rev = db.rev
          /\ d1.op[r] = o /\ d1.commit[r] = k
          /\ \A c \in Commits : c # r => d1.commit[c] = db.commit[c]
      BY <1>9 DEF ChildMade
    <2> QED BY <1>1, <1>5, <2>2, <2>3, <2>4
  <1>15. ~Live(d2, r)
    BY <1>4, <1>14 DEF Live
  <1>16. PinsOK(d2)
    BY <1>13, <1>14, <1>15, FreedPins
  <1>17. ViewOK(d2)
    <2>1. d2.hold # {} => db.hold # {}
      <3>1. d1.hold = db.hold /\ (FromSnapshot(r) => r \in db.hold)
        BY <1>1, <1>2, <1>9 DEF ChildMade, PinOK
      <3> QED BY <1>1, <1>11, <1>13, <3>1 DEF Repinned
    <2> QED BY <1>14, <2>1 DEF StoreOK, ViewOK
  <1>18. FiniteRows(d2)
    BY <1>14 DEF StoreOK, FiniteRows
  <1>19. RefsOK(d2)
    BY <1>14, RefsSame DEF StoreOK
  <1>20. Kept(db, d2, {r})
    <2>1. ASSUME NEW q \in Restores, q # r PROVE Own(db, d2, q)
      <3>1. q \in Commits /\ d2.op[q] = db.op[q]
        BY <1>9, <1>14, <2>1, PlanFacts DEF ChildMade
      <3> QED BY <1>14, <2>1, <3>1 DEF Own
    <2>2. ASSUME NEW q \in Restores, q # r, Live(db, q)
          PROVE  d2.ws[plan.name[q]] = db.ws[plan.name[q]]
      <3>1. plan.name[q] # plan.name[r] /\ plan.name[q] \in Names
        BY <1>1, <1>2, <2>2, NamesDiffer
      <3> QED BY <1>9, <1>14, <3>1 DEF ChildMade
    <2> QED BY <1>14, <2>1, <2>2 DEF Kept
  <1>21. RestoreOK(d2, r)
    <2>1. \A m \in Manifests : db.pub[r][m].phase \notin ActivePublications
      BY <1>1 DEF Shape, Building, ActivePublications
    <2>2. Shape(d2, r)
      BY <1>1, <1>4, <1>14, <2>1 DEF Shape, Early, Building
    <2>3. LedgerOK(d2, r)
      BY <1>4, <1>14 DEF LedgerOK, Building
    <2>4. NameOK(d2, r)
      BY <1>15 DEF NameOK
    <2>5. FreshOK(d2, r)
      BY <1>1, <1>14 DEF FreshOK
    <2> QED BY <2>2, <2>3, <2>4, <2>5 DEF RestoreOK
  <1>22. CommitOK(d2, r)
    <2>1. /\ db.member[r] = db.entry[r] /\ db.ref[r] = {x[2] : x \in db.member[r]}
          /\ db.ledger[r] \subseteq db.entry[r] /\ ManifestRows(r) \subseteq db.entry[r]
          /\ db.entry[r] \subseteq db.ledger[r] \cup ManifestRows(r)
      BY <1>1 DEF Shape, Building
    <2>2. db.ledger[r] = Materialized(RowsOf(db, r))
      BY <1>1 DEF LedgerOK, Building
    <2>3. RowsOf(d2, r) = RowsOf(db, r)
      BY <1>14 DEF RowsOf
    <2>4. db.member[r] = Content(d2, r)
      BY <1>1, <2>1, <2>2, <2>3 DEF Content
    <2> QED BY <1>14, <2>1, <2>4 DEF CommitOK
  <1>23. \A c \in Commits : d2.commit[c].state = "Sealed" /\ db.commit[c].state # "Sealed"
            => CommitOK(d2, c)
    BY <1>14, <1>22
  <1>24. \A q \in Restores : q \in {r} => RestoreOK(d2, q)
    BY <1>21
  <1>25. StoreOK(d2)
    BY <1>14, <1>16, <1>17, <1>18, <1>19, <1>20, <1>23, <1>24, StepKeeps
  <1> QED BY <1>4, <1>9, <1>14, <1>25 DEF ChildMade

-----------------------------------------------------------------------------
(* The phases of a restore go one way.                                     *)

LEMMA RankFacts ==
    /\ \A p : Rank(p) \in Nat
    /\ \A p : Rank(p) # 0 <=> p \in ForwardPhases
    /\ \A p, q \in ForwardPhases : Rank(p) = Rank(q) => p = q
  <1>1. /\ Rank("SourceSealed") = 1 /\ Rank("DestinationBuilding") = 2
        /\ Rank("DestinationSealing") = 3 /\ Rank("Ready") = 4 /\ Rank("Complete") = 5
    BY DEF Rank
  <1>2. \A p : p \notin ForwardPhases => Rank(p) = 0
    BY DEF Rank, ForwardPhases
  <1> QED BY <1>1, <1>2 DEF ForwardPhases

\* Neither a result nor an abort is taken back, and no progress but by an abort.
Onward(p, q) ==
    /\ p = "Complete" => q = "Complete"
    /\ p \in AbortPhases => q \in AbortPhases
    /\ q \in AbortPhases \/ Rank(q) >= Rank(p)
PhasesMove(d, d2) == \A q \in Restores : Onward(d.op[q].phase, d2.op[q].phase)

LEMMA OnwardSame ==
    ASSUME NEW p
    PROVE  Onward(p, p)
  BY RankFacts DEF Onward

\* The phases the steps go through.
LEMMA OnwardSteps ==
    /\ Onward("None", "Preparing") /\ Onward("Preparing", "Copying")
    /\ Onward("Copying", "SourceSealed") /\ Onward("SourceSealed", "DestinationBuilding")
    /\ Onward("DestinationBuilding", "DestinationSealing")
    /\ Onward("DestinationSealing", "Ready") /\ Onward("Ready", "Complete")
    /\ \A p \in Abortable : Onward(p, "Aborting")
    /\ Onward("Aborting", "Cleaning") /\ Onward("Cleaning", "Cleaned")
    /\ Onward("Cleaning", "Quarantined")
  <1>1. /\ Rank("None") = 0 /\ Rank("Preparing") = 0 /\ Rank("Copying") = 0
        /\ Rank("SourceSealed") = 1 /\ Rank("DestinationBuilding") = 2
        /\ Rank("DestinationSealing") = 3 /\ Rank("Ready") = 4 /\ Rank("Complete") = 5
    BY DEF Rank
  <1> QED BY <1>1, RankFacts DEF Onward, Abortable, AbortPhases, ForwardPhases

\* Restore r is now in phase ph, and the others are as they were.
OpMoved(d, d2, r, ph) ==
    d2.op[r].phase = ph /\ \A q \in Restores : q # r => d2.op[q] = d.op[q]

LEMMA MoveOne ==
    ASSUME NEW d, NEW d2, NEW r \in Restores, NEW ph, OpMoved(d, d2, r, ph),
           Onward(d.op[r].phase, ph)
    PROVE  PhasesMove(d, d2)
  BY OnwardSame DEF OpMoved, PhasesMove

LEMMA MoveNone ==
    ASSUME NEW d, NEW d2, d2.op = d.op
    PROVE  PhasesMove(d, d2)
  BY OnwardSame DEF PhasesMove

LEMMA PhaseMoves ==
    ASSUME NEW d \in Stores, NEW r \in Restores, NEW d2, NEW ph, d2 = SetPhase(d, r, ph)
    PROVE  OpMoved(d, d2, r, ph)
  <1>1. d.op \in [Restores -> OpRows] /\ d.op[r] \in OpRows
    BY DEF Stores
  <1>2. d2.op = [d.op EXCEPT ![r].phase = ph]
    BY DEF SetPhase, Stores
  <1> QED BY <1>1, <1>2 DEF OpMoved, OpRows

LEMMA RecordMoves ==
    ASSUME NEW d, d.op \in [Restores -> OpRows], NEW r \in Restores, NEW d2, NEW o,
           d2.op = [d.op EXCEPT ![r] = o]
    PROVE  OpMoved(d, d2, r, o.phase)
  BY DEF OpMoved

LEMMA SetPhaseMoves ==
    ASSUME plan \in Plans, db \in Stores, NEW r \in Restores,
           \/ StartCopy(r) \/ CopyOverflows(r) \/ SealSource(r) \/ AbortRestore(r)
           \/ BeginCleaning(r)
    PROVE  PhasesMove(db, db')
  <1>1. PICK d2 : d2 = db'
    OBVIOUS
  <1>2. \/ d2 = SetPhase(db, r, "Copying") /\ db.op[r].phase = "Preparing"
        \/ d2 = SetPhase(db, r, "Aborting") /\ db.op[r].phase \in Abortable
        \/ d2 = SetPhase(db, r, "SourceSealed") /\ db.op[r].phase = "Copying"
        \/ d2 = SetPhase(db, r, "Cleaning") /\ db.op[r].phase = "Aborting"
    BY <1>1 DEF StartCopy, CopyOverflows, SealSource, AbortRestore, BeginCleaning, Rows, Abortable
  <1>3. \E ph : OpMoved(db, d2, r, ph) /\ Onward(db.op[r].phase, ph)
    BY <1>2, PhaseMoves, OnwardSteps
  <1>4. PhasesMove(db, d2)
    BY <1>3, MoveOne
  <1> QED BY <1>1, <1>4

\* Steps that only keep accounts.
LEMMA AccountMoves ==
    ASSUME plan \in Plans, db \in Stores, NEW r \in Restores,
           CopyBatch(r) \/ BindDestination(r) \/ CleanRestore(r)
    PROVE  PhasesMove(db, db')
  <1>1. PICK d2 : d2 = db'
    OBVIOUS
  <1>2. db.op \in [Restores -> OpRows] /\ db.op[r] \in OpRows
    BY DEF Stores
  <1>3. d2 = db \/ \E o : d2.op = [db.op EXCEPT ![r] = o] /\ o.phase = db.op[r].phase
    <2>1. CASE CopyBatch(r)
      <3>1. PICK S : d2 = Copied(r, S)
        BY <1>1, <2>1 DEF CopyBatch, Rows
      <3>2. PICK o : o = [db.op[r] EXCEPT !.cursor = Last(S, db.op[r].cursor),
                             !.copied = db.op[r].copied + Cardinality(Materialized(S)),
                             !.eof = (S = Beyond(SourceRows(r), db.op[r].cursor))]
        OBVIOUS
      <3>3. d2.op = [db.op EXCEPT ![r] = o]
        BY <3>1, <3>2 DEF Copied, Stores
      <3>4. o.phase = db.op[r].phase
        BY <1>2, <3>2 DEF OpRows
      <3> QED BY <3>3, <3>4
    <2>2. CASE BindDestination(r)
      <3>1. d2.op = [db.op EXCEPT ![r].bound = TRUE]
        BY <1>1, <2>2 DEF BindDestination, Rows, Stores
      <3>2. PICK o : o = [db.op[r] EXCEPT !.bound = TRUE]
        OBVIOUS
      <3>3. d2.op = [db.op EXCEPT ![r] = o] /\ o.phase = db.op[r].phase
        BY <1>2, <3>1, <3>2 DEF OpRows
      <3> QED BY <3>3
    <2>3. CASE CleanRestore(r)
      <3>1. \/ d2 = db
            \/ \E S : RefsCleaned(db, d2, r, S)
            \/ \E S : MembersCleaned(db, d2, r, S)
            \/ \E S : PathsCleaned(db, d2, r, S)
        BY <1>1, <2>3 DEF CleanRestore, CleanScaffolding, CleanLedger, Fail, Rows, RefsCleaned,
                          MembersCleaned, PathsCleaned
      <3>2. ASSUME NEW S, RefsCleaned(db, d2, r, S)
            PROVE  \E o : d2.op = [db.op EXCEPT ![r] = o] /\ o.phase = db.op[r].phase
        <4>1. PICK o : o = [db.op[r] EXCEPT !.unrefs = db.op[r].unrefs + Cardinality(S)]
          OBVIOUS
        <4>2. d2.op = [db.op EXCEPT ![r] = o] /\ o.phase = db.op[r].phase
          BY <1>2, <3>2, <4>1 DEF RefsCleaned, Stores, OpRows
        <4> QED BY <4>2
      <3>3. ASSUME NEW S, MembersCleaned(db, d2, r, S)
            PROVE  \E o : d2.op = [db.op EXCEPT ![r] = o] /\ o.phase = db.op[r].phase
        <4>1. PICK o : o = [db.op[r] EXCEPT !.unmembers = db.op[r].unmembers + Cardinality(S)]
          OBVIOUS
        <4>2. d2.op = [db.op EXCEPT ![r] = o] /\ o.phase = db.op[r].phase
          BY <1>2, <3>3, <4>1 DEF MembersCleaned, Stores, OpRows
        <4> QED BY <4>2
      <3>4. ASSUME NEW S, PathsCleaned(db, d2, r, S)
            PROVE  \E o : d2.op = [db.op EXCEPT ![r] = o] /\ o.phase = db.op[r].phase
        <4>1. PICK o : o = [db.op[r] EXCEPT !.uncopied = db.op[r].uncopied + Cardinality(S)]
          OBVIOUS
        <4>2. d2.op = [db.op EXCEPT ![r] = o] /\ o.phase = db.op[r].phase
          BY <1>2, <3>4, <4>1 DEF PathsCleaned, Stores, OpRows
        <4> QED BY <4>2
      <3> QED BY <3>1, <3>2, <3>3, <3>4
    <2> QED BY <2>1, <2>2, <2>3
  <1>4. CASE d2 = db
    BY <1>1, <1>4, MoveNone
  <1>5. CASE \E o : d2.op = [db.op EXCEPT ![r] = o] /\ o.phase = db.op[r].phase
    <2>1. PICK o : d2.op = [db.op EXCEPT ![r] = o] /\ o.phase = db.op[r].phase
      BY <1>5
    <2>2. OpMoved(db, d2, r, db.op[r].phase)
      BY <1>2, <2>1 DEF OpMoved
    <2>3. PhasesMove(db, d2)
      BY <2>2, MoveOne, OnwardSame
    <2> QED BY <1>1, <2>3
  <1> QED BY <1>3, <1>4, <1>5

\* The steps of a request.
LEMMA FinalizeMoves ==
    ASSUME plan \in Plans, StoreOK(db), NEW s \in Sessions,
           \/ Initialize(s) \/ BuildMembers(s) \/ SealRevisions(s)
    PROVE  PhasesMove(db, db') /\ db'.op[plan.session[s]].phase \in ForwardPhases
  <1>0. PICK r \in Restores : r = plan.session[s]
    BY PlanFacts
  <1>1. PICK d2 : d2 = db'
    OBVIOUS
  <1>2. db \in Stores /\ db.op \in [Restores -> OpRows] /\ db.op[r] \in OpRows
    BY DEF StoreOK, Stores
  <1>3. \/ d2 = db
        \/ \E o : /\ d2.op = [db.op EXCEPT ![r] = o] /\ Onward(db.op[r].phase, o.phase)
                  /\ o.phase \in ForwardPhases
    <2>1. CASE Initialize(s)
      <3>1. /\ db.op[r].phase = "SourceSealed"
            /\ d2 = db \/ d2 = [db EXCEPT !.op[r].phase = "DestinationBuilding",
                                          !.op[r].manifests = TRUE]
        BY <1>0, <1>1, <2>1 DEF Initialize, Advance
      <3>2. PICK o : o = [db.op[r] EXCEPT !.phase = "DestinationBuilding", !.manifests = TRUE]
        OBVIOUS
      <3>3. o.phase = "DestinationBuilding"
        BY <1>2, <3>2 DEF OpRows
      <3>4. ASSUME d2 # db PROVE d2.op = [db.op EXCEPT ![r] = o]
        <4>1. d2 = [db EXCEPT !.op[r].phase = "DestinationBuilding", !.op[r].manifests = TRUE]
          BY <3>1, <3>4
        <4>2. d2 = [db EXCEPT !.op[r] = o]
          BY <1>2, <3>2, <4>1 DEF Stores
        <4> QED BY <1>2, <4>2 DEF Stores
      <3>5. Onward(db.op[r].phase, o.phase) /\ o.phase \in ForwardPhases
        BY <3>1, <3>3, OnwardSteps DEF ForwardPhases
      <3> QED BY <3>4, <3>5
    <2>2. CASE BuildMembers(s)
      <3>1. PICK S, b : d2 = Built(r, S, b)
        BY <1>0, <1>1, <2>2 DEF BuildMembers, Advance
      <3>2. PICK o : o = [db.op[r] EXCEPT !.memberCursor = Last(S, db.op[r].memberCursor),
                             !.members = db.op[r].members + Cardinality(S),
                             !.refs = db.op[r].refs + Cardinality({x[2] : x \in S} \ db.ref[r]),
                             !.phase = IF b THEN "DestinationSealing" ELSE db.op[r].phase]
        OBVIOUS
      <3>3. d2.op = [db.op EXCEPT ![r] = o]
        BY <1>2, <3>1, <3>2 DEF Built, Stores
      <3>4. o.phase = "DestinationSealing" \/ o.phase = db.op[r].phase
        BY <1>2, <3>2 DEF OpRows
      <3>5. db.op[r].phase = "DestinationBuilding"
        BY <1>0, <2>2 DEF BuildMembers
      <3>6. Onward(db.op[r].phase, o.phase) /\ o.phase \in ForwardPhases
        BY <3>4, <3>5, OnwardSteps, OnwardSame DEF ForwardPhases
      <3> QED BY <3>3, <3>6
    <2>3. CASE SealRevisions(s)
      <3>1. /\ db.op[r].phase = "DestinationSealing"
            /\ \/ d2 = db
               \/ d2 = [db EXCEPT !.op[r].sealed = @ + BatchSize]
               \/ d2 = [db EXCEPT !.op[r].sealed = @ + (db.op[r].refs - db.op[r].sealed),
                                  !.op[r].phase = "Ready"]
        BY <1>0, <1>1, <2>3 DEF SealRevisions, Advance
      <3>2. PICK o, p : /\ o = [db.op[r] EXCEPT !.sealed = @ + BatchSize]
                        /\ p = [db.op[r] EXCEPT !.sealed = @ + (db.op[r].refs - db.op[r].sealed),
                                                !.phase = "Ready"]
        OBVIOUS
      <3>3. o.phase = db.op[r].phase /\ p.phase = "Ready"
        BY <1>2, <3>2 DEF OpRows
      <3>4. ASSUME d2 = [db EXCEPT !.op[r].sealed = @ + BatchSize]
            PROVE  d2.op = [db.op EXCEPT ![r] = o]
        <4>1. d2 = [db EXCEPT !.op[r] = o]
          BY <1>2, <3>2, <3>4 DEF Stores
        <4> QED BY <1>2, <4>1 DEF Stores
      <3>5. ASSUME d2 = [db EXCEPT !.op[r].sealed = @ + (db.op[r].refs - db.op[r].sealed),
                                   !.op[r].phase = "Ready"]
            PROVE  d2.op = [db.op EXCEPT ![r] = p]
        <4>1. d2 = [db EXCEPT !.op[r] = p]
          BY <1>2, <3>2, <3>5 DEF Stores
        <4> QED BY <1>2, <4>1 DEF Stores
      <3>6. /\ Onward(db.op[r].phase, o.phase) /\ Onward(db.op[r].phase, p.phase)
            /\ o.phase \in ForwardPhases /\ p.phase \in ForwardPhases
        BY <3>1, <3>3, OnwardSteps, OnwardSame DEF ForwardPhases
      <3> QED BY <3>1, <3>4, <3>5, <3>6
    <2> QED BY <2>1, <2>2, <2>3
  <1>4. CASE d2 = db
    <2>1. db.op[r].phase \in ForwardPhases
      BY <1>0 DEF Initialize, BuildMembers, SealRevisions, ForwardPhases
    <2>2. PhasesMove(db, d2)
      BY <1>4, MoveNone
    <2> QED BY <1>0, <1>1, <1>4, <2>1, <2>2
  <1>5. CASE \E o : /\ d2.op = [db.op EXCEPT ![r] = o] /\ Onward(db.op[r].phase, o.phase)
                    /\ o.phase \in ForwardPhases
    <2>1. PICK o : /\ d2.op = [db.op EXCEPT ![r] = o] /\ Onward(db.op[r].phase, o.phase)
                   /\ o.phase \in ForwardPhases
      BY <1>5
    <2>2. OpMoved(db, d2, r, o.phase)
      BY <1>2, <2>1 DEF OpMoved
    <2>3. PhasesMove(db, d2)
      BY <2>1, <2>2, MoveOne
    <2>4. d2.op[r].phase \in ForwardPhases
      BY <2>1, <2>2 DEF OpMoved
    <2> QED BY <1>0, <1>1, <2>3, <2>4
  <1> QED BY <1>3, <1>4, <1>5

-----------------------------------------------------------------------------
(* Requests.                                                               *)

LEMMA SeenOnward ==
    ASSUME NEW e, NEW p, NEW q, Seen(e, p), Onward(p, q)
    PROVE  Seen(e, q)
  <1>1. Rank(p) \in Nat /\ Rank(q) \in Nat /\ Rank(e.at) \in Nat
    BY RankFacts
  <1> QED BY <1>1 DEF Seen, Onward

LEMMA SessionKept ==
    ASSUME plan \in Plans, NEW d, NEW d2, NEW se, SessionOK(d, se), PhasesMove(d, d2)
    PROVE  SessionOK(d2, se)
  <1> SUFFICES ASSUME NEW s \in Sessions
               PROVE  Seen(se[s], d2.op[plan.session[s]].phase)
    BY DEF SessionOK
  <1>1. Seen(se[s], d.op[plan.session[s]].phase)
    BY DEF SessionOK
  <1>2. Onward(d.op[plan.session[s]].phase, d2.op[plan.session[s]].phase)
    BY PlanFacts DEF PhasesMove
  <1> QED BY <1>1, <1>2, SeenOnward

LEMMA SessionSet ==
    ASSUME plan \in Plans, NEW d, NEW d2, NEW se \in [Sessions -> Sess], SessionOK(d, se),
           PhasesMove(d, d2), NEW s \in Sessions, NEW e \in Sess, NEW se2,
           se2 = [se EXCEPT ![s] = e], Seen(e, d2.op[plan.session[s]].phase)
    PROVE  se2 \in [Sessions -> Sess] /\ SessionOK(d2, se2)
  <1>1. SessionOK(d2, se)
    BY SessionKept
  <1>2. se2 \in [Sessions -> Sess] /\ se2[s] = e /\ \A q \in Sessions : q # s => se2[q] = se[q]
    OBVIOUS
  <1> QED BY <1>1, <1>2 DEF SessionOK

\* What a request makes of a forward phase it saw.
Told(phase) == IF phase = "Complete" THEN [at |-> "done", answer |-> "Restored"]
                                     ELSE [at |-> phase, answer |-> "none"]

LEMMA ToldFacts ==
    ASSUME NEW phase \in ForwardPhases
    PROVE  Told(phase) \in Sess /\ Seen(Told(phase), phase)
  <1>1. Rank(phase) \in Nat
    BY RankFacts
  <1>2. CASE phase = "Complete"
    BY <1>2 DEF Told, Sess, Seen, ForwardPhases
  <1>3. CASE phase # "Complete"
    BY <1>1, <1>3 DEF Told, Sess, Seen
  <1> QED BY <1>2, <1>3

RefusedEntry == [at |-> "done", answer |-> "Refused"]

LEMMA RefusedFacts ==
    ASSUME NEW phase \in AbortPhases
    PROVE  RefusedEntry \in Sess /\ Seen(RefusedEntry, phase)
  BY DEF RefusedEntry, Sess, Seen, ForwardPhases

LEMMA NoSessionFacts ==
    ASSUME NEW phase
    PROVE  NoSession \in Sess /\ Seen(NoSession, phase)
  BY DEF NoSession, Sess, Seen, ForwardPhases

\* A bound restore that was not given up is in a forward phase.
LEMMA BoundIsForward ==
    ASSUME StoreOK(db), NEW r \in Restores, db.op[r].bound, db.op[r].phase \notin AbortPhases
    PROVE  db.op[r].phase \in ForwardPhases
  <1>1. db.op[r] \in OpRows /\ Shape(db, r)
    BY DEF StoreOK, Stores
  <1>2. db.op[r].phase \in Phases /\ db.op[r].phase \notin Early
    BY <1>1 DEF OpRows, Shape
  <1> QED BY <1>2 DEF Phases, Early

\* In these phases the commit is built as the finalizer wants it, the source is
\* retained, the manifests are there and the name is staged: no request is
\* refused for want of them.
LEMMA ScaffoldingStands ==
    ASSUME plan \in Plans, StoreOK(db), NEW r \in Restores,
           db.op[r].phase \in {"DestinationSealing", "Ready"}
    PROVE  Scaffolded(r)
  <1>1. db \in Stores /\ RefsOK(db) /\ Shape(db, r) /\ r \in Commits
    BY PlanFacts DEF StoreOK
  <1>2. Available(db.rev, db.entry[r])
    BY <1>1, EntriesAvailable
  <1> QED BY <1>1, <1>2 DEF Scaffolded, Shape, Building

LEMMA SourceStands ==
    ASSUME plan \in Plans, StoreOK(db), NEW r \in Restores, Live(db, r)
    PROVE  Retained(r)
  <1>1. /\ PinsOK(db) /\ PinOK(db, r) /\ ConsumersOK(db) /\ SnapshotOK(db)
        /\ Source(r) \in Commits /\ Base \in Commits /\ r # Base
        /\ FromSnapshot(r) \in BOOLEAN /\ (FromSnapshot(r) => Source(r) = Base)
    BY PlanFacts DEF StoreOK, PinsOK
  <1>2. db.commit[Source(r)].state = "Sealed"
    BY <1>1, SourceSealed
  <1>3. \A A, x : IsFiniteSet(A) /\ x \in A => Cardinality(A) > 0
    BY FS_EmptySet, FS_CardinalityType
  <1>4. CASE FromSnapshot(r)
    <2>1. r \in db.hold /\ db.snapshot.state = "Active" /\ SnapshotConsumer \in db.consumer[Base]
      BY <1>1, <1>4 DEF PinOK, SnapshotOK
    <2>2. IsFiniteSet(db.hold \ {Base}) /\ r \in db.hold \ {Base}
      BY <1>1, <2>1, FS_Subset DEF SnapshotOK
    <2>3. db.snapshot.count > 0
      BY <1>1, <1>3, <2>2 DEF SnapshotOK
    <2>4. db.commit[Base].count > 0
      BY <1>1, <1>3, <2>1 DEF ConsumersOK
    <2> QED BY <1>1, <1>2, <1>4, <2>1, <2>3, <2>4 DEF Retained
  <1>5. CASE ~FromSnapshot(r)
    <2>1. Lease(r) \in db.consumer[Source(r)]
      BY <1>1, <1>5 DEF PinOK
    <2>2. db.commit[Source(r)].count > 0
      BY <1>1, <1>3, <2>1 DEF ConsumersOK
    <2> QED BY <1>2, <1>5, <2>1, <2>2 DEF Retained
  <1> QED BY <1>4, <1>5

LEMMA ManifestsStand ==
    ASSUME plan \in Plans, StoreOK(db), NEW r \in Restores, db.op[r].phase \in Building
    PROVE  ManifestsPublished(r) /\ Staging(r)
  <1>1. db \in Stores /\ RefsOK(db) /\ Shape(db, r) /\ NameOK(db, r) /\ r \in Commits
    BY PlanFacts DEF StoreOK
  <1>2. Available(db.rev, db.entry[r])
    BY <1>1, EntriesAvailable
  <1>3. ManifestRows(r) \subseteq db.entry[r] /\ \A m \in Manifests : db.pub[r][m].phase = "Published"
    BY <1>1 DEF Shape
  <1>4. Available(db.rev, ManifestRows(r))
    BY <1>2, <1>3 DEF Available
  <1>5. Live(db, r)
    BY DEF Live, Building
  <1> QED BY <1>1, <1>3, <1>4, <1>5 DEF ManifestsPublished, Staging, NameOK

-----------------------------------------------------------------------------
(* Every step keeps the rows, and moves phases onward.                     *)

RestoreSteps(r) ==
    \/ BeginRestore(r) \/ StartCopy(r) \/ CopyBatch(r) \/ CopyOverflows(r) \/ SealSource(r)
    \/ BindDestination(r) \/ AbortRestore(r) \/ BeginCleaning(r) \/ CleanRestore(r)
    \/ FinishCleanup(r)
ManifestActions(r, m) ==
    \/ BeginManifest(r, m) \/ PublishManifest(r, m) \/ AbortManifest(r, m)
    \/ TakeOverManifest(r, m) \/ CleanManifest(r, m) \/ ExpireManifest(r, m)
CommitSteps(c) == SupersedeHead(c) \/ RemovePath(c) \/ ReleaseRetired(c)
SnapshotActions ==
    \/ RetireSnapshot \/ ClaimExpiredSnapshot \/ FinishSnapshotReap
    \/ SnapshotOverdue \/ ObserveLeaseClock
Observations == ObserveExpiredSnapshot \/ \E c \in Commits : ObserveUnconsumed(c)
FinalizeSteps ==
    {<<"SourceSealed", "DestinationBuilding">>, <<"DestinationBuilding", "DestinationSealing">>,
     <<"DestinationSealing", "Ready">>, <<"Ready", "Complete">>}
Looks(s) ==
    \/ LoadRestore(s)
    \/ \E step \in FinalizeSteps :
          FinalizeConverges(s, step[1], step[2]) \/ FinalizeRefused(s, step[1], step[2])
BuildSteps(s) == Initialize(s) \/ BuildMembers(s) \/ SealRevisions(s)

LEMMA NextSplit ==
    ASSUME Next
    PROVE  \/ \E r \in Restores : RestoreSteps(r)
           \/ \E r \in Restores, m \in Manifests : ManifestActions(r, m)
           \/ \E s \in Sessions : Looks(s) \/ BuildSteps(s) \/ CompleteRestore(s)
           \/ \E c \in Commits : CommitSteps(c)
           \/ \E v \in Revisions : CollectRevision(v)
           \/ SnapshotActions \/ Observations \/ BeginRetirement \/ Restart
  <1>1. CASE Client
    BY <1>1 DEF Client, RestoreSteps, ManifestActions, Looks, BuildSteps, FinalizeSteps,
                SnapshotActions, CommitSteps
  <1>2. CASE Worker
    BY <1>2 DEF Worker, VisitRestore, VisitManifests, Settle, RestoreSteps, ManifestActions,
                SnapshotActions, CommitSteps, Observations
  <1>3. CASE Clock
    BY <1>3 DEF Clock, ExpireManifests, SnapshotActions, ManifestActions
  <1> QED BY <1>1, <1>2, <1>3 DEF Next

LEMMA SameStore ==
    ASSUME StoreOK(db), db' = db
    PROVE  StoreOK(db') /\ PhasesMove(db, db')
  <1>1. PICK d2 : d2 = db'
    OBVIOUS
  <1>2. d2 = db
    BY <1>1
  <1>3. StoreOK(d2) /\ PhasesMove(db, d2)
    BY <1>2, MoveNone
  <1> QED BY <1>1, <1>3

LEMMA FinishMoves ==
    ASSUME plan \in Plans, StoreOK(db), NEW r \in Restores, FinishCleanup(r)
    PROVE  StoreOK(db') /\ PhasesMove(db, db')
  <1>1. PICK d2 : d2 = db'
    OBVIOUS
  <1>2. db \in Stores /\ db.op[r].phase = "Cleaning"
    BY DEF StoreOK, FinishCleanup
  <1>3. CASE Finishable(r) = "quarantine"
    <2>1. d2 = SetPhase(db, r, "Quarantined")
      BY <1>1, <1>3 DEF FinishCleanup, Rows
    <2>2. PhaseSet(db, d2, r, "Quarantined")
      BY <2>1 DEF PhaseSet, SetPhase
    <2>3. StoreOK(d2)
      BY <1>2, <1>3, <2>2, QuarantineStep
    <2>4. OpMoved(db, d2, r, "Quarantined")
      BY <1>2, <2>1, PhaseMoves
    <2>5. PhasesMove(db, d2)
      BY <1>2, <2>4, MoveOne, OnwardSteps
    <2> QED BY <1>1, <2>3, <2>5
  <1>4. CASE Finishable(r) = "clean" /\ db' # db
    <2>1. /\ d2 = CleanedUp(r)
          /\ db.ledger[r] = {} /\ db.member[r] = {} /\ db.ref[r] = {}
      BY <1>1, <1>4 DEF FinishCleanup, Rows, Fail
    <2>2. /\ StoreOK(d2) /\ d2.op[r].phase = "Cleaned"
          /\ \A q \in Restores : q # r => d2.op[q] = db.op[q]
      BY <1>2, <1>4, <2>1, CleanedStep
    <2>3. OpMoved(db, d2, r, "Cleaned")
      BY <2>2 DEF OpMoved
    <2>4. PhasesMove(db, d2)
      BY <1>2, <2>3, MoveOne, OnwardSteps
    <2> QED BY <1>1, <2>2, <2>4
  <1>5. CASE db' = db
    BY <1>5, SameStore
  <1> QED BY <1>3, <1>4, <1>5 DEF FinishCleanup

LEMMA BeginMoves ==
    ASSUME plan \in Plans, StoreOK(db), NEW r \in Restores, BeginRestore(r)
    PROVE  StoreOK(db') /\ PhasesMove(db, db')
  <1>1. PICK d2 : d2 = db'
    OBVIOUS
  <1>2. /\ StoreOK(d2) /\ d2.op[r].phase = "Preparing"
        /\ \A q \in Restores : q # r => d2.op[q] = db.op[q]
    BY <1>1, BeginStep
  <1>3. OpMoved(db, d2, r, "Preparing") /\ db.op[r].phase = "None"
    BY <1>2 DEF OpMoved, BeginRestore
  <1>4. PhasesMove(db, d2)
    BY <1>3, MoveOne, OnwardSteps
  <1> QED BY <1>1, <1>2, <1>4

LEMMA RestoreMoves ==
    ASSUME plan \in Plans, StoreOK(db), NEW r \in Restores, RestoreSteps(r)
    PROVE  StoreOK(db') /\ PhasesMove(db, db')
  <1>1. db \in Stores
    BY DEF StoreOK
  <1>2. CASE StartCopy(r) \/ CopyOverflows(r) \/ SealSource(r) \/ AbortRestore(r) \/ BeginCleaning(r)
    BY <1>1, <1>2, StartCopyStep, AbortSteps, SealSourceStep, SetPhaseMoves
  <1>3. CASE CopyBatch(r) \/ BindDestination(r)
    BY <1>1, <1>3, CopyStep, BindStep, AccountMoves
  <1>4. CASE CleanRestore(r)
    BY <1>1, <1>4, CleanStep, SameStore, AccountMoves
  <1> QED BY <1>2, <1>3, <1>4, BeginMoves, FinishMoves DEF RestoreSteps

LEMMA ManifestMoves ==
    ASSUME plan \in Plans, StoreOK(db), NEW r \in Restores, NEW m \in Manifests,
           ManifestActions(r, m)
    PROVE  StoreOK(db') /\ PhasesMove(db, db')
  <1>1. db \in Stores
    BY DEF StoreOK
  <1>2. db'.op = db.op
    <2>1. CASE PublishManifest(r, m)
      BY <2>1, PublishStep
    <2>2. \/ db' = db \/ \E p : db' = [db EXCEPT !.pub[r][m] = p]
          \/ \E p : db' = [db EXCEPT !.pub[r][m].phase = p]
          \/ \E p : db' = [db EXCEPT !.pub[r][m].lease = p]
          \/ PublishManifest(r, m)
      BY DEF ManifestActions, BeginManifest, AbortManifest, TakeOverManifest, CleanManifest,
             ExpireManifest, Rows, Fail
    <2> QED BY <1>1, <2>1, <2>2 DEF Stores
  <1>3. StoreOK(db')
    BY ManifestSteps, PublishStep, ExpireStep, SameStore DEF ManifestActions
  <1>4. PhasesMove(db, db')
    <2>1. PICK d2 : d2 = db'
      OBVIOUS
    <2>2. PhasesMove(db, d2)
      BY <1>2, <2>1, MoveNone
    <2> QED BY <2>1, <2>2
  <1> QED BY <1>3, <1>4

LEMMA BuildMoves ==
    ASSUME plan \in Plans, StoreOK(db), NEW s \in Sessions, BuildSteps(s)
    PROVE  StoreOK(db') /\ PhasesMove(db, db')
  <1>1. PhasesMove(db, db')
    BY FinalizeMoves DEF BuildSteps
  <1>2. StoreOK(db')
    BY InitializeStep, BuildStep, SealRevisionsStep, SameStore DEF BuildSteps
  <1> QED BY <1>1, <1>2

LEMMA CompleteMoves ==
    ASSUME plan \in Plans, StoreOK(db), NEW s \in Sessions, CompleteRestore(s)
    PROVE  /\ StoreOK(db') /\ PhasesMove(db, db')
           /\ db'.op[plan.session[s]].phase = "Complete"
           /\ session' = [session EXCEPT ![s] = [at |-> "done", answer |-> "Restored"]]
  <1>0. PICK r \in Restores : r = plan.session[s]
    BY PlanFacts
  <1>1. PICK d2 : d2 = db'
    OBVIOUS
  <1>2. db.op[r].phase = "Ready"
    BY <1>0 DEF CompleteRestore
  <1>3. Retained(r) /\ Scaffolded(r) /\ ManifestsPublished(r) /\ Staging(r)
    <2>1. Live(db, r) /\ db.op[r].phase \in Building
      BY <1>2 DEF Live, Building
    <2> QED BY <1>2, <2>1, SourceStands, ScaffoldingStands, ManifestsStand
  <1>4. Completed(db, d2, r) /\ Saw(s, d2.op[r].phase)
    BY <1>0, <1>1, <1>3 DEF CompleteRestore, Advance, Completed
  <1>5. /\ StoreOK(d2) /\ d2.op[r].phase = "Complete"
        /\ \A q \in Restores : q # r => d2.op[q] = db.op[q]
    BY <1>2, <1>3, <1>4, CompleteStep
  <1>6. OpMoved(db, d2, r, "Complete")
    BY <1>5 DEF OpMoved
  <1>7. PhasesMove(db, d2)
    BY <1>2, <1>6, MoveOne, OnwardSteps
  <1>8. session' = [session EXCEPT ![s] = [at |-> "done", answer |-> "Restored"]]
    BY <1>4, <1>5 DEF Saw
  <1> QED BY <1>0, <1>1, <1>5, <1>7, <1>8

LEMMA OtherMoves ==
    ASSUME plan \in Plans, StoreOK(db), WorkerOK(worker),
           \/ \E c \in Commits : CommitSteps(c)
           \/ \E v \in Revisions : CollectRevision(v)
           \/ SnapshotActions \/ BeginRetirement \/ Restart
    PROVE  StoreOK(db') /\ PhasesMove(db, db')
  <1>1. db \in Stores
    BY DEF StoreOK
  <1>2. StoreOK(db') /\ db'.op = db.op
    <2>1. CASE \E c \in Commits : CommitSteps(c)
      BY <2>1, SupersedeStep, RemovePathStep, ReleaseSteps DEF CommitSteps
    <2>2. CASE \E v \in Revisions : CollectRevision(v)
      BY <2>2, CollectStep
    <2>3. CASE SnapshotActions
      BY <2>3, SnapshotSteps DEF SnapshotActions
    <2>4. CASE BeginRetirement
      BY <2>4, RetirementStep
    <2>5. CASE Restart
      <3>1. db'.op = db.op
        BY <1>1, <2>5 DEF Restart, Stores
      <3> QED BY <2>5, <3>1, RestartStep
    <2> QED BY <2>1, <2>2, <2>3, <2>4, <2>5
  <1>3. PICK d2 : d2 = db'
    OBVIOUS
  <1>4. PhasesMove(db, d2)
    BY <1>2, <1>3, MoveNone
  <1> QED BY <1>2, <1>3, <1>4

LEMMA StoreStep ==
    ASSUME IInv, Next
    PROVE  StoreOK(db') /\ PhasesMove(db, db')
  <1>1. plan \in Plans /\ StoreOK(db) /\ WorkerOK(worker)
    BY DEF IInv
  <1>2. CASE \E s \in Sessions : Looks(s)
    <2>1. db' = db
      BY <1>2 DEF Looks, LoadRestore, FinalizeConverges, FinalizeRefused, Converge
    <2> QED BY <1>1, <2>1, SameStore
  <1>3. CASE Observations
    <2>1. db' = db
      BY <1>3 DEF Observations, ObserveExpiredSnapshot, ObserveUnconsumed
    <2> QED BY <1>1, <2>1, SameStore
  <1>4. CASE \E r \in Restores : RestoreSteps(r)
    BY <1>1, <1>4, RestoreMoves
  <1>5. CASE \E r \in Restores, m \in Manifests : ManifestActions(r, m)
    BY <1>1, <1>5, ManifestMoves
  <1>6. CASE \E s \in Sessions : BuildSteps(s) \/ CompleteRestore(s)
    BY <1>1, <1>6, BuildMoves, CompleteMoves
  <1>7. CASE \/ \E c \in Commits : CommitSteps(c)
             \/ \E v \in Revisions : CollectRevision(v)
             \/ SnapshotActions \/ BeginRetirement \/ Restart
    BY <1>1, <1>7, OtherMoves
  <1> QED BY <1>2, <1>3, <1>4, <1>5, <1>6, <1>7, NextSplit

-----------------------------------------------------------------------------
(* What a step leaves alone, and what it tells its request.                *)

LEMMA RequestStays ==
    ASSUME NEW s, Looks(s) \/ BuildSteps(s) \/ CompleteRestore(s)
    PROVE  plan' = plan /\ worker' = worker
  <1>1. CASE LoadRestore(s)
    BY <1>1 DEF LoadRestore, Converge
  <1>2. CASE \E step \in FinalizeSteps : FinalizeConverges(s, step[1], step[2])
    BY <1>2 DEF FinalizeConverges, Converge
  <1>3. CASE \E step \in FinalizeSteps : FinalizeRefused(s, step[1], step[2])
    BY <1>3 DEF FinalizeRefused
  <1>4. CASE Initialize(s)
    BY <1>4 DEF Initialize, Advance
  <1>5. CASE BuildMembers(s)
    BY <1>5 DEF BuildMembers, Advance
  <1>6. CASE SealRevisions(s)
    BY <1>6 DEF SealRevisions, Advance
  <1>7. CASE CompleteRestore(s)
    BY <1>7 DEF CompleteRestore, Advance
  <1> QED BY <1>1, <1>2, <1>3, <1>4, <1>5, <1>6, <1>7 DEF Looks, BuildSteps

\* A step of a restore or of the worker on it leaves the plan and the requests.
LEMMA RestoreStays ==
    ASSUME NEW r, RestoreSteps(r)
    PROVE  plan' = plan /\ session' = session
  <1>1. CASE BeginRestore(r) \/ StartCopy(r)
    BY <1>1 DEF BeginRestore, StartCopy, Rows
  <1>2. CASE CopyBatch(r) \/ CopyOverflows(r)
    BY <1>2 DEF CopyBatch, CopyOverflows, Rows
  <1>3. CASE SealSource(r) \/ BindDestination(r) \/ AbortRestore(r)
    BY <1>3 DEF SealSource, BindDestination, AbortRestore, Rows
  <1>4. CASE BeginCleaning(r) \/ FinishCleanup(r)
    BY <1>4 DEF BeginCleaning, FinishCleanup, Fail, Rows
  <1>5. CASE CleanRestore(r)
    <2>1. CASE CleanScaffolding(r)
      BY <2>1 DEF CleanScaffolding, Fail, Rows
    <2>2. CASE CleanLedger(r)
      BY <2>2 DEF CleanLedger, Rows
    <2> QED BY <1>5, <2>1, <2>2 DEF CleanRestore
  <1> QED BY <1>1, <1>2, <1>3, <1>4, <1>5 DEF RestoreSteps

LEMMA ManifestStays ==
    ASSUME NEW r, NEW m, ManifestActions(r, m)
    PROVE  plan' = plan /\ session' = session /\ (worker' = worker \/ worker'.pc = "failed")
  <1>1. CASE BeginManifest(r, m)
    BY <1>1 DEF BeginManifest, Rows
  <1>2. CASE PublishManifest(r, m)
    BY <1>2 DEF PublishManifest, Rows
  <1>3. CASE AbortManifest(r, m) \/ ExpireManifest(r, m)
    BY <1>3 DEF AbortManifest, ExpireManifest, Rows
  <1>4. CASE TakeOverManifest(r, m)
    BY <1>4 DEF TakeOverManifest, Fail, Failed, Rows
  <1>5. CASE CleanManifest(r, m)
    BY <1>5 DEF CleanManifest, Fail, Failed, Rows
  <1> QED BY <1>1, <1>2, <1>3, <1>4, <1>5 DEF ManifestActions

LEMMA PlanStays ==
    ASSUME Next
    PROVE  plan' = plan
  <1>1. CASE \E r \in Restores : RestoreSteps(r)
    BY <1>1, RestoreStays
  <1>2. CASE \E r \in Restores, m \in Manifests : ManifestActions(r, m)
    BY <1>2, ManifestStays
  <1>3. CASE \E s \in Sessions : Looks(s) \/ BuildSteps(s) \/ CompleteRestore(s)
    BY <1>3, RequestStays
  <1>4. CASE \/ \E c \in Commits : CommitSteps(c)
             \/ \E v \in Revisions : CollectRevision(v)
    BY <1>4 DEF CommitSteps, SupersedeHead, RemovePath, ReleaseRetired, CollectRevision, Rows
  <1>5. CASE SnapshotActions \/ Observations \/ BeginRetirement \/ Restart
    BY <1>5 DEF SnapshotActions, RetireSnapshot, ClaimExpiredSnapshot, FinishSnapshotReap,
                SnapshotOverdue, ObserveLeaseClock, Observations, ObserveExpiredSnapshot,
                ObserveUnconsumed, BeginRetirement, Restart, Rows
  <1> QED BY <1>1, <1>2, <1>3, <1>4, <1>5, NextSplit

\* Only requests and restarts touch the requests.
LEMMA SessionStays ==
    ASSUME Next, ~Restart,
           ~\E s \in Sessions : Looks(s) \/ BuildSteps(s) \/ CompleteRestore(s)
    PROVE  session' = session
  <1>1. CASE \E r \in Restores : RestoreSteps(r)
    BY <1>1, RestoreStays
  <1>2. CASE \E r \in Restores, m \in Manifests : ManifestActions(r, m)
    BY <1>2, ManifestStays
  <1>4. CASE \/ \E c \in Commits : CommitSteps(c)
             \/ \E v \in Revisions : CollectRevision(v)
    BY <1>4 DEF CommitSteps, SupersedeHead, RemovePath, ReleaseRetired, CollectRevision, Rows
  <1>5. CASE SnapshotActions \/ Observations \/ BeginRetirement
    BY <1>5 DEF SnapshotActions, RetireSnapshot, ClaimExpiredSnapshot, FinishSnapshotReap,
                SnapshotOverdue, ObserveLeaseClock, Observations, ObserveExpiredSnapshot,
                ObserveUnconsumed, BeginRetirement, Rows
  <1> QED BY <1>1, <1>2, <1>4, <1>5, NextSplit

LEMMA WorkerStep ==
    ASSUME WorkerOK(worker), Next
    PROVE  WorkerOK(worker')
  <1>0. /\ worker' = worker => WorkerOK(worker')
        /\ worker'.pc # "retire" => WorkerOK(worker')
    BY DEF WorkerOK
  <1>1. CASE \E r \in Restores : RestoreSteps(r)
    <2> SUFFICES ASSUME NEW r \in Restores, RestoreSteps(r)
                 PROVE  worker' = worker \/ worker'.pc = "failed"
      BY <1>0, <1>1
    <2>1. CASE CleanRestore(r)
      <3>1. worker' = worker \/ worker' = Failed("cleanup")
        BY <2>1 DEF CleanRestore, CleanScaffolding, CleanLedger, Fail, Rows
      <3> QED BY <3>1 DEF Failed
    <2>2. CASE FinishCleanup(r)
      BY <2>2 DEF FinishCleanup, Fail, Failed, Rows
    <2>3. CASE BeginRestore(r) \/ StartCopy(r) \/ CopyBatch(r) \/ CopyOverflows(r)
      BY <2>3 DEF BeginRestore, StartCopy, CopyBatch, CopyOverflows, Rows
    <2>4. CASE SealSource(r) \/ BindDestination(r) \/ AbortRestore(r) \/ BeginCleaning(r)
      BY <2>4 DEF SealSource, BindDestination, AbortRestore, BeginCleaning, Rows
    <2> QED BY <2>1, <2>2, <2>3, <2>4 DEF RestoreSteps
  <1>2. CASE \E r \in Restores, m \in Manifests : ManifestActions(r, m)
    <2>1. worker' = worker \/ worker'.pc = "failed"
      BY <1>2, ManifestStays
    <2> QED BY <1>0, <2>1
  <1>3. CASE \E s \in Sessions : Looks(s) \/ BuildSteps(s) \/ CompleteRestore(s)
    <2>1. worker' = worker
      BY <1>3, RequestStays
    <2> QED BY <1>0, <2>1
  <1>4. CASE \/ \E c \in Commits : CommitSteps(c)
             \/ \E v \in Revisions : CollectRevision(v)
    <2>1. worker' = worker
      BY <1>4 DEF CommitSteps, SupersedeHead, RemovePath, ReleaseRetired, CollectRevision, Rows
    <2> QED BY <1>0, <2>1
  <1>5. CASE SnapshotActions \/ ObserveExpiredSnapshot \/ BeginRetirement \/ Restart
    <2>1. worker' = worker \/ worker'.pc \in {"failed", "idle", "reap"}
      BY <1>5 DEF SnapshotActions, RetireSnapshot, ClaimExpiredSnapshot, FinishSnapshotReap,
                SnapshotOverdue, ObserveLeaseClock, ObserveExpiredSnapshot,
                BeginRetirement, Restart, Rows, Failed, Idle
    <2> QED BY <1>0, <2>1
  <1>6. CASE \E c \in Commits : ObserveUnconsumed(c)
    BY <1>6 DEF ObserveUnconsumed, WorkerOK
  <1> QED BY <1>1, <1>2, <1>3, <1>4, <1>5, <1>6, NextSplit DEF Observations

\* A request that looked: what it saw is forward, or the restore was given up.
LEMMA LookTold ==
    ASSUME plan \in Plans, StoreOK(db), session \in [Sessions -> Sess], SessionOK(db, session),
           NEW s \in Sessions, Looks(s)
    PROVE  \E e \in Sess : /\ session' = [session EXCEPT ![s] = e]
                           /\ Seen(e, db.op[plan.session[s]].phase)
  <1>0. PICK r \in Restores : r = plan.session[s]
    BY PlanFacts
  <1>1. PICK ph : ph = db.op[r].phase
    OBVIOUS
  <1>2. SUFFICES \/ session' = [session EXCEPT ![s] = Told(ph)] /\ ph \in ForwardPhases
                 \/ session' = [session EXCEPT ![s] = RefusedEntry] /\ ph \in AbortPhases
    BY <1>0, <1>1, ToldFacts, RefusedFacts
  <1>3. CASE LoadRestore(s)
    <2>1. CASE ph \in AbortPhases
      BY <1>0, <1>1, <1>3, <2>1 DEF LoadRestore, Refuse, RefusedEntry
    <2>2. CASE ph \notin AbortPhases
      <3>1. ph \in ForwardPhases
        BY <1>0, <1>1, <1>3, <2>2, BoundIsForward DEF LoadRestore
      <3>2. session' = [session EXCEPT ![s] = Told(ph)]
        BY <1>0, <1>1, <1>3, <2>2 DEF LoadRestore, Converge, Saw, Told
      <3> QED BY <3>1, <3>2
    <2> QED BY <2>1, <2>2
  <1>4. ASSUME NEW step \in FinalizeSteps, FinalizeConverges(s, step[1], step[2])
        PROVE  session' = [session EXCEPT ![s] = Told(ph)] /\ ph \in ForwardPhases
    <2>1. session' = [session EXCEPT ![s] = Told(ph)] /\ Rank(ph) >= Rank(step[2])
      BY <1>0, <1>1, <1>4 DEF FinalizeConverges, Converge, Saw, Told, Reached
    <2>2. step[2] \in ForwardPhases
      BY <1>4 DEF FinalizeSteps, ForwardPhases
    <2>3. Rank(ph) # 0
      BY <2>1, <2>2, RankFacts
    <2> QED BY <2>1, <2>3, RankFacts
  <1>5. ASSUME NEW step \in FinalizeSteps, FinalizeRefused(s, step[1], step[2])
        PROVE  session' = [session EXCEPT ![s] = RefusedEntry] /\ ph \in AbortPhases
    <2>1. /\ session' = [session EXCEPT ![s] = RefusedEntry] /\ session[s].at = step[1]
          /\ ph # step[1] /\ ~(Rank(ph) >= Rank(step[2]))
      BY <1>0, <1>1, <1>5 DEF FinalizeRefused, Refuse, RefusedEntry, Reached, At
    <2>2. step[1] \in ForwardPhases /\ Rank(step[2]) = Rank(step[1]) + 1
      <3>1. /\ Rank("SourceSealed") = 1 /\ Rank("DestinationBuilding") = 2
            /\ Rank("DestinationSealing") = 3 /\ Rank("Ready") = 4 /\ Rank("Complete") = 5
        BY DEF Rank
      <3> QED BY <1>5, <3>1 DEF FinalizeSteps, ForwardPhases
    <2>3. ph \in AbortPhases \/ Rank(ph) >= Rank(step[1])
      <3>1. Seen(session[s], ph)
        BY <1>0, <1>1 DEF SessionOK
      <3> QED BY <2>1, <2>2, <3>1 DEF Seen
    <2>4. ASSUME ph \notin AbortPhases PROVE FALSE
      <3>1. Rank(ph) = Rank(step[1]) /\ Rank(step[1]) # 0
        BY <2>1, <2>2, <2>3, <2>4, RankFacts
      <3>2. ph \in ForwardPhases
        BY <3>1, RankFacts
      <3> QED BY <2>1, <2>2, <3>1, <3>2, RankFacts
    <2> QED BY <2>1, <2>4
  <1> QED BY <1>3, <1>4, <1>5 DEF Looks

\* A request that built: it is told the phase it has led to, or starts again.
LEMMA BuildTold ==
    ASSUME plan \in Plans, StoreOK(db), NEW s \in Sessions, BuildSteps(s)
    PROVE  \E e \in Sess : /\ session' = [session EXCEPT ![s] = e]
                           /\ Seen(e, db'.op[plan.session[s]].phase)
  <1>0. PICK r \in Restores : r = plan.session[s]
    BY PlanFacts
  <1>1. PICK ph : ph = db'.op[r].phase
    OBVIOUS
  <1>2. \/ session' = [session EXCEPT ![s] = Told(ph)]
        \/ session' = [session EXCEPT ![s] = NoSession]
    <2>1. CASE Initialize(s)
      BY <1>0, <1>1, <2>1 DEF Initialize, Advance, Saw, Told
    <2>2. CASE BuildMembers(s)
      BY <1>0, <1>1, <2>2 DEF BuildMembers, Advance, Saw, Told
    <2>3. CASE SealRevisions(s)
      <3>1. Scaffolded(r)
        BY <1>0, <2>3, ScaffoldingStands DEF SealRevisions
      <3> QED BY <1>0, <1>1, <2>3, <3>1 DEF SealRevisions, Advance, Saw, Told
    <2> QED BY <2>1, <2>2, <2>3 DEF BuildSteps
  <1>3. ph \in ForwardPhases
    BY <1>0, <1>1, FinalizeMoves DEF BuildSteps
  <1> QED BY <1>0, <1>1, <1>2, <1>3, ToldFacts, NoSessionFacts

-----------------------------------------------------------------------------
(* The initial rows.                                                       *)

LEMMA NothingRefers ==
    ASSUME NEW entry, NEW v, \A c \in Commits : entry[c] = {}
    PROVE  /\ PathRefs(entry, v) = {} /\ Referrers(entry, v) = {}
           /\ IsFiniteSet(PathRefs(entry, v)) /\ Cardinality(PathRefs(entry, v)) = 0
           /\ IsFiniteSet(Referrers(entry, v)) /\ Cardinality(Referrers(entry, v)) = 0
  <1>1. PathRefs(entry, v) = {}
    BY DEF PathRefs
  <1>2. Referrers(entry, v) = {}
    BY DEF Referrers
  <1> QED BY <1>1, <1>2, FS_EmptySet

\* One workspace whose rows are V and whose commit references T.
OneWorkspace(d, V, T) ==
    /\ d.entry = [c \in Commits |-> IF c = Base THEN V ELSE {}]
    /\ d.ref = [c \in Commits |-> IF c = Base THEN T ELSE {}]
OneCount(d, V, T, v) ==
    /\ IsFiniteSet(PathRefs(d.entry, v)) /\ IsFiniteSet(Referrers(d.ref, v))
    /\ Cardinality(PathRefs(d.entry, v)) + Cardinality(Referrers(d.ref, v)) = Referenced(V, T, v)
    /\ Referenced(V, T, v) \in Nat
    /\ (\A x \in V : x[2] # v) /\ v \notin T => Referenced(V, T, v) = 0

LEMMA FirstReferences ==
    ASSUME plan \in Plans, NEW d, NEW V, NEW T, IsFiniteSet(V), NEW v \in Revisions,
           OneWorkspace(d, V, T)
    PROVE  OneCount(d, V, T, v)
  <1>1. PICK none : none = [c \in Commits |-> {}]
    OBVIOUS
  <1>2. Base \in Commits /\ \A c \in Commits : none[c] = {}
    BY <1>1, PlanFacts
  <1>3. Grown(none, d.entry, Base, V) /\ V \cap none[Base] = {}
    BY <1>2 DEF Grown, OneWorkspace
  <1>4. Grown(none, d.ref, Base, T) /\ T \cap none[Base] = {}
    BY <1>2 DEF Grown, OneWorkspace
  <1>5. /\ IsFiniteSet(PathRefs(none, v)) /\ Cardinality(PathRefs(none, v)) = 0
        /\ IsFiniteSet(Referrers(none, v)) /\ Cardinality(Referrers(none, v)) = 0
    BY <1>2, NothingRefers
  <1>6. PICK e, f : e = d.entry /\ f = d.ref
    OBVIOUS
  <1>7. /\ IsFiniteSet(PathRefs(e, v))
        /\ Cardinality(PathRefs(e, v)) = 0 + Cardinality(Naming(V, v))
    BY <1>2, <1>3, <1>5, <1>6, PathsJoin
  <1>8. /\ IsFiniteSet(Referrers(f, v))
        /\ Cardinality(Referrers(f, v)) = 0 + Cardinality(Naming(CommitRefs(T), v))
    BY <1>2, <1>4, <1>5, <1>6, RefsJoin
  <1>9. IsFiniteSet(Naming(V, v)) /\ Cardinality(Naming(V, v)) \in Nat
    BY FS_Subset, FS_CardinalityType DEF Naming
  <1>10. Cardinality(Naming(CommitRefs(T), v)) = Cardinality({v} \cap T)
         /\ Cardinality({v} \cap T) \in {0, 1} /\ (v \notin T => Cardinality({v} \cap T) = 0)
    <2>1. CASE v \in T
      <3>1. {v} \cap T = {v}
        BY <2>1
      <3> QED BY <2>1, <3>1, NamingRefs, FS_Singleton
    <2>2. CASE v \notin T
      <3>1. {v} \cap T = {}
        BY <2>2
      <3> QED BY <2>2, <3>1, NamingRefs, FS_EmptySet
    <2> QED BY <2>1, <2>2
  <1>11. Referenced(V, T, v) = Cardinality(Naming(V, v)) + Cardinality({v} \cap T)
    BY DEF Referenced, Naming
  <1>12. (\A x \in V : x[2] # v) => Cardinality(Naming(V, v)) = 0
    <2>1. (\A x \in V : x[2] # v) => Naming(V, v) = {}
      BY DEF Naming
    <2> QED BY <2>1, FS_EmptySet
  <1> QED BY <1>6, <1>7, <1>8, <1>9, <1>10, <1>11, <1>12 DEF OneCount

LEMMA PlanRows ==
    ASSUME plan \in Plans
    PROVE  /\ IsFiniteSet({x[2] : x \in plan.members})
           /\ {x[2] : x \in plan.members} \subseteq Revisions
           /\ \A x \in plan.view : x[2] \in Revisions /\ x[2] \notin Restores \X Manifests
           /\ \A v \in Restores \X Manifests :
                 v \notin {x[2] : x \in plan.members} /\ \A x \in plan.view : x[2] # v
  <1>1. IsFiniteSet({x[2] : x \in plan.members})
    BY PlanFacts, ImageFinite
  <1>2. \A x \in plan.members \cup plan.view : x[2] \in Revisions /\ x[2] \notin Restores \X Manifests
    BY PlanFacts DEF RowSet
  <1> QED BY <1>1, <1>2

LEMMA InitStore ==
    ASSUME Init
    PROVE  StoreOK(db)
  <1>0. plan \in Plans
    BY DEF Init
  <1>1. PICK T, V : T = {x[2] : x \in plan.members} /\ V = plan.view
    OBVIOUS
  <1>2. /\ db.op = [r \in Restores |-> NoRestore]
        /\ db.ws = [n \in Names |-> [state |-> "Absent", owner |-> None]]
        /\ db.pub = [r \in Restores |-> [m \in Manifests |-> NoPublication]]
        /\ db.ledger = [r \in Restores |-> {}]
    BY DEF Init
  <1>3. /\ db.entry = [c \in Commits |-> IF c = Base THEN V ELSE {}]
        /\ db.member = [c \in Commits |-> IF c = Base THEN plan.members ELSE {}]
        /\ db.ref = [c \in Commits |-> IF c = Base THEN T ELSE {}]
    BY <1>1 DEF Init
  <1>4. /\ db.commit = [c \in Commits |->
                          IF c # Base THEN NoCommit
                          ELSE [state |-> "Sealed", count |-> IF Snapshotted THEN 2 ELSE 1]]
        /\ db.consumer = [c \in Commits |->
                            IF c # Base THEN {}
                            ELSE {<<"head", Base>>} \cup IF Snapshotted THEN {<<"snapshot", Base>>} ELSE {}]
    BY DEF Init
  <1>5. /\ db.snapshot = [state |-> IF Snapshotted THEN "Active" ELSE "Retired", count |-> 0,
                          overdue |-> FALSE, expired |-> FALSE]
        /\ db.hold = IF Snapshotted THEN {Base} ELSE {}
    BY DEF Init
  <1>6. db.rev = [v \in Revisions |->
                    IF v \in Restores \X Manifests THEN [state |-> "Absent", count |-> 0]
                    ELSE [state |-> "Available", count |-> Referenced(V, T, v)]]
    BY <1>1 DEF Init
  <1>7. /\ Base \in Commits /\ Base \notin Restores /\ Commits = {Base} \cup Restores
        /\ V \subseteq RowSet /\ plan.members \subseteq RowSet
        /\ IsFiniteSet(V) /\ IsFiniteSet(plan.members)
    BY <1>0, <1>1, PlanFacts
  <1>8. /\ IsFiniteSet(T) /\ T \subseteq Revisions
        /\ \A x \in V : x[2] \in Revisions /\ x[2] \notin Restores \X Manifests
        /\ \A v \in Restores \X Manifests : v \notin T /\ \A x \in V : x[2] # v
    BY <1>0, <1>1, PlanRows
  <1>9. \A v \in Revisions :
           /\ IsFiniteSet(PathRefs(db.entry, v)) /\ IsFiniteSet(Referrers(db.ref, v))
           /\ Cardinality(PathRefs(db.entry, v)) + Cardinality(Referrers(db.ref, v))
                = Referenced(V, T, v)
           /\ Referenced(V, T, v) \in Nat
           /\ (\A x \in V : x[2] # v) /\ v \notin T => Referenced(V, T, v) = 0
    <2>1. OneWorkspace(db, V, T)
      BY <1>3 DEF OneWorkspace
    <2>2. \A v \in Revisions : OneCount(db, V, T, v)
      BY <1>0, <1>7, <2>1, FirstReferences
    <2> QED BY <2>2 DEF OneCount
  <1>10. db \in Stores
    <2>1. db.op \in [Restores -> OpRows]
      <3>1. NoRestore \in OpRows
        BY DEF NoRestore, OpRows, Phases
      <3> QED BY <1>2, <3>1
    <2>2. db.ws \in [Names -> NameRows]
      BY <1>2 DEF NameRows
    <2>3. db.pub \in [Restores -> [Manifests -> PubRows]]
      <3>1. NoPublication \in PubRows
        BY DEF NoPublication, PubRows
      <3> QED BY <1>2, <3>1
    <2>4. /\ db.ledger \in [Restores -> SUBSET RowSet] /\ db.entry \in [Commits -> SUBSET RowSet]
          /\ db.member \in [Commits -> SUBSET RowSet] /\ db.ref \in [Commits -> SUBSET Revisions]
      BY <1>2, <1>3, <1>7, <1>8
    <2>5. db.commit \in [Commits -> CommitRows]
      BY <1>4 DEF CommitRows, NoCommit
    <2>6. db.consumer \in [Commits -> SUBSET Consumers]
      <3>1. <<"head", Base>> \in Consumers /\ <<"snapshot", Base>> \in Consumers
        BY <1>7 DEF Consumers
      <3> QED BY <1>4, <3>1
    <2>7. db.snapshot \in SnapshotRows /\ db.hold \subseteq Commits
      BY <1>5, <1>7 DEF SnapshotRows
    <2>8. db.rev \in [Revisions -> RevRows]
      BY <1>6, <1>9 DEF RevRows
    <2>9. db = [op |-> db.op, ws |-> db.ws, pub |-> db.pub, entry |-> db.entry,
                ledger |-> db.ledger, commit |-> db.commit, member |-> db.member, ref |-> db.ref,
                consumer |-> db.consumer, snapshot |-> db.snapshot, hold |-> db.hold,
                rev |-> db.rev]
      BY DEF Init
    <2>10. PICK a1, a2, a3, a4, a5, a6, a7, a8, a9, a10, a11, a12 :
             /\ a1 = db.op /\ a2 = db.ws /\ a3 = db.pub /\ a4 = db.entry /\ a5 = db.ledger
             /\ a6 = db.commit /\ a7 = db.member /\ a8 = db.ref /\ a9 = db.consumer
             /\ a10 = db.snapshot /\ a11 = db.hold /\ a12 = db.rev
      OBVIOUS
    <2>11. [op |-> a1, ws |-> a2, pub |-> a3, entry |-> a4, ledger |-> a5, commit |-> a6,
            member |-> a7, ref |-> a8, consumer |-> a9, snapshot |-> a10, hold |-> a11,
            rev |-> a12] \in Stores
      BY <2>1, <2>2, <2>3, <2>4, <2>5, <2>6, <2>7, <2>8, <2>10 DEF Stores
    <2> QED BY <2>9, <2>10, <2>11
  <1>11. FiniteRows(db)
    BY <1>2, <1>3, <1>7, <1>8, FS_EmptySet DEF FiniteRows
  <1>12. RefsOK(db)
    <2> SUFFICES ASSUME NEW v \in Revisions PROVE CountedRev(db, v)
      BY DEF RefsOK
    <2>1. CASE v \in Restores \X Manifests
      <3>1. Referenced(V, T, v) = 0
        BY <1>8, <1>9, <2>1
      <3>2. db.rev[v] = [state |-> "Absent", count |-> 0]
        BY <1>6, <2>1
      <3> QED BY <1>9, <3>1, <3>2 DEF CountedRev
    <2>2. CASE v \notin Restores \X Manifests
      <3>1. db.rev[v] = [state |-> "Available", count |-> Referenced(V, T, v)]
        BY <1>6, <2>2
      <3> QED BY <1>9, <3>1 DEF CountedRev
    <2> QED BY <2>1, <2>2
  <1>13. ViewOK(db)
    <2>1. \A x \in plan.view : x[2] \in Revisions /\ x[2] \notin Restores \X Manifests
      BY <1>1, <1>8
    <2>2. \A v \in Revisions : v \notin Restores \X Manifests => db.rev[v].state = "Available"
      BY <1>6
    <2> QED BY <2>1, <2>2 DEF ViewOK, Available
  <1>14. ConsumersOK(db)
    <2>1. <<"head", Base>> # <<"snapshot", Base>>
      OBVIOUS
    <2>2. /\ IsFiniteSet({<<"head", Base>>}) /\ Cardinality({<<"head", Base>>}) = 1
      BY FS_Singleton
    <2>3. /\ IsFiniteSet({<<"head", Base>>} \cup {<<"snapshot", Base>>})
          /\ Cardinality({<<"head", Base>>} \cup {<<"snapshot", Base>>}) = 2
      <3>1. PICK A, x : A = {<<"head", Base>>} /\ x = <<"snapshot", Base>>
        OBVIOUS
      <3>2. IsFiniteSet(A) /\ Cardinality(A) = 1 /\ x \notin A
        BY <2>1, <2>2, <3>1
      <3>3. IsFiniteSet(A \cup {x}) /\ Cardinality(A \cup {x}) = Cardinality(A) + 1
        BY <3>2, FS_AddElement
      <3> QED BY <3>1, <3>2, <3>3
    <2>4. IsFiniteSet({}) /\ Cardinality({}) = 0
      BY FS_EmptySet
    <2> SUFFICES ASSUME NEW c \in Commits
                 PROVE  /\ IsFiniteSet(db.consumer[c])
                        /\ db.commit[c].count = Cardinality(db.consumer[c])
                        /\ db.consumer[c] # {} => db.commit[c].state = "Sealed"
      BY DEF ConsumersOK
    <2>5. CASE c # Base
      BY <1>4, <2>4, <2>5 DEF NoCommit
    <2>6. CASE c = Base /\ Snapshotted
      <3>1. /\ db.consumer[c] = {<<"head", Base>>} \cup {<<"snapshot", Base>>}
            /\ db.commit[c] = [state |-> "Sealed", count |-> 2]
        BY <1>4, <2>6
      <3> QED BY <2>3, <3>1
    <2>7. CASE c = Base /\ ~Snapshotted
      <3>1. /\ db.consumer[c] = {<<"head", Base>>}
            /\ db.commit[c] = [state |-> "Sealed", count |-> 1]
        BY <1>4, <2>7
      <3> QED BY <2>2, <3>1
    <2> QED BY <2>5, <2>6, <2>7
  <1>15. \A c \in Commits : db.consumer[c] \subseteq {<<"head", Base>>, <<"snapshot", Base>>}
    BY <1>4
  <1>16. SnapshotOK(db)
    <2>1. IsFiniteSet(db.hold) /\ Cardinality(db.hold \ {Base}) = 0
      <3>1. db.hold \ {Base} = {}
        BY <1>5
      <3>2. IsFiniteSet(db.hold)
        BY <1>5, FS_EmptySet, FS_Singleton
      <3> QED BY <3>1, <3>2, FS_EmptySet
    <2>2. db.snapshot.state = "Active" <=> Snapshotted
      BY <1>5
    <2>3. (Base \in db.hold <=> Snapshotted) /\ (db.hold # {} => Snapshotted)
      BY <1>5
    <2>4. SnapshotConsumer \in db.consumer[Base] <=> Snapshotted
      <3>1. db.consumer[Base] = IF Snapshotted THEN {<<"head", Base>>, <<"snapshot", Base>>}
                                ELSE {<<"head", Base>>}
        BY <1>4, <1>7
      <3> QED BY <3>1 DEF SnapshotConsumer
    <2>5. db.snapshot.count = 0
      BY <1>5
    <2> QED BY <2>1, <2>2, <2>3, <2>4, <2>5 DEF SnapshotOK
  <1>17. ASSUME NEW r \in Restores
         PROVE  PinOK(db, r) /\ RestoreOK(db, r)
    <2>1. /\ r \in Commits /\ r # Base /\ Source(r) \in Commits
          /\ \A m \in Manifests : <<r, m>> \in Revisions
      BY <1>0, PlanFacts
    <2>2. /\ db.op[r] = NoRestore /\ db.ledger[r] = {} /\ db.entry[r] = {} /\ db.member[r] = {}
          /\ db.ref[r] = {} /\ db.commit[r] = NoCommit
          /\ \A m \in Manifests : db.pub[r][m] = NoPublication
      BY <1>2, <1>3, <1>4, <2>1
    <2>3. ~Live(db, r)
      BY <2>2 DEF Live, NoRestore
    <2>4. Lease(r) \notin db.consumer[Source(r)] /\ Child(r) \notin db.consumer[Source(r)]
      BY <1>15, <2>1 DEF Lease, Child
    <2>5. r \notin db.hold
      BY <1>5, <2>1
    <2>6. PinOK(db, r)
      BY <2>2, <2>3, <2>4, <2>5 DEF PinOK, NoCommit
    <2>7. Shape(db, r)
      BY <2>2 DEF Shape, NoRestore, NoPublication, NoCommit, Early, Building
    <2>8. LedgerOK(db, r) /\ NameOK(db, r)
      BY <2>2, <2>3 DEF LedgerOK, NameOK, NoRestore, Building
    <2>9. FreshOK(db, r)
      BY <1>6, <2>1 DEF FreshOK
    <2> QED BY <2>6, <2>7, <2>8, <2>9 DEF RestoreOK
  <1>18. ASSUME NEW c \in Commits PROVE CommitOK(db, c)
    BY <1>1, <1>3, <1>4 DEF CommitOK, Content, NoCommit
  <1> QED BY <1>10, <1>11, <1>12, <1>13, <1>14, <1>16, <1>17, <1>18 DEF StoreOK, PinsOK, RestoreOK

-----------------------------------------------------------------------------
(* The invariant is inductive.                                             *)

LEMMA SessionStep ==
    ASSUME IInv, Next
    PROVE  session' \in [Sessions -> Sess] /\ SessionOK(db', session')
  <1>1. /\ plan \in Plans /\ StoreOK(db) /\ session \in [Sessions -> Sess]
        /\ SessionOK(db, session)
    BY DEF IInv
  <1>2. PICK d2, se2 : d2 = db' /\ se2 = session'
    OBVIOUS
  <1>3. PhasesMove(db, d2)
    BY <1>2, StoreStep
  <1>4. ASSUME NEW s \in Sessions, Looks(s) \/ BuildSteps(s) \/ CompleteRestore(s)
        PROVE  se2 \in [Sessions -> Sess] /\ SessionOK(d2, se2)
    <2>1. \E e \in Sess : se2 = [session EXCEPT ![s] = e] /\ Seen(e, d2.op[plan.session[s]].phase)
      <3>1. CASE Looks(s)
        <4>1. db' = db
          BY <3>1 DEF Looks, LoadRestore, FinalizeConverges, FinalizeRefused, Converge
        <4> QED BY <1>1, <1>2, <3>1, <4>1, LookTold
      <3>2. CASE BuildSteps(s)
        BY <1>1, <1>2, <3>2, BuildTold
      <3>3. CASE CompleteRestore(s)
        <4>1. /\ d2.op[plan.session[s]].phase = "Complete"
              /\ se2 = [session EXCEPT ![s] = Told("Complete")]
          BY <1>1, <1>2, <3>3, CompleteMoves DEF Told
        <4>2. Told("Complete") \in Sess /\ Seen(Told("Complete"), "Complete")
          BY ToldFacts DEF ForwardPhases
        <4> QED BY <4>1, <4>2
      <3> QED BY <1>4, <3>1, <3>2, <3>3
    <2> QED BY <1>1, <1>3, <2>1, SessionSet
  <1>5. CASE Restart
    <2>1. se2 = [s \in Sessions |-> IF session[s].answer = "none" THEN NoSession ELSE session[s]]
      BY <1>2, <1>5 DEF Restart
    <2>2. se2 \in [Sessions -> Sess]
      BY <1>1, <2>1, NoSessionFacts
    <2>3. SessionOK(d2, session)
      BY <1>1, <1>3, SessionKept
    <2>4. SessionOK(d2, se2)
      BY <2>1, <2>3, NoSessionFacts DEF SessionOK
    <2> QED BY <1>2, <2>2, <2>4
  <1>6. CASE session' = session
    <2>1. SessionOK(d2, session)
      BY <1>1, <1>3, SessionKept
    <2> QED BY <1>1, <1>2, <1>6, <2>1
  <1> QED BY <1>2, <1>4, <1>5, <1>6, SessionStays

LEMMA SessionPlanKept ==
    ASSUME plan' = plan, NEW d, NEW se, SessionOK(d, se), se \in [Sessions -> Sess]
    PROVE  SessionOK(d, se)' /\ (se \in [Sessions -> Sess])'
  <1>1. Sessions' = Sessions
    BY DEF Sessions
  <1>2. \A e, p : Seen(e, p)' <=> Seen(e, p)
    BY DEF Seen, AbortPhases, ForwardPhases, Rank
  <1>3. Sess' = Sess
    BY DEF Sess, ForwardPhases
  <1> QED BY <1>1, <1>2, <1>3 DEF SessionOK

LEMMA StepInv ==
    ASSUME IInv, [Next]_vars
    PROVE  IInv'
  <1>1. CASE UNCHANGED vars
    <2>1. plan' = plan /\ db' = db /\ session' = session /\ worker' = worker
      BY <1>1 DEF vars
    <2>2. PICK d2, se2, w2 : d2 = db' /\ se2 = session' /\ w2 = worker'
      OBVIOUS
    <2>3. d2 = db /\ se2 = session /\ w2 = worker
      BY <2>1, <2>2
    <2>4. StoreOK(d2) /\ SessionOK(d2, se2) /\ se2 \in [Sessions -> Sess] /\ WorkerOK(w2)
      BY <2>3 DEF IInv
    <2>5. StoreOK(d2)' /\ SessionOK(d2, se2)' /\ (se2 \in [Sessions -> Sess])'
      BY <2>1, <2>4, PlanKept, SessionPlanKept
    <2>6. WorkerOK(w2)' /\ plan' \in Plans
      BY <2>1, <2>4 DEF IInv, WorkerOK, Commits, Restores
    <2> QED BY <2>2, <2>5, <2>6 DEF IInv
  <1>2. CASE Next
    <2>1. plan' = plan
      BY <1>2, PlanStays
    <2>2. PICK d2, se2, w2 : d2 = db' /\ se2 = session' /\ w2 = worker'
      OBVIOUS
    <2>3. StoreOK(d2)
      BY <1>2, <2>2, StoreStep
    <2>4. SessionOK(d2, se2) /\ se2 \in [Sessions -> Sess]
      BY <1>2, <2>2, SessionStep
    <2>5. WorkerOK(w2)
      BY <1>2, <2>2, WorkerStep DEF IInv
    <2>6. StoreOK(d2)' /\ SessionOK(d2, se2)' /\ (se2 \in [Sessions -> Sess])'
      BY <2>1, <2>3, <2>4, PlanKept, SessionPlanKept
    <2>7. WorkerOK(w2)' /\ plan' \in Plans
      BY <2>1, <2>5 DEF IInv, WorkerOK, Commits, Restores
    <2> QED BY <2>2, <2>6, <2>7 DEF IInv
  <1> QED BY <1>1, <1>2

LEMMA InitInv ==
    ASSUME Init
    PROVE  IInv
  <1>1. plan \in Plans /\ session = [s \in Sessions |-> NoSession] /\ worker = Idle
    BY DEF Init
  <1>2. session \in [Sessions -> Sess] /\ SessionOK(db, session)
    BY <1>1, NoSessionFacts DEF SessionOK
  <1>3. WorkerOK(worker)
    BY <1>1 DEF WorkerOK, Idle
  <1> QED BY <1>1, <1>2, <1>3, InitStore DEF IInv

-----------------------------------------------------------------------------
(* Theorems.                                                               *)

\* For every set of plans and every batch size the inductive invariant holds: the
\* rows keep their shape by phase, references and consumers are counted, a live
\* restore pins its source, and no request is ahead of its restore.
THEOREM Invariance == Spec => []IInv
  <1>1. Init => IInv
    BY InitInv
  <1>2. IInv /\ [Next]_vars => IInv'
    BY StepInv
  <1> QED BY <1>1, <1>2, PTL DEF Spec

LEMMA CommitReadable ==
    ASSUME plan \in Plans, StoreOK(db), NEW c \in Commits, db.commit[c].state = "Sealed"
    PROVE  Readable(db.member[c])
  <1>1. db \in Stores /\ RefsOK(db) /\ CommitOK(db, c)
    BY DEF StoreOK
  <1>2. \A x \in db.member[c] : x[2] \in Revisions /\ x[2] \in db.ref[c]
    BY <1>1 DEF CommitOK, Stores, RowSet
  <1> QED BY <1>1, <1>2, ReferencedAvailable DEF Readable

LEMMA SourceHeldFromInv ==
    ASSUME IInv
    PROVE  SourceHeld
  <1>1. plan \in Plans /\ StoreOK(db)
    BY DEF IInv
  <1>2. PinsOK(db) /\ SnapshotOK(db) /\ ViewOK(db)
    BY <1>1 DEF StoreOK, PinsOK
  <1>3. ASSUME NEW r \in Restores, Live(db, r)
        PROVE  /\ db.commit[Source(r)].state = "Sealed" /\ Readable(db.member[Source(r)])
               /\ FromSnapshot(r) => db.snapshot.state = "Active" /\ Readable(plan.view)
    <2>1. Source(r) \in Commits
      BY <1>1, PlanFacts
    <2>2. db.commit[Source(r)].state = "Sealed"
      BY <1>1, <1>2, <1>3, SourceSealed
    <2>3. Readable(db.member[Source(r)])
      BY <1>1, <2>1, <2>2, CommitReadable
    <2>4. ASSUME FromSnapshot(r) PROVE db.snapshot.state = "Active" /\ Readable(plan.view)
      <3>1. r \in db.hold
        BY <1>2, <1>3, <2>4 DEF PinsOK, PinOK
      <3> QED BY <1>2, <3>1 DEF SnapshotOK, ViewOK, Available, Readable
    <2> QED BY <2>2, <2>3, <2>4
  <1>4. ASSUME NEW r \in Restores, db.commit[r].state \in {"Sealed", "Claiming"}
        PROVE  db.commit[Source(r)].state = "Sealed" /\ <<"child", r>> \in db.consumer[Source(r)]
    <2>1. PinOK(db, r)
      BY <1>2 DEF PinsOK
    <2> QED BY <1>1, <1>2, <1>4, <2>1, SourceSealed DEF PinOK, Child
  <1> QED BY <1>3, <1>4 DEF SourceHeld, Live

\* From begin_restore until it completes or is cleaned up, the source of a restore
\* stays sealed, whole and readable, whatever is retired and collected meanwhile,
\* and the parent of a child commit stays sealed (validate_source_retention,
\* handoff_source_retention_to_child).
THEOREM SourceIsHeld == Spec => []SourceHeld
  <1>1. IInv => SourceHeld
    BY SourceHeldFromInv
  <1> QED BY <1>1, Invariance, PTL

\* The stored counts of consumers, of holds and of references are the numbers of
\* rows they stand for, in the middle of every copy, build, cleanup and retirement.
THEOREM CountsAreExact == Spec => []CountsExact
  <1>1. IInv => CountsExact
    BY DEF IInv, StoreOK, CountsExact, PinsOK, ConsumersOK, SnapshotOK, RefsOK, CountedRev,
           PathRefs, Referrers
  <1> QED BY <1>1, Invariance, PTL

\* Every sealed commit has exactly the artifacts of its source and its own
\* manifests, and all of them can be read (verify_source_and_members,
\* verify_destination_commit_scaffolding).
THEOREM RestoredCommitIsWhole == Spec => []RestoredIsWhole
  <1>1. ASSUME IInv PROVE RestoredIsWhole
    <2>1. plan \in Plans /\ StoreOK(db)
      BY <1>1 DEF IInv
    <2>2. ASSUME NEW c \in Commits, db.commit[c].state = "Sealed"
          PROVE  db.member[c] = Expected(c) /\ Readable(db.member[c])
      <3>1. db.member[c] = Content(db, c)
        BY <2>1, <2>2 DEF StoreOK, CommitOK
      <3>2. Content(db, c) = Expected(c)
        BY DEF Content, Expected, Materialized, RowsOf, ManifestRows
      <3> QED BY <2>1, <2>2, <3>1, <3>2, CommitReadable
    <2> QED BY <2>2 DEF RestoredIsWhole
  <1> QED BY <1>1, Invariance, PTL

\* A restore that was cleaned up leaves no path, ledger row, member, reference,
\* commit, hold or lease; and none that is over leaves a publication in progress
\* (finish_restore_cleanup, inspect_restore_cleanup_publications).
THEOREM CleanupLeavesNothing == Spec => []CleanedLeavesNothing
  <1>1. ASSUME IInv PROVE CleanedLeavesNothing
    <2>1. plan \in Plans /\ StoreOK(db)
      BY <1>1 DEF IInv
    <2>2. ASSUME NEW r \in Restores
          PROVE  /\ db.op[r].phase = "Cleaned" =>
                       /\ db.entry[r] = {} /\ db.ledger[r] = {} /\ db.member[r] = {}
                       /\ db.ref[r] = {} /\ db.commit[r].state = "Absent"
                       /\ r \notin db.hold /\ <<"lease", r>> \notin db.consumer[Source(r)]
                 /\ db.op[r].phase \in {"Complete", "Cleaned", "Quarantined"} =>
                       \A m \in Manifests :
                          db.pub[r][m].phase \notin {"Uploading", "Aborting", "Cleaning"}
      <3>1. Shape(db, r) /\ PinOK(db, r)
        BY <2>1 DEF StoreOK, PinsOK
      <3>2. db.op[r].phase = "Cleaned" => ~Live(db, r)
        BY DEF Live
      <3> QED BY <3>1, <3>2 DEF Shape, PinOK, Lease, ActivePublications
    <2> QED BY <2>2 DEF CleanedLeavesNothing
  <1> QED BY <1>1, Invariance, PTL

\* A finalize request is answered Restored only when its restore is complete and
\* refused only when it was given up, however many requests race.
THEOREM FinalizersAgree == Spec => []FinalizersConverge
  <1>1. IInv => FinalizersConverge
    BY DEF IInv, SessionOK, Seen, FinalizersConverge
  <1> QED BY <1>1, Invariance, PTL

\* No step, whoever takes it, brings a restore back: a complete one stays complete,
\* one that was given up never goes forward again, and any other only advances, so
\* a request may act on a phase it read earlier (forward_finalize_rank).
THEOREM RestoresMoveOnward == Spec => [][PhasesMove(db, db')]_vars
  <1>1. IInv /\ [Next]_vars => [PhasesMove(db, db')]_vars
    <2> SUFFICES ASSUME IInv, Next PROVE PhasesMove(db, db')
      OBVIOUS
    <2> QED BY StoreStep
  <1> QED BY <1>1, Invariance, PTL DEF Spec
=============================================================================
