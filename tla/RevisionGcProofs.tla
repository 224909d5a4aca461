-------------------------- MODULE RevisionGcProofs --------------------------
(***************************************************************************)
(* Proofs about RevisionGc, for every set of paths, builds and snapshots   *)
(* and every number of revisions, blocks and crashes: what can be resolved *)
(* is readable, reference counts are exact, and a revision is sealed       *)
(* Deleted only after its objects are gone.                                *)
(*                                                                         *)
(* Almost everything is said of one set of rows, StoreOK(d) and            *)
(* ObjectsOK(d, ...), and holds of the serving rows and of the durable     *)
(* ones, so that a crash has nothing to prove.  What relates the two is    *)
(* that a revision known to the durable rows is known to the serving ones  *)
(* (no identity is handed out twice) and that an object is deleted only    *)
(* when both have given its revision up.                                   *)
(***************************************************************************)
EXTENDS RevisionGc, FiniteSetTheorems, WellFoundedInduction, TLAPS

States == {"Absent", "Available", "Deleting", "Deleted", "Quarantined"}
RevRows == [state : States, epoch : Nat, count : Int, zero : Nat, deps : SUBSET Revisions]
RefRows == [kind : {"Path", "Commit", "Dependency"}, from : Paths \cup Builds \cup Revisions,
            to : Revisions]
CandRows == [rev : Revisions, epoch : Nat, zero : Nat,
             state : {"Candidate", "Claimed", "Complete", "Quarantined"}]
GcRows == [phase : {"None", "Claimed", "Deleting", "Deleted", "Quarantined"}, cursor : Nat]
Bindings == [Paths -> Revisions \cup {None}]
HoldRows == [version : Nat, view : Bindings]
BuildRows == [phase : {"None", "Building", "Complete", "Cleaning", "Cleaned"},
              left : SUBSET Paths]
Stores == [clock : Nat, rev : [Revisions -> RevRows], refs : SUBSET RefRows,
           cand : SUBSET CandRows, gc : [Revisions -> GcRows], hold : [Holders -> HoldRows],
           build : [Builds -> BuildRows], minted : SUBSET Snapshots, path : Bindings]
Workers == [pc : {"idle", "scan", "delete", "cleanup", "quarantine", "failed"},
            todo : SUBSET CandRows, raced : BOOLEAN, row : Nat, end : Nat]

Gone(d, r) == d.rev[r].state \in {"Deleting", "Deleted", "Quarantined"}
RefsTo(d, r) == {ref \in d.refs : ref.to = r}
Unreferenced(d, r) == Available(d, r) /\ d.rev[r].count = 0
Injective(bindings) == \A p, q \in Paths : bindings[p] = bindings[q] => p = q \/ bindings[p] = None

\* A count is the number of references, and each revision that has none is queued.
Counted(d) ==
    \A r \in Revisions : /\ IsFiniteSet(RefsTo(d, r))
                         /\ d.rev[r].count = Cardinality(RefsTo(d, r))
Queued(d) ==
    \A r \in Revisions : Unreferenced(d, r) =>
        [rev |-> r, epoch |-> d.rev[r].epoch, zero |-> d.rev[r].zero, state |-> "Candidate"] \in d.cand

\* A candidate of the current epoch tells since when nobody references it.
CandsOK(d) ==
    \A c \in d.cand :
        /\ d.rev[c.rev].state # "Absent"
        /\ c.epoch <= d.rev[c.rev].epoch
        /\ c.state # "Candidate" => Gone(d, c.rev)
        /\ c.epoch = d.rev[c.rev].epoch /\ Unreferenced(d, c.rev) => c.zero = d.rev[c.rev].zero

LiveRefs(d) == \A ref \in d.refs : Available(d, ref.to)

\* A held version names revisions that are referenced, or lost their last
\* reference after it.
HoldOK(d, h) ==
    /\ d.hold[h].version <= d.clock /\ Injective(d.hold[h].view)
    /\ \A p \in Paths : d.hold[h].view[p] # None =>
          /\ Available(d, d.hold[h].view[p])
          /\ d.rev[d.hold[h].view[p]].count = 0 =>
                d.hold[h].version < d.rev[d.hold[h].view[p]].zero
HoldsOK(d) == \A h \in Holders : HoldOK(d, h)

DepsOK(d) ==
    /\ \A r \in Revisions : d.rev[r].state \in {"Available", "Deleting"} =>
          \A o \in d.rev[r].deps : DependencyRef(r, o) \in d.refs
    /\ \A ref \in d.refs : ref.kind = "Dependency" =>
          ref.from \in Revisions /\ d.rev[ref.from].state # "Absent"

PathsOK(d) ==
    /\ Injective(d.path)
    /\ \A p \in Paths : d.path[p] # None => PathRef(p, d.path[p]) \in d.refs

\* What a build has still to reference.
BuildOK(d, b) ==
    /\ d.build[b].phase = "None" => \A r \in Revisions : CommitRef(b, r) \notin d.refs
    /\ d.build[b].phase = "Building" => \A p \in d.build[b].left :
          d.hold[b].view[p] # None /\ CommitRef(b, d.hold[b].view[p]) \notin d.refs
BuildsOK(d) == \A b \in Builds : BuildOK(d, b)

GcOK(d) ==
    \A r \in Revisions : d.gc[r].phase \in {"Claimed", "Deleting"} => d.rev[r].state = "Deleting"

\* The candidates, holds and collections agree with the revisions.
BooksOK(d) == Queued(d) /\ CandsOK(d) /\ HoldsOK(d) /\ GcOK(d)

\* The references agree with what they come from and what they name.
RefsOK(d) == LiveRefs(d) /\ DepsOK(d) /\ PathsOK(d) /\ BuildsOK(d)

StoreOK(d) == d \in Stores /\ Counted(d) /\ BooksOK(d) /\ RefsOK(d)

\* What the provider has of the revisions of d.
ObjectsOK(d, have, doomed) ==
    \A r \in Revisions :
        /\ Available(d, r) => OwnObjects(r) \subseteq have
        /\ \A i \in 1..OwnBlocks : <<r, i>> \in doomed => Gone(d, r)
        /\ d.rev[r].state = "Deleted" => OwnObjects(r) \cap have = {}
        /\ d.rev[r].state = "Deleting" => \A i \in 1..OwnBlocks :
              ReusedRows(d, r) + i <= d.gc[r].cursor => <<r, i>> \notin have

Known(d, e) == \A r \in Revisions : d.rev[r].state # "Absent" => e.rev[r].state # "Absent"

\* The entry a worker that has listed these candidates visits next.
First(todo) == CHOOSE e \in todo : \A o \in todo : Precedes(e, o)

\* What the worker has listed is still there, and what it has passed is deleted.
WorkerOK(w, d, e, have) ==
    /\ w \in Workers
    /\ w.todo \subseteq d.cand
    /\ w.pc \in {"delete", "cleanup", "quarantine"} =>
          w.todo # {} /\ First(w.todo).state = "Claimed"
    /\ w.pc \in {"delete", "cleanup"} => \A i \in 1..OwnBlocks :
          ReusedRows(d, First(w.todo).rev) + i < w.row => <<First(w.todo).rev, i>> \notin have
    /\ w.pc = "cleanup" =>
          Gone(e, First(w.todo).rev) /\ DeleteRequired(d, First(w.todo).rev, w.row)

AllOK(d, e, have, doomed, w) ==
    /\ StoreOK(d) /\ StoreOK(e)
    /\ ObjectsOK(d, have, doomed) /\ ObjectsOK(e, have, doomed)
    /\ Known(e, d)
    /\ WorkerOK(w, d, e, have)

IInv == AllOK(db, durable, objects, late, worker)

-----------------------------------------------------------------------------
(* Numbers, entries and counts.                                            *)

LEMMA LeastNat ==
    ASSUME NEW T, T \subseteq Nat, T # {}
    PROVE  \E n \in T : \A m \in T : n <= m
  <1>1. \E n \in T : \A m \in T : ~ (<<m, n>> \in OpToRel(<, Nat))
    BY NatLessThanWellFounded, WFMin
  <1>2. \A m \in Nat, n \in Nat : m < n => <<m, n>> \in OpToRel(<, Nat)
    BY Zenon DEF OpToRel
  <1>3. PICK n \in T : \A m \in T : ~ (<<m, n>> \in OpToRel(<, Nat))
    BY <1>1
  <1>4. \A m \in T : ~(m < n)
    BY <1>2, <1>3
  <1> QED BY <1>4

LEMMA Constants ==
    /\ MaxRevision \in Nat /\ OwnBlocks \in Nat /\ BatchSize \in Nat
    /\ Revisions \subseteq Nat /\ None \notin Revisions
    /\ Builds \cap Snapshots = {}
  BY GcAssumption DEF Revisions

\* Some candidate comes first in key order.
LEMMA FirstIn ==
    ASSUME NEW todo, todo \subseteq CandRows, todo # {}
    PROVE  First(todo) \in todo
  <1>1. \A c \in todo : c.rev \in Nat /\ c.epoch \in Nat
    BY Constants DEF CandRows
  <1>2. PICK n \in {c.rev : c \in todo} : \A m \in {c.rev : c \in todo} : n <= m
    <2>1. {c.rev : c \in todo} \subseteq Nat /\ {c.rev : c \in todo} # {}
      BY <1>1
    <2> HIDE <1>1
    <2> QED BY <2>1, LeastNat
  <1>3. PICK k \in {c.epoch : c \in {c \in todo : c.rev = n}} :
            \A m \in {c.epoch : c \in {c \in todo : c.rev = n}} : k <= m
    <2>1. {c.epoch : c \in {c \in todo : c.rev = n}} \subseteq Nat
      BY <1>1
    <2>2. {c.epoch : c \in {c \in todo : c.rev = n}} # {}
      BY <1>2
    <2> HIDE <1>1, <1>2
    <2> QED BY <2>1, <2>2, LeastNat
  <1>4. PICK e \in todo : e.rev = n /\ e.epoch = k
    BY <1>3
  <1>5. \A o \in todo : Precedes(e, o)
    <2> SUFFICES ASSUME NEW o \in todo PROVE Precedes(e, o)
      OBVIOUS
    <2>1. n <= o.rev
      BY <1>2
    <2>2. o.rev = n => k <= o.epoch
      BY <1>3
    <2> QED BY <2>1, <2>2, <1>1, <1>4 DEF Precedes
  <1>6. \E c \in todo : \A o \in todo : Precedes(c, o)
    BY <1>5
  <1> QED BY <1>6 DEF First

LEMMA EntryIsFirst == Entry = First(worker.todo)
  BY DEF Entry, First

\* What one reference more or less does to a count, and what a count of none says.
LEMMA CountFacts ==
    ASSUME NEW d, Counted(d), NEW r \in Revisions
    PROVE  /\ d.rev[r].count \in Nat
           /\ d.rev[r].count = 0 <=> RefsTo(d, r) = {}
           /\ \A ref \in d.refs : ref.to = r => d.rev[r].count > 0
  <1>1. IsFiniteSet(RefsTo(d, r)) /\ d.rev[r].count = Cardinality(RefsTo(d, r))
    BY DEF Counted
  <1>2. Cardinality(RefsTo(d, r)) \in Nat
    BY <1>1, FS_CardinalityType
  <1>3. Cardinality(RefsTo(d, r)) = 0 <=> RefsTo(d, r) = {}
    BY <1>1, FS_EmptySet
  <1>4. \A ref \in d.refs : ref.to = r => RefsTo(d, r) # {}
    BY DEF RefsTo
  <1>5. \A ref \in d.refs : ref.to = r => d.rev[r].count > 0
    BY <1>1, <1>2, <1>3, <1>4
  <1> QED BY <1>1, <1>2, <1>3, <1>5

LEMMA CountOne ==
    ASSUME NEW S, NEW x, IsFiniteSet(S)
    PROVE  /\ x \notin S => IsFiniteSet(S \cup {x}) /\ Cardinality(S \cup {x}) = Cardinality(S) + 1
           /\ x \in S => IsFiniteSet(S \ {x}) /\ Cardinality(S \ {x}) = Cardinality(S) + (-1)
  <1>0. Cardinality(S) \in Nat
    BY FS_CardinalityType
  <1>1. x \notin S => IsFiniteSet(S \cup {x}) /\ Cardinality(S \cup {x}) = Cardinality(S) + 1
    BY FS_AddElement
  <1>2. x \in S => IsFiniteSet(S \ {x}) /\ Cardinality(S \ {x}) = Cardinality(S) - 1
    BY FS_RemoveElement
  <1> QED BY <1>0, <1>1, <1>2

LEMMA DepsFinite ==
    ASSUME NEW d \in Stores, NEW r \in Revisions
    PROVE  /\ Cardinality(d.rev[r].deps) \in Nat
           /\ ReusedRows(d, r) \in Nat
           /\ ManifestLength(d, r) = ReusedRows(d, r) + OwnBlocks
  <1>1. d.rev[r].deps \subseteq Revisions
    BY DEF Stores, RevRows
  <1>2. IsFiniteSet(Revisions)
    <2>1. 1 \in Int /\ MaxRevision \in Int
      BY Constants
    <2> QED BY <2>1, FS_Interval, Zenon DEF Revisions
  <1>3. Cardinality(d.rev[r].deps) \in Nat
    BY <1>1, <1>2, FS_Subset, FS_CardinalityType
  <1>4. \A n \in Nat : OwnBlocks * n \in Nat /\ OwnBlocks * (1 + n) = OwnBlocks * n + OwnBlocks
    BY Constants
  <1> QED BY <1>3, <1>4 DEF ReusedRows, ManifestLength

-----------------------------------------------------------------------------
(* Commands that touch revisions.                                          *)

LEMMA RevRow ==
    ASSUME NEW row \in RevRows
    PROVE  /\ row.state \in States /\ row.epoch \in Nat /\ row.count \in Int /\ row.zero \in Nat
           /\ row.deps \subseteq Revisions
  BY DEF RevRows

LEMMA StoreFields ==
    ASSUME NEW d \in Stores
    PROVE  /\ d.clock \in Nat /\ d.rev \in [Revisions -> RevRows] /\ d.refs \subseteq RefRows
           /\ d.cand \subseteq CandRows /\ d.gc \in [Revisions -> GcRows]
           /\ d.hold \in [Holders -> HoldRows] /\ d.build \in [Builds -> BuildRows]
           /\ d.minted \subseteq Snapshots /\ d.path \in Bindings
  BY DEF Stores

NewCand(d, r) == [rev |-> r, epoch |-> d.rev[r].epoch + 1, zero |-> d.clock + 1, state |-> "Candidate"]

\* The row of a revision whose count a command changes by n.
IsRetouched(d, r, n, row) ==
    /\ row.state = d.rev[r].state /\ row.deps = d.rev[r].deps
    /\ row.epoch = d.rev[r].epoch + 1 /\ row.count = d.rev[r].count + n
    /\ row.count = 0 => row.zero = d.clock + 1

\* What Touched leaves, field by field.
IsTouched(d, delta, t) ==
    /\ t \in Stores
    /\ t.clock = d.clock + 1
    /\ \A r \in Revisions : r \notin DOMAIN delta => t.rev[r] = d.rev[r]
    /\ \A r \in Revisions : r \in DOMAIN delta => IsRetouched(d, r, delta[r], t.rev[r])
    /\ t.cand = d.cand \cup {NewCand(d, r) : r \in {o \in DOMAIN delta : d.rev[o].count + delta[o] = 0}}
    /\ t.refs = d.refs /\ t.gc = d.gc /\ t.hold = d.hold /\ t.build = d.build
    /\ t.minted = d.minted /\ t.path = d.path

LEMMA TouchedFacts ==
    ASSUME NEW d \in Stores, NEW delta, DOMAIN delta \subseteq Revisions,
           \A r \in DOMAIN delta : delta[r] \in Int
    PROVE  IsTouched(d, delta, Touched(d, delta))
  <1> USE StoreFields
  <1>1. PICK revs : revs = [r \in Revisions |->
            IF r \in DOMAIN delta
            THEN [d.rev[r] EXCEPT !.epoch = @ + 1, !.count = d.rev[r].count + delta[r],
                                  !.zero = IF d.rev[r].count + delta[r] = 0 THEN d.clock + 1 ELSE 0]
            ELSE d.rev[r]]
    OBVIOUS
  <1>2. PICK cands : cands = d.cand \cup
            {NewCand(d, r) : r \in {o \in DOMAIN delta : d.rev[o].count + delta[o] = 0}}
    OBVIOUS
  <1>3. Touched(d, delta) = [d EXCEPT !.clock = d.clock + 1, !.rev = revs, !.cand = cands]
    <2>1. cands = d.cand \cup {[rev |-> r, epoch |-> d.rev[r].epoch + 1,
                             zero |-> d.clock + 1, state |-> "Candidate"] :
                                r \in {o \in DOMAIN delta : d.rev[o].count + delta[o] = 0}}
      BY <1>2 DEF NewCand
    <2> QED BY <1>1, <2>1, Zenon DEF Touched
  <1>4. \A r \in Revisions : /\ r \in DOMAIN delta => IsRetouched(d, r, delta[r], revs[r])
                             /\ r \notin DOMAIN delta => revs[r] = d.rev[r]
                             /\ revs[r] \in RevRows
    <2> SUFFICES ASSUME NEW r \in Revisions
                 PROVE  /\ r \in DOMAIN delta => IsRetouched(d, r, delta[r], revs[r])
                        /\ r \notin DOMAIN delta => revs[r] = d.rev[r]
                        /\ revs[r] \in RevRows
      OBVIOUS
    <2>1. d.rev[r] \in RevRows /\ d.clock + 1 \in Nat
      OBVIOUS
    <2>2. CASE r \in DOMAIN delta
      <3>1. PICK z \in Nat : z = IF d.rev[r].count + delta[r] = 0 THEN d.clock + 1 ELSE 0
        BY <2>1
      <3>2. d.rev[r].count + delta[r] = 0 => z = d.clock + 1
        BY <3>1
      <3>3. revs[r] = [d.rev[r] EXCEPT !.epoch = @ + 1, !.count = d.rev[r].count + delta[r], !.zero = z]
        BY <1>1, <2>2, <3>1, Zenon
      <3>4. d.rev[r].count + delta[r] \in Int /\ d.rev[r].epoch + 1 \in Nat
        BY <2>1, <2>2, RevRow
      <3>5. PICK k \in Nat : k = d.rev[r].epoch + 1
        BY <3>4
      <3>6. PICK n \in Int : n = d.rev[r].count + delta[r]
        BY <3>4
      <3>7. revs[r] = [d.rev[r] EXCEPT !.epoch = k, !.count = n, !.zero = z]
        BY <3>3, <3>5, <3>6, Zenon
      <3>8. /\ revs[r] \in RevRows /\ revs[r].state = d.rev[r].state /\ revs[r].deps = d.rev[r].deps
            /\ revs[r].epoch = k /\ revs[r].count = n /\ revs[r].zero = z
        BY <3>7, <2>1 DEF RevRows
      <3> QED BY <3>8, <3>5, <3>6, <3>2, <2>2 DEF IsRetouched
    <2>3. CASE r \notin DOMAIN delta
      BY <2>3, <2>1, <1>1
    <2> QED BY <2>2, <2>3
  <1>6. revs \in [Revisions -> RevRows]
    BY <1>1, <1>4
  <1>7. cands \subseteq CandRows
    <2>1. \A r \in DOMAIN delta : d.rev[r].epoch + 1 \in Nat
      <3> SUFFICES ASSUME NEW r \in DOMAIN delta PROVE d.rev[r].epoch + 1 \in Nat
        OBVIOUS
      <3>1. d.rev[r] \in RevRows
        OBVIOUS
      <3> QED BY <3>1, RevRow
    <2>2. \A r \in DOMAIN delta : NewCand(d, r) \in CandRows
      BY <2>1 DEF NewCand, CandRows
    <2> QED BY <2>2, <1>2
  <1>8. PICK t : t = Touched(d, delta)
    OBVIOUS
  <1>9. PICK k \in Nat : k = d.clock + 1
    OBVIOUS
  <1>10. t = [d EXCEPT !.clock = k, !.rev = revs, !.cand = cands]
    BY <1>3, <1>8, <1>9, Zenon
  <1>11. /\ t \in Stores /\ t.clock = k /\ t.rev = revs /\ t.cand = cands
         /\ t.refs = d.refs /\ t.gc = d.gc /\ t.hold = d.hold /\ t.build = d.build
         /\ t.minted = d.minted /\ t.path = d.path
    BY <1>6, <1>7, <1>10 DEF Stores
  <1>12. IsTouched(d, delta, t)
    BY <1>2, <1>4, <1>9, <1>11, Zenon DEF IsTouched
  <1> QED BY <1>8, <1>12, Zenon

\* Two stores that know the same of their revisions' lives.
SameLives(d, e) ==
    \A r \in Revisions : /\ e.rev[r].state = d.rev[r].state /\ e.rev[r].deps = d.rev[r].deps
                         /\ e.gc[r] = d.gc[r]

LEMMA TouchedLives ==
    ASSUME NEW d, NEW delta, NEW t, IsTouched(d, delta, t)
    PROVE  SameLives(d, t)
  <1>1. \A r \in Revisions : t.rev[r].state = d.rev[r].state /\ t.rev[r].deps = d.rev[r].deps
    BY DEF IsTouched, IsRetouched
  <1> QED BY <1>1 DEF IsTouched, SameLives

\* Books and references survive a command that touches revisions that are Available.
LEMMA TouchedBooks ==
    ASSUME NEW d, NEW delta, NEW t, StoreOK(d), IsTouched(d, delta, t),
           DOMAIN delta \subseteq Revisions,
           \A r \in DOMAIN delta : delta[r] \in Int /\ Available(d, r)
    PROVE  t \in Stores /\ BooksOK(t) /\ RefsOK(t)
  <1> USE DEF StoreOK
  <1>0. t \in Stores /\ d \in Stores /\ SameLives(d, t)
    BY TouchedLives DEF IsTouched
  <1>1. \A r \in Revisions :
          /\ d.rev[r].epoch \in Nat /\ d.rev[r].count \in Int /\ d.rev[r].zero \in Nat
          /\ t.rev[r].epoch \in Nat /\ t.rev[r].count \in Int /\ t.rev[r].zero \in Nat
    BY <1>0 DEF Stores, RevRows
  <1>2. \A r \in Revisions :
          /\ Available(t, r) <=> Available(d, r)
          /\ Gone(t, r) <=> Gone(d, r)
          /\ t.rev[r].state = d.rev[r].state
    BY <1>0 DEF SameLives, Available, Gone
  <1>3. \A r \in Revisions : r \in DOMAIN delta =>
          /\ t.rev[r].epoch = d.rev[r].epoch + 1
          /\ t.rev[r].count = d.rev[r].count + delta[r]
          /\ t.rev[r].count = 0 => t.rev[r].zero = d.clock + 1 /\ NewCand(d, r) \in t.cand
    BY DEF IsTouched, IsRetouched
  <1>4. \A r \in Revisions : r \notin DOMAIN delta =>
          /\ t.rev[r].epoch = d.rev[r].epoch /\ t.rev[r].count = d.rev[r].count
          /\ t.rev[r].zero = d.rev[r].zero
    BY DEF IsTouched
  <1>5. d.clock \in Nat /\ t.clock = d.clock + 1
    BY <1>0 DEF Stores, IsTouched
  <1>6. Queued(t)
    <2> SUFFICES ASSUME NEW r \in Revisions, Unreferenced(t, r)
                 PROVE  [rev |-> r, epoch |-> t.rev[r].epoch, zero |-> t.rev[r].zero,
                         state |-> "Candidate"] \in t.cand
      BY DEF Queued
    <2>1. CASE r \in DOMAIN delta
      BY <2>1, <1>3 DEF Unreferenced, NewCand
    <2>2. CASE r \notin DOMAIN delta
      <3>1. Unreferenced(d, r)
        BY <2>2, <1>4, <1>2 DEF Unreferenced
      <3>2. [rev |-> r, epoch |-> d.rev[r].epoch, zero |-> d.rev[r].zero,
             state |-> "Candidate"] \in d.cand
        BY <3>1 DEF BooksOK, Queued
      <3>3. d.cand \subseteq t.cand
        BY DEF IsTouched
      <3> QED BY <3>2, <3>3, <2>2, <1>4
    <2> QED BY <2>1, <2>2
  <1>7. CandsOK(t)
    <2> SUFFICES ASSUME NEW c \in t.cand
                 PROVE  /\ t.rev[c.rev].state # "Absent"
                        /\ c.epoch <= t.rev[c.rev].epoch
                        /\ c.state # "Candidate" => Gone(t, c.rev)
                        /\ c.epoch = t.rev[c.rev].epoch /\ Unreferenced(t, c.rev) =>
                              c.zero = t.rev[c.rev].zero
      BY DEF CandsOK
    <2>0. c.rev \in Revisions /\ c.epoch \in Nat
      BY <1>0 DEF Stores, CandRows
    <2>1. CASE c \in d.cand
      <3>1. /\ d.rev[c.rev].state # "Absent"
            /\ c.epoch <= d.rev[c.rev].epoch
            /\ c.state # "Candidate" => Gone(d, c.rev)
            /\ c.epoch = d.rev[c.rev].epoch /\ Unreferenced(d, c.rev) =>
                  c.zero = d.rev[c.rev].zero
        BY <2>1 DEF BooksOK, CandsOK
      <3> QED BY <2>0, <3>1, <1>1, <1>2, <1>3, <1>4 DEF Unreferenced
    <2>2. CASE \E r \in DOMAIN delta : d.rev[r].count + delta[r] = 0 /\ c = NewCand(d, r)
      <3>1. PICK r \in DOMAIN delta : d.rev[r].count + delta[r] = 0 /\ c = NewCand(d, r)
        BY <2>2
      <3>2. c.rev = r /\ c.epoch = d.rev[r].epoch + 1 /\ c.zero = d.clock + 1 /\ c.state = "Candidate"
        BY <3>1 DEF NewCand
      <3>3. t.rev[r].state # "Absent"
        BY <1>2 DEF Available
      <3>4. t.rev[r].epoch = d.rev[r].epoch + 1 /\ (t.rev[r].count = 0 => t.rev[r].zero = d.clock + 1)
        BY <1>3
      <3>5. t.rev[r].epoch \in Nat /\ (Unreferenced(t, r) => t.rev[r].count = 0)
        BY <1>1 DEF Unreferenced
      <3> QED BY <3>2, <3>3, <3>4, <3>5
    <2> QED BY <2>1, <2>2 DEF IsTouched
  <1>8. HoldsOK(t)
    <2> SUFFICES ASSUME NEW h \in Holders PROVE HoldOK(t, h)
      BY DEF HoldsOK
    <2>1. HoldOK(d, h) /\ t.hold[h] = d.hold[h]
      BY DEF BooksOK, HoldsOK, IsTouched
    <2>2. d.hold[h].version \in Nat /\ \A p \in Paths : d.hold[h].view[p] \in Revisions \cup {None}
      BY <1>0 DEF Stores, HoldRows, Bindings
    <2>3. ASSUME NEW p \in Paths, d.hold[h].view[p] # None
          PROVE  /\ Available(t, d.hold[h].view[p])
                 /\ t.rev[d.hold[h].view[p]].count = 0 =>
                       d.hold[h].version < t.rev[d.hold[h].view[p]].zero
      <3>1. PICK r \in Revisions : r = d.hold[h].view[p]
        BY <2>2, <2>3
      <3>2. Available(d, r) /\ (d.rev[r].count = 0 => d.hold[h].version < d.rev[r].zero)
        BY <2>1, <2>3, <3>1 DEF HoldOK
      <3>3. d.hold[h].version <= d.clock
        BY <2>1 DEF HoldOK
      <3>4. t.rev[r].count = 0 => d.hold[h].version < t.rev[r].zero
        BY <3>2, <3>3, <2>2, <1>1, <1>3, <1>4, <1>5
      <3> QED BY <3>1, <3>2, <3>4, <1>2
    <2>4. d.hold[h].version <= t.clock /\ Injective(d.hold[h].view)
      BY <2>1, <2>2, <1>5 DEF HoldOK
    <2> QED BY <2>1, <2>3, <2>4 DEF HoldOK
  <1>9. GcOK(t)
    BY <1>2 DEF BooksOK, GcOK, IsTouched
  <1>10. t.refs = d.refs /\ t.path = d.path /\ t.build = d.build /\ t.hold = d.hold
    BY DEF IsTouched
  <1>11. LiveRefs(t) /\ DepsOK(t)
    <2>1. \A ref \in d.refs : ref.to \in Revisions
      BY <1>0 DEF Stores, RefRows
    <2> QED BY <2>1, <1>0, <1>2, <1>10 DEF RefsOK, LiveRefs, DepsOK, SameLives
  <1>12. PathsOK(t) /\ BuildsOK(t)
    BY <1>10 DEF RefsOK, PathsOK, BuildsOK, BuildOK
  <1> QED BY <1>0, <1>6, <1>7, <1>8, <1>9, <1>11, <1>12 DEF BooksOK, RefsOK

-----------------------------------------------------------------------------
(* Commands of clients.                                                    *)

SameBooks(t, e) ==
    e.rev = t.rev /\ e.cand = t.cand /\ e.gc = t.gc /\ e.hold = t.hold /\ e.clock = t.clock

LEMMA BooksFrame ==
    ASSUME NEW t, NEW e, SameBooks(t, e), BooksOK(t)
    PROVE  BooksOK(e)
  <1>1. Queued(e) /\ CandsOK(e)
    BY DEF SameBooks, BooksOK, Queued, CandsOK, Unreferenced, Gone, Available
  <1>2. HoldsOK(e)
    BY DEF SameBooks, BooksOK, HoldsOK, HoldOK, Available
  <1>3. GcOK(e)
    BY DEF SameBooks, BooksOK, GcOK
  <1> QED BY <1>1, <1>2, <1>3 DEF BooksOK

\* What a client command that is not a publication owes the rest of the state.
ClientStep(d, e) == StoreOK(e) /\ SameLives(d, e) /\ d.cand \subseteq e.cand

\* A command that gives up one reference which is not a dependency.
LEMMA DropRef ==
    ASSUME NEW d, StoreOK(d), NEW ref \in d.refs, ref.kind # "Dependency",
           NEW t, IsTouched(d, [o \in {ref.to} |-> -1], t),
           NEW e \in Stores, SameBooks(t, e), e.refs = d.refs \ {ref}, e.build = t.build,
           PathsOK(e)
    PROVE  ClientStep(d, e)
  <1> USE DEF StoreOK
  <1>1. ref.to \in Revisions /\ Available(d, ref.to)
    BY DEF Stores, RefRows, RefsOK, LiveRefs
  <1>2. PICK delta : delta = [o \in {ref.to} |-> -1]
    OBVIOUS
  <1>3. DOMAIN delta = {ref.to} /\ delta[ref.to] = -1 /\ IsTouched(d, delta, t)
    BY <1>2
  <1>4. t \in Stores /\ BooksOK(t) /\ RefsOK(t) /\ SameLives(d, t)
    <2>1. DOMAIN delta \subseteq Revisions /\ \A r \in DOMAIN delta : delta[r] \in Int /\ Available(d, r)
      BY <1>1, <1>3
    <2> HIDE DEF StoreOK
    <2> QED BY <2>1, <1>3, TouchedBooks, TouchedLives
  <1>5. BooksOK(e)
    BY <1>4, BooksFrame
  <1>6. SameLives(d, e) /\ d.cand \subseteq e.cand
    BY <1>3, <1>4 DEF SameLives, SameBooks, IsTouched
  <1>7. Counted(e)
    <2> SUFFICES ASSUME NEW r \in Revisions
                 PROVE  IsFiniteSet(RefsTo(e, r)) /\ e.rev[r].count = Cardinality(RefsTo(e, r))
      BY DEF Counted
    <2>1. IsFiniteSet(RefsTo(d, r)) /\ d.rev[r].count = Cardinality(RefsTo(d, r))
      BY DEF Counted
    <2>2. CASE r = ref.to
      <3>1. RefsTo(e, r) = RefsTo(d, r) \ {ref} /\ ref \in RefsTo(d, r)
        BY <2>2 DEF RefsTo
      <3>2. e.rev[r].count = d.rev[r].count + (-1)
        BY <2>2, <1>3 DEF IsTouched, IsRetouched, SameBooks
      <3> QED BY <3>1, <3>2, <2>1, CountOne
    <2>3. CASE r # ref.to
      <3>1. RefsTo(e, r) = RefsTo(d, r)
        BY <2>3 DEF RefsTo
      <3>2. e.rev[r] = d.rev[r]
        BY <2>3, <1>3 DEF IsTouched, SameBooks
      <3> QED BY <3>1, <3>2, <2>1
    <2> QED BY <2>2, <2>3
  <1>8. t.refs = d.refs /\ t.hold = d.hold /\ e.hold = d.hold /\ e.rev = t.rev
    BY <1>3 DEF IsTouched, SameBooks
  <1>9. LiveRefs(e)
    BY <1>4, <1>8 DEF RefsOK, LiveRefs, Available
  <1>10. DepsOK(e)
    <2>1. \A r, o \in Revisions : DependencyRef(r, o) # ref
      BY DEF DependencyRef
    <2>2. \A r \in Revisions : t.rev[r].deps \subseteq Revisions
      BY <1>4 DEF Stores, RevRows
    <2> QED BY <1>4, <1>8, <2>1, <2>2 DEF RefsOK, DepsOK
  <1>11. BuildsOK(e)
    BY <1>4, <1>8 DEF RefsOK, BuildsOK, BuildOK
  <1> QED BY <1>5, <1>6, <1>7, <1>9, <1>10, <1>11 DEF ClientStep, RefsOK

LEMMA RemovePathStore ==
    ASSUME NEW d, StoreOK(d), NEW p \in Paths, d.path[p] # None, NEW e,
           e = [Touched(d, [o \in {d.path[p]} |-> -1]) EXCEPT
                  !.refs = @ \ {PathRef(p, d.path[p])}, !.path[p] = None]
    PROVE  ClientStep(d, e)
  <1>1. d \in Stores /\ PathsOK(d) /\ LiveRefs(d)
    BY DEF StoreOK, RefsOK
  <1>2. PICK r \in Revisions : r = d.path[p]
    BY <1>1 DEF Stores, Bindings
  <1>3. PICK ref : ref = PathRef(p, r)
    OBVIOUS
  <1>4. ref \in d.refs /\ ref.kind = "Path" /\ ref.to = r
    BY <1>1, <1>2, <1>3 DEF PathsOK, PathRef
  <1>5. PICK t : t = Touched(d, [o \in {ref.to} |-> -1])
    OBVIOUS
  <1>6. IsTouched(d, [o \in {ref.to} |-> -1], t)
    <2>1. PICK delta : delta = [o \in {ref.to} |-> -1]
      OBVIOUS
    <2>2. DOMAIN delta \subseteq Revisions /\ \A o \in DOMAIN delta : delta[o] \in Int
      BY <2>1, <1>4
    <2> QED BY <2>1, <2>2, <1>1, <1>5, TouchedFacts
  <1>7. e = [t EXCEPT !.refs = @ \ {ref}, !.path[p] = None]
    BY <1>2, <1>3, <1>4, <1>5, Zenon
  <1>8. t \in Stores /\ t.refs = d.refs /\ t.path = d.path
    BY <1>6 DEF IsTouched
  <1>9. /\ e \in Stores /\ SameBooks(t, e) /\ e.refs = d.refs \ {ref} /\ e.build = t.build
        /\ e.path = [d.path EXCEPT ![p] = None]
    <2>1. PICK bound : bound = [d.path EXCEPT ![p] = None]
      OBVIOUS
    <2>2. PICK refs : refs = d.refs \ {ref}
      OBVIOUS
    <2>3. e = [t EXCEPT !.refs = refs, !.path = bound]
      BY <2>1, <2>2, <1>7, <1>8
    <2>4. bound \in Bindings /\ refs \subseteq RefRows
      BY <2>1, <2>2, <1>1 DEF Stores, Bindings
    <2>5. /\ e \in Stores /\ e.refs = refs /\ e.path = bound
          /\ e.rev = t.rev /\ e.cand = t.cand /\ e.gc = t.gc /\ e.hold = t.hold /\ e.clock = t.clock
          /\ e.build = t.build
      BY <2>3, <2>4, <1>8, ZenonT(60) DEF Stores
    <2> QED BY <2>1, <2>2, <2>5 DEF SameBooks
  <1>10. PathsOK(e)
    <2>1. d.path \in Bindings
      BY <1>1 DEF Stores
    <2>2. Injective(e.path)
      BY <2>1, <1>1, <1>9 DEF Bindings, PathsOK, Injective
    <2>3. \A q \in Paths : q # p => PathRef(q, d.path[q]) # ref
      BY <1>3 DEF PathRef
    <2>4. \A q \in Paths : q # p /\ d.path[q] # None => PathRef(q, d.path[q]) \in e.refs
      BY <2>3, <1>1, <1>9 DEF PathsOK
    <2>5. \A q \in Paths : e.path[q] = IF q = p THEN None ELSE d.path[q]
      BY <2>1, <1>9 DEF Bindings
    <2> QED BY <2>2, <2>4, <2>5 DEF PathsOK
  <1> QED BY <1>4, <1>6, <1>9, <1>10, DropRef

LEMMA CleanupMemberStore ==
    ASSUME NEW d, StoreOK(d), NEW ref \in d.refs, ref.kind = "Commit", NEW e,
           e = [Touched(d, [o \in {ref.to} |-> -1]) EXCEPT !.refs = @ \ {ref}]
    PROVE  ClientStep(d, e)
  <1>1. d \in Stores /\ PathsOK(d)
    BY DEF StoreOK, RefsOK
  <1>2. ref.to \in Revisions
    BY <1>1 DEF Stores, RefRows
  <1>5. PICK t : t = Touched(d, [o \in {ref.to} |-> -1])
    OBVIOUS
  <1>6. IsTouched(d, [o \in {ref.to} |-> -1], t)
    <2>1. PICK delta : delta = [o \in {ref.to} |-> -1]
      OBVIOUS
    <2>2. DOMAIN delta \subseteq Revisions /\ \A o \in DOMAIN delta : delta[o] \in Int
      BY <2>1, <1>2
    <2> QED BY <2>1, <2>2, <1>1, <1>5, TouchedFacts
  <1>7. e = [t EXCEPT !.refs = @ \ {ref}]
    BY <1>5
  <1>8. t \in Stores /\ t.refs = d.refs /\ t.path = d.path
    BY <1>6 DEF IsTouched
  <1>9. /\ e \in Stores /\ SameBooks(t, e) /\ e.refs = d.refs \ {ref} /\ e.build = t.build
        /\ e.path = d.path
    BY <1>7, <1>8, ZenonT(60) DEF Stores, SameBooks
  <1>10. PathsOK(e)
    <2>1. \A q \in Paths : PathRef(q, d.path[q]) # ref
      BY DEF PathRef
    <2> QED BY <2>1, <1>1, <1>9 DEF PathsOK
  <1> QED BY <1>6, <1>9, <1>10, DropRef

LEMMA BuildMemberStore ==
    ASSUME NEW d, StoreOK(d), NEW b \in Builds, NEW p \in Paths, d.build[b].phase = "Building",
           p \in d.build[b].left, NEW e,
           e = [Touched(d, [o \in {d.hold[b].view[p]} |-> 1]) EXCEPT
                  !.refs = @ \cup {CommitRef(b, d.hold[b].view[p])}, !.build[b].left = @ \ {p}]
    PROVE  ClientStep(d, e)
  <1>1. d \in Stores /\ PathsOK(d) /\ LiveRefs(d) /\ Counted(d) /\ HoldOK(d, b) /\ BuildOK(d, b)
    BY DEF StoreOK, RefsOK, BooksOK, HoldsOK, Holders, BuildsOK
  <1>2. d.hold[b].view \in Bindings
    BY <1>1 DEF Stores, Holders, HoldRows
  <1>3. d.hold[b].view[p] # None /\ CommitRef(b, d.hold[b].view[p]) \notin d.refs
    BY <1>1 DEF BuildOK
  <1>4. PICK r \in Revisions : r = d.hold[b].view[p]
    BY <1>2, <1>3 DEF Bindings
  <1>5. Available(d, r)
    BY <1>1, <1>3, <1>4 DEF HoldOK
  <1>6. PICK ref : ref = CommitRef(b, r)
    OBVIOUS
  <1>7. ref \notin d.refs /\ ref.kind = "Commit" /\ ref.to = r /\ ref.from = b /\ ref \in RefRows
    BY <1>3, <1>4, <1>6 DEF CommitRef, RefRows
  <1>8. PICK delta : delta = [o \in {r} |-> 1]
    OBVIOUS
  <1>9. PICK t : t = Touched(d, delta)
    OBVIOUS
  <1>10. /\ DOMAIN delta = {r} /\ DOMAIN delta \subseteq Revisions /\ delta[r] = 1
         /\ \A o \in DOMAIN delta : delta[o] \in Int /\ Available(d, o)
    BY <1>5, <1>8
  <1>11. IsTouched(d, delta, t)
    BY <1>1, <1>9, <1>10, TouchedFacts
  <1>12. t \in Stores /\ BooksOK(t) /\ RefsOK(t) /\ SameLives(d, t)
    BY <1>10, <1>11, TouchedBooks, TouchedLives
  <1>13. /\ t.refs = d.refs /\ t.path = d.path /\ t.build = d.build /\ t.hold = d.hold
         /\ d.cand \subseteq t.cand
    BY <1>11 DEF IsTouched
  <1>14. PICK refs : refs = d.refs \cup {ref}
    OBVIOUS
  <1>15. PICK builds : builds = [d.build EXCEPT ![b].left = @ \ {p}]
    OBVIOUS
  <1>16. e = [t EXCEPT !.refs = refs, !.build = builds]
    <2>1. e = [t EXCEPT !.refs = @ \cup {ref}, !.build[b].left = @ \ {p}]
      BY <1>4, <1>6, <1>8, <1>9, Zenon
    <2> QED BY <2>1, <1>13, <1>14, <1>15
  <1>17. /\ builds \in [Builds -> BuildRows] /\ refs \subseteq RefRows
         /\ builds[b].phase = "Building" /\ builds[b].left = d.build[b].left \ {p}
         /\ \A c \in Builds : c # b => builds[c] = d.build[c]
    <2>1. d.build \in [Builds -> BuildRows]
      BY <1>1 DEF Stores
    <2>2. d.build[b] \in BuildRows /\ d.build[b].left \ {p} \subseteq Paths
      BY <2>1 DEF BuildRows
    <2>3. PICK row : row = [d.build[b] EXCEPT !.left = @ \ {p}]
      OBVIOUS
    <2>4. row \in BuildRows /\ row.phase = "Building" /\ row.left = d.build[b].left \ {p}
      BY <2>2, <2>3 DEF BuildRows
    <2>5. builds = [d.build EXCEPT ![b] = row]
      BY <2>3, <1>15
    <2>6. refs \subseteq RefRows
      BY <1>1, <1>7, <1>14 DEF Stores
    <2> QED BY <2>1, <2>4, <2>5, <2>6
  <1>18. /\ e \in Stores /\ e.refs = refs /\ e.build = builds
         /\ e.rev = t.rev /\ e.cand = t.cand /\ e.gc = t.gc /\ e.hold = t.hold /\ e.clock = t.clock
         /\ e.path = t.path
    BY <1>12, <1>16, <1>17, ZenonT(60) DEF Stores
  <1>19. BooksOK(e)
    BY <1>12, <1>18, BooksFrame DEF SameBooks
  <1>20. SameLives(d, e) /\ d.cand \subseteq e.cand
    BY <1>12, <1>13, <1>18, ZenonT(60) DEF SameLives
  <1>21. Counted(e)
    <2> SUFFICES ASSUME NEW o \in Revisions
                 PROVE  IsFiniteSet(RefsTo(e, o)) /\ e.rev[o].count = Cardinality(RefsTo(e, o))
      BY DEF Counted
    <2>1. IsFiniteSet(RefsTo(d, o)) /\ d.rev[o].count = Cardinality(RefsTo(d, o))
      BY <1>1 DEF Counted
    <2>2. CASE o = r
      <3>1. RefsTo(e, o) = RefsTo(d, o) \cup {ref} /\ ref \notin RefsTo(d, o)
        BY <2>2, <1>7, <1>14, <1>18 DEF RefsTo
      <3>2. e.rev[o].count = d.rev[o].count + 1
        BY <2>2, <1>10, <1>11, <1>18 DEF IsTouched, IsRetouched
      <3>3. IsFiniteSet(RefsTo(d, o) \cup {ref})
             /\ Cardinality(RefsTo(d, o) \cup {ref}) = Cardinality(RefsTo(d, o)) + 1
        BY <3>1, <2>1, CountOne
      <3> QED BY <3>1, <3>2, <3>3, <2>1
    <2>3. CASE o # r
      <3>1. RefsTo(e, o) = RefsTo(d, o)
        BY <2>3, <1>7, <1>14, <1>18 DEF RefsTo
      <3>2. e.rev[o] = d.rev[o]
        BY <2>3, <1>10, <1>11, <1>18 DEF IsTouched
      <3> QED BY <3>1, <3>2, <2>1
    <2> QED BY <2>2, <2>3
  <1>22. LiveRefs(e)
    <2>1. Available(t, r)
      BY <1>5, <1>12 DEF SameLives, Available
    <2> QED BY <2>1, <1>7, <1>12, <1>13, <1>14, <1>18, ZenonT(60) DEF RefsOK, LiveRefs, Available
  <1>23. DepsOK(e)
    BY <1>7, <1>12, <1>13, <1>14, <1>18 DEF RefsOK, DepsOK
  <1>24. PathsOK(e)
    BY <1>12, <1>13, <1>14, <1>18 DEF RefsOK, PathsOK
  <1>25. BuildsOK(e)
    <2> SUFFICES ASSUME NEW c \in Builds PROVE BuildOK(e, c)
      BY DEF BuildsOK
    <2>1. BuildOK(t, c)
      BY <1>12 DEF RefsOK, BuildsOK
    <2>2. CASE c = b
      <3>1. \A q \in Paths : q # p /\ d.hold[b].view[q] # None => d.hold[b].view[q] # r
        BY <1>1, <1>4 DEF HoldOK, Injective
      <3>2. \A q \in Paths : q # p /\ d.hold[b].view[q] # None => CommitRef(b, d.hold[b].view[q]) # ref
        BY <3>1, <1>6 DEF CommitRef
      <3>3. d.build[b].left \subseteq Paths
        BY <1>1 DEF Stores, BuildRows
      <3>4. \A q \in d.build[b].left \ {p} : /\ d.hold[b].view[q] # None
                                             /\ CommitRef(b, d.hold[b].view[q]) \notin refs
        BY <3>2, <3>3, <1>1, <1>14 DEF BuildOK
      <3>5. /\ e.build[c].phase = "Building" /\ e.build[c].left = d.build[b].left \ {p}
            /\ e.hold[c] = d.hold[b] /\ e.refs = refs
        BY <2>2, <1>13, <1>17, <1>18
      <3> QED BY <2>2, <3>4, <3>5 DEF BuildOK
    <2>3. CASE c # b
      <3>1. \A o : CommitRef(c, o) # ref
        BY <2>3, <1>7 DEF CommitRef
      <3>2. \A o : CommitRef(c, o) \in e.refs => CommitRef(c, o) \in t.refs
        <4>1. e.refs = t.refs \cup {ref}
          BY <1>13, <1>14, <1>18
        <4> QED BY <3>1, <4>1
      <3>3. e.build[c] = t.build[c] /\ e.hold = t.hold
        BY <2>3, <1>13, <1>17, <1>18
      <3> QED BY <2>1, <3>2, <3>3 DEF BuildOK
    <2> QED BY <2>2, <2>3
  <1> QED BY <1>18, <1>19, <1>20, <1>21, <1>22, <1>23, <1>24, <1>25 DEF ClientStep, StoreOK, RefsOK

\* Commands that touch no revision: they move the clock, holds and builds.
Calm(d, e) ==
    /\ e \in Stores /\ e.clock = d.clock + 1
    /\ e.rev = d.rev /\ e.refs = d.refs /\ e.cand = d.cand /\ e.gc = d.gc /\ e.path = d.path

LEMMA CalmStore ==
    ASSUME NEW d, StoreOK(d), NEW e, Calm(d, e), HoldsOK(e), BuildsOK(e)
    PROVE  ClientStep(d, e)
  <1>1. Queued(e) /\ CandsOK(e) /\ GcOK(e)
    BY DEF StoreOK, BooksOK, Calm, Queued, CandsOK, GcOK, Unreferenced, Gone, Available
  <1>2. LiveRefs(e) /\ DepsOK(e) /\ PathsOK(e)
    BY DEF StoreOK, RefsOK, Calm, LiveRefs, DepsOK, PathsOK, Available
  <1>3. Counted(e)
    BY DEF StoreOK, Calm, Counted, RefsTo
  <1>4. SameLives(d, e) /\ d.cand \subseteq e.cand
    BY DEF SameLives, Calm
  <1> QED BY <1>1, <1>2, <1>3, <1>4 DEF ClientStep, StoreOK, BooksOK, RefsOK, Calm

(* A hold stays good while the revisions it names do.                      *)
LEMMA HoldCarries ==
    ASSUME NEW d, NEW e, NEW h, HoldOK(d, h), e.hold[h] = d.hold[h],
           d.hold[h].version <= e.clock,
           \A p \in Paths : d.hold[h].view[p] # None =>
               e.rev[d.hold[h].view[p]] = d.rev[d.hold[h].view[p]]
    PROVE  HoldOK(e, h)
  BY DEF HoldOK, Available

LEMMA CalmHolds ==
    ASSUME NEW d, StoreOK(d), NEW e, Calm(d, e), NEW h \in Holders,
           e.hold[h] = d.hold[h] \/ e.hold[h] = NoHold
             \/ e.hold[h] = [version |-> d.clock, view |-> d.path]
    PROVE  HoldOK(e, h)
  <1>1. d \in Stores /\ HoldOK(d, h) /\ Counted(d) /\ LiveRefs(d) /\ PathsOK(d)
    BY DEF StoreOK, BooksOK, HoldsOK, RefsOK
  <1>2. d.clock \in Nat /\ e.clock = d.clock + 1 /\ e.rev = d.rev /\ d.hold[h].version \in Nat
    BY <1>1 DEF Stores, HoldRows, Calm
  <1>3. CASE e.hold[h] = d.hold[h]
    <2>1. d.hold[h].version <= d.clock
      BY <1>1 DEF HoldOK
    <2>2. d.hold[h].version <= e.clock
      BY <1>2, <2>1
    <2> QED BY <1>1, <1>2, <1>3, <2>2, HoldCarries
  <1>4. CASE e.hold[h] = NoHold
    BY <1>2, <1>4 DEF HoldOK, NoHold, Injective
  <1>5. CASE e.hold[h] = [version |-> d.clock, view |-> d.path]
    <2>1. ASSUME NEW p \in Paths, d.path[p] # None
          PROVE  Available(e, d.path[p]) /\ e.rev[d.path[p]].count # 0
      <3>1. PICK r \in Revisions : r = d.path[p]
        BY <1>1, <2>1 DEF Stores, Bindings
      <3>2. PathRef(p, r) \in d.refs /\ PathRef(p, r).to = r
        BY <1>1, <2>1, <3>1 DEF PathsOK, PathRef
      <3>3. Available(d, r)
        BY <1>1, <3>2 DEF LiveRefs
      <3>4. d.rev[r].count > 0
        BY <1>1, <3>2, CountFacts
      <3> QED BY <3>1, <3>3, <3>4, <1>2 DEF Available
    <2>2. e.hold[h].version = d.clock /\ e.hold[h].view = d.path
      BY <1>5
    <2>3. Injective(d.path)
      BY <1>1 DEF PathsOK
    <2> QED BY <2>1, <2>2, <2>3, <1>2 DEF HoldOK
  <1> QED BY <1>3, <1>4, <1>5

HeldAt(d) == [version |-> d.clock, view |-> d.path]

\* One hold and the build it belongs to change.
HoldUpdate(d, h, held, builds, minted, e) ==
    /\ held \in {d.hold[h], NoHold, HeldAt(d)}
    /\ builds \in [Builds -> BuildRows] /\ minted \in SUBSET Snapshots
    /\ e = [d EXCEPT !.clock = @ + 1, !.hold = [d.hold EXCEPT ![h] = held],
                      !.build = builds, !.minted = minted]
    /\ \A b \in Builds : b # h => builds[b] = d.build[b]
    /\ h \in Builds => builds[h].phase \notin {"None", "Building"} \/ BuildOK(e, h)

LEMMA CalmStep ==
    ASSUME NEW d, StoreOK(d), NEW h \in Holders, NEW held, NEW builds, NEW minted, NEW e,
           HoldUpdate(d, h, held, builds, minted, e)
    PROVE  ClientStep(d, e)
  <1> USE DEF HoldUpdate
  <1>1. d \in Stores /\ BuildsOK(d)
    BY DEF StoreOK, RefsOK
  <1>2. d.clock + 1 \in Nat /\ d.hold \in [Holders -> HoldRows]
    BY <1>1 DEF Stores
  <1>3. held \in HoldRows
    <2>1. d.hold[h] \in HoldRows
      BY <1>2
    <2>2. NoHold \in HoldRows
      BY DEF NoHold, HoldRows, Bindings
    <2>3. HeldAt(d) \in HoldRows
      BY <1>1 DEF HeldAt, HoldRows, Stores
    <2> QED BY <2>1, <2>2, <2>3
  <1>4. PICK holds : holds = [d.hold EXCEPT ![h] = held]
    OBVIOUS
  <1>5. /\ holds \in [Holders -> HoldRows] /\ holds[h] = held
        /\ \A k \in Holders : k # h => holds[k] = d.hold[k]
    BY <1>2, <1>3, <1>4
  <1>6. PICK k \in Nat : k = d.clock + 1
    BY <1>2
  <1>7. e = [d EXCEPT !.clock = k, !.hold = holds, !.build = builds, !.minted = minted]
    BY <1>4, <1>6
  <1>8. /\ e \in Stores /\ e.clock = k /\ e.hold = holds /\ e.build = builds /\ e.minted = minted
        /\ e.rev = d.rev /\ e.refs = d.refs /\ e.cand = d.cand /\ e.gc = d.gc /\ e.path = d.path
    BY <1>1, <1>5, <1>7, ZenonT(60) DEF Stores
  <1>9. Calm(d, e)
    BY <1>6, <1>8 DEF Calm
  <1>10. HoldsOK(e)
    <2> SUFFICES ASSUME NEW j \in Holders PROVE HoldOK(e, j)
      BY DEF HoldsOK
    <2>1. e.hold[j] = d.hold[j] \/ e.hold[j] = NoHold \/ e.hold[j] = [version |-> d.clock, view |-> d.path]
      BY <1>5, <1>8 DEF HeldAt
    <2> QED BY <2>1, <1>9, CalmHolds, ZenonT(60)
  <1>11. BuildsOK(e)
    <2> SUFFICES ASSUME NEW b \in Builds PROVE BuildOK(e, b)
      BY DEF BuildsOK
    <2>1. CASE b = h
      BY <2>1, <1>8 DEF BuildOK
    <2>2. CASE b # h
      <3>1. BuildOK(d, b) /\ e.build[b] = d.build[b] /\ e.hold[b] = d.hold[b] /\ e.refs = d.refs
        BY <2>2, <1>1, <1>5, <1>8 DEF BuildsOK, Holders
      <3> QED BY <3>1 DEF BuildOK
    <2> QED BY <2>1, <2>2
  <1> QED BY <1>9, <1>10, <1>11, CalmStore

LEMMA SnapshotStore ==
    ASSUME NEW d, StoreOK(d), NEW s \in Snapshots, NEW e,
           \/ e = [d EXCEPT !.clock = @ + 1, !.hold[s] = HeldAt(d), !.minted = @ \cup {s}]
           \/ e = [d EXCEPT !.clock = @ + 1, !.hold[s] = NoHold]
    PROVE  ClientStep(d, e)
  <1>1. /\ d \in Stores /\ d.build \in [Builds -> BuildRows] /\ d.minted \subseteq Snapshots
        /\ s \in Holders /\ s \notin Builds
    BY Constants DEF StoreOK, Stores, Holders
  <1>2. \A b \in Builds : d.build[b] = d.build[b]
    OBVIOUS
  <1>3. CASE e = [d EXCEPT !.clock = @ + 1, !.hold[s] = HeldAt(d), !.minted = @ \cup {s}]
    <2>1. e = [d EXCEPT !.clock = @ + 1, !.hold = [d.hold EXCEPT ![s] = HeldAt(d)],
                        !.build = d.build, !.minted = d.minted \cup {s}]
      BY <1>1, <1>3 DEF Stores
    <2>2. d.minted \cup {s} \in SUBSET Snapshots
      BY <1>1
    <2>3. HoldUpdate(d, s, HeldAt(d), d.build, d.minted \cup {s}, e)
      BY <2>1, <2>2, <1>1 DEF HoldUpdate
    <2> QED BY <2>3, <1>1, CalmStep
  <1>4. CASE e = [d EXCEPT !.clock = @ + 1, !.hold[s] = NoHold]
    <2>1. e = [d EXCEPT !.clock = @ + 1, !.hold = [d.hold EXCEPT ![s] = NoHold],
                        !.build = d.build, !.minted = d.minted]
      BY <1>1, <1>4 DEF Stores
    <2>2. HoldUpdate(d, s, NoHold, d.build, d.minted, e)
      BY <2>1, <1>1 DEF HoldUpdate
    <2> QED BY <2>2, <1>1, CalmStep
  <1> QED BY <1>3, <1>4

LEMMA BeginBuildStore ==
    ASSUME NEW d, StoreOK(d), NEW b \in Builds, d.build[b].phase = "None", NEW e,
           e = [d EXCEPT !.clock = @ + 1, !.hold[b] = HeldAt(d),
                         !.build[b] = [phase |-> "Building", left |-> {p \in Paths : d.path[p] # None}]]
    PROVE  ClientStep(d, e)
  <1>1. /\ d \in Stores /\ d.build \in [Builds -> BuildRows] /\ d.minted \in SUBSET Snapshots
        /\ b \in Holders /\ BuildOK(d, b)
    BY DEF StoreOK, Stores, Holders, RefsOK, BuildsOK
  <1>2. PICK row : row = [phase |-> "Building", left |-> {p \in Paths : d.path[p] # None}]
    OBVIOUS
  <1>3. PICK builds : builds = [d.build EXCEPT ![b] = row]
    OBVIOUS
  <1>4. /\ builds \in [Builds -> BuildRows] /\ builds[b] = row
        /\ \A c \in Builds : c # b => builds[c] = d.build[c]
    <2>1. row \in BuildRows
      BY <1>2 DEF BuildRows
    <2> QED BY <2>1, <1>1, <1>3
  <1>5. e = [d EXCEPT !.clock = @ + 1, !.hold = [d.hold EXCEPT ![b] = HeldAt(d)],
                      !.build = builds, !.minted = d.minted]
    BY <1>1, <1>2, <1>3 DEF Stores
  <1>6. BuildOK(e, b)
    <2>1. e.hold = [d.hold EXCEPT ![b] = HeldAt(d)] /\ e.build = builds /\ e.refs = d.refs
      BY <1>1, <1>5 DEF Stores
    <2>2. e.hold[b] = HeldAt(d)
      BY <2>1, <1>1 DEF Stores
    <2>3. e.hold[b].view = d.path /\ e.build[b].phase = "Building"
          /\ e.build[b].left = {p \in Paths : d.path[p] # None}
      BY <2>1, <2>2, <1>2, <1>4 DEF HeldAt
    <2>4. \A r \in Revisions : CommitRef(b, r) \notin d.refs
      BY <1>1 DEF BuildOK
    <2>5. \A p \in Paths : d.path[p] # None => d.path[p] \in Revisions
      BY <1>1 DEF Stores, Bindings
    <2> QED BY <2>1, <2>3, <2>4, <2>5 DEF BuildOK
  <1>7. HoldUpdate(d, b, HeldAt(d), builds, d.minted, e)
    BY <1>1, <1>4, <1>5, <1>6, Zenon DEF HoldUpdate
  <1> QED BY <1>1, <1>7, CalmStep

\* A build leaves the phase Building, or ends its cleanup.
LEMMA EndBuildStore ==
    ASSUME NEW d, StoreOK(d), NEW b \in Builds, NEW phase \in {"Complete", "Cleaning", "Cleaned"}, NEW e,
           \/ e = [d EXCEPT !.clock = @ + 1, !.hold[b] = NoHold, !.build[b].phase = phase]
           \/ e = [d EXCEPT !.clock = @ + 1, !.build[b].phase = phase]
    PROVE  ClientStep(d, e)
  <1>1. /\ d \in Stores /\ d.build \in [Builds -> BuildRows] /\ d.minted \in SUBSET Snapshots
        /\ b \in Holders
    BY DEF StoreOK, Stores, Holders
  <1>2. PICK builds : builds = [d.build EXCEPT ![b].phase = phase]
    OBVIOUS
  <1>3. /\ builds \in [Builds -> BuildRows] /\ builds[b].phase = phase
        /\ \A c \in Builds : c # b => builds[c] = d.build[c]
    <2>1. PICK row : row = [d.build[b] EXCEPT !.phase = phase]
      OBVIOUS
    <2>2. row \in BuildRows /\ row.phase = phase
      BY <2>1, <1>1 DEF BuildRows
    <2>3. builds = [d.build EXCEPT ![b] = row]
      BY <2>1, <1>2
    <2> QED BY <2>2, <2>3, <1>1
  <1>4. builds[b].phase \notin {"None", "Building"}
    BY <1>3
  <1>5. CASE e = [d EXCEPT !.clock = @ + 1, !.hold[b] = NoHold, !.build[b].phase = phase]
    <2>1. e = [d EXCEPT !.clock = @ + 1, !.hold = [d.hold EXCEPT ![b] = NoHold],
                        !.build = builds, !.minted = d.minted]
      BY <1>1, <1>2, <1>5 DEF Stores
    <2>2. HoldUpdate(d, b, NoHold, builds, d.minted, e)
      BY <2>1, <1>1, <1>3, <1>4, Zenon DEF HoldUpdate
    <2> QED BY <2>2, <1>1, CalmStep
  <1>6. CASE e = [d EXCEPT !.clock = @ + 1, !.build[b].phase = phase]
    <2>1. d.hold = [d.hold EXCEPT ![b] = d.hold[b]]
      BY <1>1 DEF Stores
    <2>2. e = [d EXCEPT !.clock = @ + 1, !.hold = d.hold, !.build = builds, !.minted = d.minted]
      BY <1>1, <1>2, <1>6 DEF Stores
    <2>3. e = [d EXCEPT !.clock = @ + 1, !.hold = [d.hold EXCEPT ![b] = d.hold[b]],
                        !.build = builds, !.minted = d.minted]
      BY <2>1, <2>2, Zenon
    <2>4. HoldUpdate(d, b, d.hold[b], builds, d.minted, e)
      BY <2>3, <1>1, <1>3, <1>4, Zenon DEF HoldUpdate
    <2> QED BY <2>4, <1>1, CalmStep
  <1> QED BY <1>5, <1>6

-----------------------------------------------------------------------------
(* What a step owes the provider, the durable rows and the worker.         *)

LEMMA LivesFrame ==
    ASSUME NEW d, NEW e, SameLives(d, e), NEW r \in Revisions
    PROVE  /\ e.rev[r].state = d.rev[r].state /\ Available(e, r) = Available(d, r)
           /\ Gone(e, r) = Gone(d, r) /\ ReusedRows(e, r) = ReusedRows(d, r)
           /\ ManifestLength(e, r) = ManifestLength(d, r) /\ e.gc[r] = d.gc[r]
  <1>1. e.rev[r].state = d.rev[r].state /\ e.rev[r].deps = d.rev[r].deps /\ e.gc[r] = d.gc[r]
    BY DEF SameLives
  <1> QED BY <1>1 DEF Available, Gone, ReusedRows, ManifestLength

LEMMA ObjectsFrame ==
    ASSUME NEW d, NEW e, SameLives(d, e), NEW have, NEW doomed, ObjectsOK(d, have, doomed)
    PROVE  ObjectsOK(e, have, doomed)
  BY LivesFrame DEF ObjectsOK

LEMMA WorkerEntry ==
    ASSUME NEW w, NEW d, NEW e, NEW have, WorkerOK(w, d, e, have), StoreOK(d), w.todo # {}
    PROVE  /\ First(w.todo) \in w.todo /\ First(w.todo) \in d.cand
           /\ First(w.todo) \in CandRows /\ First(w.todo).rev \in Revisions
           /\ First(w.todo).epoch \in Nat /\ First(w.todo).zero \in Nat
           /\ d.rev[First(w.todo).rev].state # "Absent"
           /\ First(w.todo).state = "Claimed" => Gone(d, First(w.todo).rev)
  <1>1. w.todo \subseteq d.cand /\ d.cand \subseteq CandRows /\ CandsOK(d)
    BY DEF WorkerOK, StoreOK, Stores, BooksOK
  <1>2. PICK c : c = First(w.todo)
    OBVIOUS
  <1>3. c \in w.todo
    BY <1>1, <1>2, FirstIn
  <1>4. c \in d.cand /\ c \in CandRows
    BY <1>1, <1>3
  <1>5. c.rev \in Revisions /\ c.epoch \in Nat /\ c.zero \in Nat
    BY <1>4 DEF CandRows
  <1>6. d.rev[c.rev].state # "Absent" /\ (c.state = "Claimed" => Gone(d, c.rev))
    BY <1>1, <1>4 DEF CandsOK
  <1> QED BY <1>2, <1>3, <1>4, <1>5, <1>6

LEMMA ClientFrame ==
    ASSUME NEW d, NEW e, NEW have, NEW doomed, NEW w, AllOK(d, e, have, doomed, w),
           NEW d2, ClientStep(d, d2), NEW flag \in BOOLEAN
    PROVE  AllOK(d2, e, have, doomed, [w EXCEPT !.raced = flag])
  <1> USE DEF AllOK
  <1>1. StoreOK(d2) /\ SameLives(d, d2) /\ d.cand \subseteq d2.cand
    BY DEF ClientStep
  <1>2. ObjectsOK(d2, have, doomed)
    BY <1>1, ObjectsFrame
  <1>3. Known(e, d2)
    BY <1>1 DEF Known, SameLives
  <1>4. PICK w2 : w2 = [w EXCEPT !.raced = flag]
    OBVIOUS
  <1>5. w2 \in Workers /\ w2.pc = w.pc /\ w2.todo = w.todo /\ w2.row = w.row
    BY <1>4 DEF WorkerOK, Workers
  <1>6. WorkerOK(w2, d2, e, have)
    <2>1. w2.todo \subseteq d2.cand
      BY <1>1, <1>5 DEF WorkerOK
    <2>2. w.todo # {} => ReusedRows(d2, First(w.todo).rev) = ReusedRows(d, First(w.todo).rev)
      <3> SUFFICES ASSUME w.todo # {}
                   PROVE  ReusedRows(d2, First(w.todo).rev) = ReusedRows(d, First(w.todo).rev)
        OBVIOUS
      <3>1. First(w.todo).rev \in Revisions
        BY WorkerEntry
      <3> QED BY <3>1, <1>1, LivesFrame
    <2> QED BY <2>1, <2>2, <1>5 DEF WorkerOK, DeleteRequired
  <1> QED BY <1>1, <1>2, <1>3, <1>4, <1>6

-----------------------------------------------------------------------------
(* Publications.                                                           *)

OldOf(d, p) == IF d.path[p] = None THEN {} ELSE {d.path[p]}
OwnersOf(d, p, reuse) ==
    IF reuse THEN OldOf(d, p) \cup UNION {d.rev[o].deps : o \in OldOf(d, p)} ELSE {}
DeltaOf(owners, old) ==
    [o \in owners \cup old |-> (IF o \in owners THEN 1 ELSE 0) - (IF o \in old THEN 1 ELSE 0)]

IsDelta(owners, old, delta) ==
    /\ DOMAIN delta = owners \cup old
    /\ \A o \in DOMAIN delta : delta[o] \in Int
    /\ \A o \in owners \cup old : /\ o \in owners /\ o \in old => delta[o] = 0
                                  /\ o \in owners /\ o \notin old => delta[o] = 1
                                  /\ o \notin owners /\ o \in old => delta[o] = -1

LEMMA DeltaFacts == \A owners, old : IsDelta(owners, old, DeltaOf(owners, old))
  BY DEF DeltaOf, IsDelta

\* What a publication of r at p leaves of d: t has the counts of the revisions
\* it touches, e is the result.
PublishUpdate(d, p, r, owners, old, t, e) ==
    /\ d.rev[r].state = "Absent"
    /\ old = OldOf(d, p)
    /\ owners \subseteq Revisions
    /\ \A o \in owners \cup old : Available(d, o)
    /\ IsTouched(d, DeltaOf(owners, old), t)
    /\ e \in Stores
    /\ e.rev[r] = Published(owners)
    /\ \A o \in Revisions : o # r => e.rev[o] = t.rev[o]
    /\ e.refs = ((d.refs \ {PathRef(p, o) : o \in old}) \cup {PathRef(p, r)})
                    \cup {DependencyRef(r, o) : o \in owners}
    /\ \A q \in Paths : e.path[q] = IF q = p THEN r ELSE d.path[q]
    /\ e.cand = t.cand /\ e.gc = t.gc /\ e.hold = t.hold /\ e.clock = t.clock /\ e.build = t.build

LEMMA PublishFacts ==
    ASSUME NEW d, StoreOK(d), NEW p \in Paths, NEW r \in Revisions, NEW owners, NEW old, NEW t, NEW e,
           PublishUpdate(d, p, r, owners, old, t, e)
    PROVE  /\ old \subseteq Revisions /\ r \notin owners \cup old
           /\ \A o \in old : PathRef(p, o) \in d.refs
           /\ \A o : DependencyRef(r, o) \notin d.refs
           /\ \A ref \in d.refs : ref.to # r
           /\ \A q \in Paths : d.path[q] # r
           /\ t \in Stores /\ BooksOK(t) /\ RefsOK(t) /\ SameLives(d, t)
           /\ \A o \in Revisions \ {r} : /\ o \in owners /\ o \in old => e.rev[o].count = d.rev[o].count
                                         /\ o \in owners /\ o \notin old => e.rev[o].count = d.rev[o].count + 1
                                         /\ o \notin owners /\ o \in old => e.rev[o].count = d.rev[o].count + (-1)
                                         /\ o \notin owners \cup old => e.rev[o] = d.rev[o]
  <1> USE DEF PublishUpdate
  <1>1. d \in Stores /\ PathsOK(d) /\ LiveRefs(d) /\ DepsOK(d)
    BY DEF StoreOK, RefsOK
  <1>2. old \subseteq Revisions
    BY <1>1 DEF OldOf, Stores, Bindings
  <1>3. \A o \in old : PathRef(p, o) \in d.refs
    BY <1>1 DEF OldOf, PathsOK
  <1>4. r \notin owners \cup old
    BY DEF Available
  <1>5. \A o : DependencyRef(r, o) \notin d.refs
    <2> SUFFICES ASSUME NEW o, DependencyRef(r, o) \in d.refs PROVE FALSE
      OBVIOUS
    <2>1. DependencyRef(r, o).kind = "Dependency" /\ DependencyRef(r, o).from = r
      BY DEF DependencyRef
    <2> QED BY <2>1, <1>1 DEF DepsOK
  <1>6. \A ref \in d.refs : ref.to # r
    BY <1>1 DEF LiveRefs, Available
  <1>7. \A q \in Paths : d.path[q] # r
    <2> SUFFICES ASSUME NEW q \in Paths, d.path[q] = r PROVE FALSE
      OBVIOUS
    <2>1. PathRef(q, r) \in d.refs /\ PathRef(q, r).to = r
      BY <1>1, Constants DEF PathsOK, PathRef
    <2> QED BY <2>1, <1>6
  <1>8. PICK delta : delta = DeltaOf(owners, old)
    OBVIOUS
  <1>0. /\ DOMAIN delta = owners \cup old
        /\ \A o \in DOMAIN delta : delta[o] \in Int
        /\ \A o \in owners \cup old : /\ o \in owners /\ o \in old => delta[o] = 0
                                      /\ o \in owners /\ o \notin old => delta[o] = 1
                                      /\ o \notin owners /\ o \in old => delta[o] = -1
    <2>1. IsDelta(owners, old, delta)
      BY <1>8, DeltaFacts
    <2> QED BY <2>1 DEF IsDelta
  <1>9. /\ DOMAIN delta = owners \cup old /\ DOMAIN delta \subseteq Revisions
        /\ \A o \in DOMAIN delta : delta[o] \in Int /\ Available(d, o)
    <2>1. owners \subseteq Revisions /\ \A o \in owners \cup old : Available(d, o)
      OBVIOUS
    <2> HIDE DEF PublishUpdate
    <2> QED BY <2>1, <1>2, <1>0
  <1>10. IsTouched(d, delta, t)
    BY <1>8
  <1>11. t \in Stores /\ BooksOK(t) /\ RefsOK(t) /\ SameLives(d, t)
    BY <1>9, <1>10, TouchedBooks, TouchedLives
  <1>12. ASSUME NEW o \in Revisions \ {r}
         PROVE  /\ o \in owners /\ o \in old => e.rev[o].count = d.rev[o].count
                /\ o \in owners /\ o \notin old => e.rev[o].count = d.rev[o].count + 1
                /\ o \notin owners /\ o \in old => e.rev[o].count = d.rev[o].count + (-1)
                /\ o \notin owners \cup old => e.rev[o] = d.rev[o]
    <2>1. e.rev[o] = t.rev[o]
      OBVIOUS
    <2>2. o \notin owners \cup old => t.rev[o] = d.rev[o]
      BY <1>9, <1>10 DEF IsTouched
    <2>3. o \in owners \cup old => t.rev[o].count = d.rev[o].count + delta[o]
      BY <1>9, <1>10 DEF IsTouched, IsRetouched
    <2>4. d.rev[o].count \in Int
      BY <1>1 DEF Stores, RevRows
    <2>5. /\ o \in owners /\ o \in old => delta[o] = 0
          /\ o \in owners /\ o \notin old => delta[o] = 1
          /\ o \notin owners /\ o \in old => delta[o] = -1
      BY <1>0
    <2> QED BY <2>1, <2>2, <2>3, <2>4, <2>5
  <1> QED BY <1>2, <1>3, <1>4, <1>5, <1>6, <1>7, <1>11, <1>12

LEMMA PublishCounted ==
    ASSUME NEW d, StoreOK(d), NEW p \in Paths, NEW r \in Revisions, NEW owners, NEW old, NEW t, NEW e,
           PublishUpdate(d, p, r, owners, old, t, e)
    PROVE  Counted(e)
  <1>1. /\ old \subseteq Revisions /\ r \notin owners \cup old
        /\ \A o \in old : PathRef(p, o) \in d.refs
        /\ \A o : DependencyRef(r, o) \notin d.refs
        /\ \A ref \in d.refs : ref.to # r
    BY PublishFacts
  <1>2. /\ e.rev[r] = Published(owners)
        /\ e.refs = ((d.refs \ {PathRef(p, o) : o \in old}) \cup {PathRef(p, r)})
                        \cup {DependencyRef(r, o) : o \in owners}
    BY DEF PublishUpdate
  <1>3. \A q, o : PathRef(q, o).to = o /\ DependencyRef(q, o).to = o
    BY DEF PathRef, DependencyRef
  <1>4. \A q, o, s, x : PathRef(q, o) # DependencyRef(s, x)
    BY DEF PathRef, DependencyRef
  <1> SUFFICES ASSUME NEW o \in Revisions
               PROVE  IsFiniteSet(RefsTo(e, o)) /\ e.rev[o].count = Cardinality(RefsTo(e, o))
    BY DEF Counted
  <1>5. IsFiniteSet(RefsTo(d, o)) /\ d.rev[o].count = Cardinality(RefsTo(d, o))
    BY DEF StoreOK, Counted
  <1>6. d.rev[o].count \in Int
    BY DEF StoreOK, Stores, RevRows
  <1>7. o # r => /\ o \in owners /\ o \in old => e.rev[o].count = d.rev[o].count
                 /\ o \in owners /\ o \notin old => e.rev[o].count = d.rev[o].count + 1
                 /\ o \notin owners /\ o \in old => e.rev[o].count = d.rev[o].count + (-1)
                 /\ o \notin owners \cup old => e.rev[o] = d.rev[o]
    BY PublishFacts
  <1>8. o \in old => PathRef(p, o) \in RefsTo(d, o)
    BY <1>1, <1>3 DEF RefsTo
  <1>9. DependencyRef(r, o) \notin RefsTo(d, o)
    BY <1>1 DEF RefsTo
  <1>10. CASE o = r
    <2>1. RefsTo(e, o) = {PathRef(p, o)}
      BY <1>10, <1>1, <1>2, <1>3 DEF RefsTo
    <2>2. e.rev[o].count = 1
      BY <1>10, <1>2 DEF Published
    <2> QED BY <2>1, <2>2, FS_Singleton
  <1>11. CASE o # r /\ o \in owners /\ o \in old
    <2>1. RefsTo(e, o) = (RefsTo(d, o) \ {PathRef(p, o)}) \cup {DependencyRef(r, o)}
      BY <1>11, <1>2, <1>3, <1>4 DEF RefsTo
    <2>2. PICK S : S = RefsTo(d, o) \ {PathRef(p, o)}
      OBVIOUS
    <2>3. IsFiniteSet(S) /\ Cardinality(S) = Cardinality(RefsTo(d, o)) + (-1)
      BY <2>2, <1>5, <1>8, <1>11, CountOne
    <2>4. DependencyRef(r, o) \notin S
      BY <2>2, <1>9
    <2>5. IsFiniteSet(S \cup {DependencyRef(r, o)})
            /\ Cardinality(S \cup {DependencyRef(r, o)}) = Cardinality(S) + 1
      BY <2>3, <2>4, CountOne
    <2>6. e.rev[o].count = d.rev[o].count
      BY <1>7, <1>11
    <2> QED BY <2>1, <2>2, <2>3, <2>5, <2>6, <1>5, <1>6
  <1>12. CASE o # r /\ o \in owners /\ o \notin old
    <2>1. RefsTo(e, o) = RefsTo(d, o) \cup {DependencyRef(r, o)}
      BY <1>12, <1>2, <1>3, <1>4 DEF RefsTo
    <2>2. IsFiniteSet(RefsTo(d, o) \cup {DependencyRef(r, o)})
            /\ Cardinality(RefsTo(d, o) \cup {DependencyRef(r, o)}) = Cardinality(RefsTo(d, o)) + 1
      BY <1>5, <1>9, CountOne
    <2>3. e.rev[o].count = d.rev[o].count + 1
      BY <1>7, <1>12
    <2> QED BY <2>1, <2>2, <2>3, <1>5
  <1>13. CASE o # r /\ o \notin owners /\ o \in old
    <2>1. RefsTo(e, o) = RefsTo(d, o) \ {PathRef(p, o)}
      BY <1>13, <1>2, <1>3, <1>4 DEF RefsTo
    <2>2. IsFiniteSet(RefsTo(d, o) \ {PathRef(p, o)})
            /\ Cardinality(RefsTo(d, o) \ {PathRef(p, o)}) = Cardinality(RefsTo(d, o)) + (-1)
      BY <1>5, <1>8, <1>13, CountOne
    <2>3. e.rev[o].count = d.rev[o].count + (-1)
      BY <1>7, <1>13
    <2> QED BY <2>1, <2>2, <2>3, <1>5
  <1>14. CASE o # r /\ o \notin owners \cup old
    <2>1. RefsTo(e, o) = RefsTo(d, o)
      BY <1>14, <1>2, <1>3, <1>4 DEF RefsTo
    <2> QED BY <2>1, <1>5, <1>7, <1>14
  <1> QED BY <1>10, <1>11, <1>12, <1>13, <1>14

LEMMA PublishBooks ==
    ASSUME NEW d, StoreOK(d), NEW p \in Paths, NEW r \in Revisions, NEW owners, NEW old, NEW t, NEW e,
           PublishUpdate(d, p, r, owners, old, t, e)
    PROVE  BooksOK(e)
  <1>1. t \in Stores /\ BooksOK(t) /\ SameLives(d, t)
    BY PublishFacts
  <1>2. /\ e.cand = t.cand /\ e.gc = t.gc /\ e.hold = t.hold /\ e.clock = t.clock
        /\ e.rev[r] = Published(owners) /\ \A o \in Revisions : o # r => e.rev[o] = t.rev[o]
    BY DEF PublishUpdate
  <1>3. t.rev[r].state = "Absent"
    BY <1>1 DEF PublishUpdate, SameLives
  <1>4. e.rev[r].state = "Available" /\ e.rev[r].count = 1
    BY <1>2 DEF Published
  <1>5. Queued(e)
    BY <1>1, <1>2, <1>4 DEF BooksOK, Queued, Unreferenced, Available
  <1>6. CandsOK(e)
    <2> SUFFICES ASSUME NEW c \in e.cand
                 PROVE  /\ e.rev[c.rev].state # "Absent"
                        /\ c.epoch <= e.rev[c.rev].epoch
                        /\ c.state # "Candidate" => Gone(e, c.rev)
                        /\ c.epoch = e.rev[c.rev].epoch /\ Unreferenced(e, c.rev) =>
                              c.zero = e.rev[c.rev].zero
      BY DEF CandsOK
    <2>1. /\ t.rev[c.rev].state # "Absent"
          /\ c.epoch <= t.rev[c.rev].epoch
          /\ c.state # "Candidate" => Gone(t, c.rev)
          /\ c.epoch = t.rev[c.rev].epoch /\ Unreferenced(t, c.rev) =>
                c.zero = t.rev[c.rev].zero
      BY <1>1, <1>2 DEF BooksOK, CandsOK
    <2>2. c.rev \in Revisions /\ c.rev # r
      BY <1>1, <1>2, <1>3, <2>1 DEF Stores, CandRows
    <2> QED BY <1>2, <2>1, <2>2 DEF Gone, Unreferenced, Available
  <1>7. HoldsOK(e)
    <2> SUFFICES ASSUME NEW h \in Holders PROVE HoldOK(e, h)
      BY DEF HoldsOK
    <2>1. HoldOK(t, h)
      BY <1>1 DEF BooksOK, HoldsOK
    <2>2. ASSUME NEW q \in Paths, t.hold[h].view[q] # None
          PROVE  e.rev[t.hold[h].view[q]] = t.rev[t.hold[h].view[q]]
      <3>1. t.hold[h].view[q] \in Revisions
        BY <2>2, <1>1 DEF Stores, HoldRows, Bindings
      <3>2. Available(t, t.hold[h].view[q])
        BY <2>1, <2>2 DEF HoldOK
      <3>3. t.hold[h].view[q] # r
        BY <3>2, <1>3 DEF Available
      <3> QED BY <3>1, <3>3, <1>2
    <2>3. t.hold[h].version <= e.clock /\ e.hold[h] = t.hold[h]
      BY <2>1, <1>2 DEF HoldOK
    <2> QED BY <2>1, <2>2, <2>3, HoldCarries
  <1>8. GcOK(e)
    <2> SUFFICES ASSUME NEW o \in Revisions, e.gc[o].phase \in {"Claimed", "Deleting"}
                 PROVE  e.rev[o].state = "Deleting"
      BY DEF GcOK
    <2>1. t.rev[o].state = "Deleting"
      BY <1>1, <1>2 DEF BooksOK, GcOK
    <2>2. o # r
      BY <2>1, <1>3
    <2> QED BY <2>1, <2>2, <1>2
  <1> QED BY <1>5, <1>6, <1>7, <1>8 DEF BooksOK

LEMMA PublishRefs ==
    ASSUME NEW d, StoreOK(d), NEW p \in Paths, NEW r \in Revisions, NEW owners, NEW old, NEW t, NEW e,
           PublishUpdate(d, p, r, owners, old, t, e)
    PROVE  RefsOK(e)
  <1>1. /\ old \subseteq Revisions /\ r \notin owners \cup old
        /\ \A ref \in d.refs : ref.to # r
        /\ \A q \in Paths : d.path[q] # r
        /\ t \in Stores /\ RefsOK(t) /\ SameLives(d, t)
    BY PublishFacts
  <1>2. /\ e.rev[r] = Published(owners) /\ \A o \in Revisions : o # r => e.rev[o] = t.rev[o]
        /\ e.refs = ((d.refs \ {PathRef(p, o) : o \in old}) \cup {PathRef(p, r)})
                        \cup {DependencyRef(r, o) : o \in owners}
        /\ \A q \in Paths : e.path[q] = IF q = p THEN r ELSE d.path[q]
        /\ e.hold = t.hold /\ e.build = t.build
        /\ d.rev[r].state = "Absent" /\ old = OldOf(d, p) /\ owners \subseteq Revisions
        /\ \A o \in owners \cup old : Available(d, o)
    BY DEF PublishUpdate
  <1>3. t.refs = d.refs /\ t.path = d.path /\ t.hold = d.hold /\ t.build = d.build
    BY DEF PublishUpdate, IsTouched
  <1>4. e.rev[r].state = "Available" /\ e.rev[r].deps = owners
    BY <1>2 DEF Published
  <1>5. \A ref \in e.refs : ref \in d.refs \/ ref = PathRef(p, r) \/ \E o \in owners : ref = DependencyRef(r, o)
    BY <1>2
  <1>6. /\ PathRef(p, r).kind = "Path" /\ PathRef(p, r).to = r
        /\ \A o : /\ DependencyRef(r, o).kind = "Dependency" /\ DependencyRef(r, o).from = r
                  /\ DependencyRef(r, o).to = o
    BY DEF PathRef, DependencyRef
  <1>7. \A ref \in d.refs : ref.kind # "Path" => ref \in e.refs
    BY <1>2 DEF PathRef
  <1>8. LiveRefs(e)
    <2> SUFFICES ASSUME NEW ref \in e.refs PROVE Available(e, ref.to)
      BY DEF LiveRefs
    <2>1. CASE ref \in d.refs
      <3>1. ref.to \in Revisions /\ ref.to # r /\ Available(t, ref.to)
        BY <2>1, <1>1, <1>3 DEF Stores, RefRows, RefsOK, LiveRefs
      <3> QED BY <3>1, <1>2 DEF Available
    <2>2. CASE ref = PathRef(p, r)
      BY <2>2, <1>4, <1>6 DEF Available
    <2>3. CASE \E o \in owners : ref = DependencyRef(r, o)
      <3>1. PICK o \in owners : ref = DependencyRef(r, o)
        BY <2>3
      <3>2. o # r /\ o \in Revisions /\ Available(t, o)
        BY <3>1, <1>1, <1>2 DEF SameLives, Available
      <3>3. ref.to = o
        BY <3>1, <1>6
      <3> QED BY <3>2, <3>3, <1>2 DEF Available
    <2> QED BY <2>1, <2>2, <2>3, <1>5
  <1>9. DepsOK(e)
    <2>1. ASSUME NEW x \in Revisions, e.rev[x].state \in {"Available", "Deleting"}, NEW o \in e.rev[x].deps
          PROVE  DependencyRef(x, o) \in e.refs
      <3>1. CASE x = r
        BY <3>1, <2>1, <1>2, <1>4
      <3>2. CASE x # r
        <4>1. e.rev[x] = t.rev[x]
          BY <3>2, <1>2
        <4>2. DependencyRef(x, o) \in d.refs
          BY <4>1, <2>1, <1>1, <1>3 DEF RefsOK, DepsOK
        <4>3. DependencyRef(x, o).kind = "Dependency"
          BY DEF DependencyRef
        <4> QED BY <4>2, <4>3, <1>7
      <3> QED BY <3>1, <3>2
    <2>2. ASSUME NEW ref \in e.refs, ref.kind = "Dependency"
          PROVE  ref.from \in Revisions /\ e.rev[ref.from].state # "Absent"
      <3>1. CASE ref \in d.refs
        <4>1. ref.from \in Revisions /\ t.rev[ref.from].state # "Absent"
          BY <3>1, <2>2, <1>1, <1>3 DEF RefsOK, DepsOK
        <4> QED BY <4>1, <1>2, <1>4
      <3>2. CASE \E o \in owners : ref = DependencyRef(r, o)
        BY <3>2, <1>4, <1>6
      <3> QED BY <3>1, <3>2, <2>2, <1>5, <1>6
    <2> QED BY <2>1, <2>2 DEF DepsOK
  <1>10. PathsOK(e)
    <2>1. Injective(e.path)
      BY <1>1, <1>2, <1>3 DEF RefsOK, PathsOK, Injective
    <2>2. ASSUME NEW q \in Paths, e.path[q] # None
          PROVE  PathRef(q, e.path[q]) \in e.refs
      <3>1. CASE q = p
        BY <3>1, <1>2
      <3>2. CASE q # p
        <4>1. e.path[q] = d.path[q] /\ PathRef(q, d.path[q]) \in d.refs
          BY <3>2, <2>2, <1>1, <1>2, <1>3 DEF RefsOK, PathsOK
        <4>2. \A o : PathRef(q, d.path[q]) # PathRef(p, o)
          BY <3>2 DEF PathRef
        <4> QED BY <4>1, <4>2, <1>2
      <3> QED BY <3>1, <3>2
    <2> QED BY <2>1, <2>2 DEF PathsOK
  <1>11. BuildsOK(e)
    <2> SUFFICES ASSUME NEW b \in Builds PROVE BuildOK(e, b)
      BY DEF BuildsOK
    <2>1. \A o : CommitRef(b, o).kind = "Commit"
      BY DEF CommitRef
    <2>2. \A o : CommitRef(b, o) \in e.refs => CommitRef(b, o) \in t.refs
      <3> SUFFICES ASSUME NEW o, CommitRef(b, o) \in e.refs PROVE CommitRef(b, o) \in t.refs
        OBVIOUS
      <3> QED BY <2>1, <1>3, <1>5, <1>6
    <2>3. BuildOK(t, b)
      BY <1>1 DEF RefsOK, BuildsOK
    <2> QED BY <2>2, <2>3, <1>2, <1>3 DEF BuildOK
  <1> QED BY <1>8, <1>9, <1>10, <1>11 DEF RefsOK

\* A publication keeps the invariant.
LEMMA PublishAll ==
    ASSUME NEW d, NEW x, NEW have, NEW doomed, NEW w, AllOK(d, x, have, doomed, w),
           NEW p \in Paths, NEW r \in Revisions, NEW owners, NEW old, NEW t, NEW e,
           PublishUpdate(d, p, r, owners, old, t, e), NEW flag \in BOOLEAN
    PROVE  AllOK(e, x, have \cup OwnObjects(r), doomed, [w EXCEPT !.raced = flag])
  <1> USE DEF AllOK
  <1>1. StoreOK(e)
    <2>1. e \in Stores
      BY DEF PublishUpdate
    <2> QED BY <2>1, PublishCounted, PublishBooks, PublishRefs DEF StoreOK
  <1>2. SameLives(d, t)
    BY PublishFacts
  <1>3. /\ e.rev[r] = Published(owners) /\ \A o \in Revisions : o # r => e.rev[o] = t.rev[o]
        /\ e.gc = t.gc /\ e.cand = t.cand /\ d.rev[r].state = "Absent" /\ d.cand \subseteq t.cand
    BY DEF PublishUpdate, IsTouched
  <1>4. e.rev[r].state = "Available"
    BY <1>3 DEF Published
  <1>5. \A o \in Revisions : o # r => /\ Available(e, o) = Available(d, o) /\ Gone(e, o) = Gone(d, o)
                                      /\ e.rev[o].state = d.rev[o].state
                                      /\ ReusedRows(e, o) = ReusedRows(d, o) /\ e.gc[o] = d.gc[o]
    BY <1>2, <1>3 DEF SameLives, Available, Gone, ReusedRows
  <1>6. \A o \in Revisions : o # r => \A i : <<o, i>> \in have \cup OwnObjects(r) <=> <<o, i>> \in have
    BY DEF OwnObjects
  <1>7. \A o \in Revisions : o # r => OwnObjects(o) \cap OwnObjects(r) = {}
    BY DEF OwnObjects
  <1>8. x.rev[r].state = "Absent"
    BY <1>3 DEF Known
  <1>9. \A i \in 1..OwnBlocks : <<r, i>> \notin doomed
    BY <1>3 DEF ObjectsOK, Gone
  <1>10. ObjectsOK(e, have \cup OwnObjects(r), doomed)
    <2> SUFFICES ASSUME NEW o \in Revisions
                 PROVE  /\ Available(e, o) => OwnObjects(o) \subseteq have \cup OwnObjects(r)
                        /\ \A i \in 1..OwnBlocks : <<o, i>> \in doomed => Gone(e, o)
                        /\ e.rev[o].state = "Deleted" => OwnObjects(o) \cap (have \cup OwnObjects(r)) = {}
                        /\ e.rev[o].state = "Deleting" => \A i \in 1..OwnBlocks :
                              ReusedRows(e, o) + i <= e.gc[o].cursor => <<o, i>> \notin have \cup OwnObjects(r)
      BY DEF ObjectsOK
    <2>1. CASE o = r
      BY <2>1, <1>4, <1>9
    <2>2. CASE o # r
      <3>1. /\ Available(d, o) => OwnObjects(o) \subseteq have
            /\ \A i \in 1..OwnBlocks : <<o, i>> \in doomed => Gone(d, o)
            /\ d.rev[o].state = "Deleted" => OwnObjects(o) \cap have = {}
            /\ d.rev[o].state = "Deleting" => \A i \in 1..OwnBlocks :
                  ReusedRows(d, o) + i <= d.gc[o].cursor => <<o, i>> \notin have
        BY DEF ObjectsOK
      <3> QED BY <2>2, <3>1, <1>5, <1>6, <1>7
    <2> QED BY <2>1, <2>2
  <1>11. ObjectsOK(x, have \cup OwnObjects(r), doomed)
    <2> SUFFICES ASSUME NEW o \in Revisions
                 PROVE  /\ Available(x, o) => OwnObjects(o) \subseteq have \cup OwnObjects(r)
                        /\ \A i \in 1..OwnBlocks : <<o, i>> \in doomed => Gone(x, o)
                        /\ x.rev[o].state = "Deleted" => OwnObjects(o) \cap (have \cup OwnObjects(r)) = {}
                        /\ x.rev[o].state = "Deleting" => \A i \in 1..OwnBlocks :
                              ReusedRows(x, o) + i <= x.gc[o].cursor => <<o, i>> \notin have \cup OwnObjects(r)
      BY DEF ObjectsOK
    <2>3. /\ Available(x, o) => OwnObjects(o) \subseteq have
          /\ \A i \in 1..OwnBlocks : <<o, i>> \in doomed => Gone(x, o)
          /\ x.rev[o].state = "Deleted" => OwnObjects(o) \cap have = {}
          /\ x.rev[o].state = "Deleting" => \A i \in 1..OwnBlocks :
                ReusedRows(x, o) + i <= x.gc[o].cursor => <<o, i>> \notin have
      BY DEF ObjectsOK
    <2>1. CASE o = r
      BY <2>1, <2>3, <1>8, <1>9 DEF Available
    <2>2. CASE o # r
      BY <2>2, <2>3, <1>6, <1>7
    <2> QED BY <2>1, <2>2
  <1>12. Known(x, e)
    BY <1>4, <1>5 DEF Known
  <1>13. PICK w2 : w2 = [w EXCEPT !.raced = flag]
    OBVIOUS
  <1>14. w2 \in Workers /\ w2.pc = w.pc /\ w2.todo = w.todo /\ w2.row = w.row
    BY <1>13 DEF WorkerOK, Workers
  <1>15. WorkerOK(w2, e, x, have \cup OwnObjects(r))
    <2>1. w2.todo \subseteq e.cand
      BY <1>3, <1>14 DEF WorkerOK
    <2>2. w.todo # {} => First(w.todo).rev \in Revisions /\ First(w.todo).rev # r
      BY <1>3, WorkerEntry
    <2>3. w.todo # {} => ReusedRows(e, First(w.todo).rev) = ReusedRows(d, First(w.todo).rev)
      BY <2>2, <1>5
    <2>4. w.todo # {} => \A i : <<First(w.todo).rev, i>> \in have \cup OwnObjects(r)
                                   => <<First(w.todo).rev, i>> \in have
      BY <2>2, <1>6
    <2> QED BY <2>1, <2>3, <2>4, <1>14 DEF WorkerOK, DeleteRequired
  <1> QED BY <1>1, <1>10, <1>11, <1>12, <1>13, <1>15

-----------------------------------------------------------------------------
(* Commands of the worker.                                                 *)

\* Only candidates and collections change.
Quiet(d, e) ==
    /\ e \in Stores /\ e.clock = d.clock + 1
    /\ e.rev = d.rev /\ e.refs = d.refs /\ e.hold = d.hold /\ e.build = d.build /\ e.path = d.path

LEMMA QuietStore ==
    ASSUME NEW d, StoreOK(d), NEW e, Quiet(d, e), Queued(e), CandsOK(e), GcOK(e)
    PROVE  StoreOK(e)
  <1>1. Counted(e)
    BY DEF StoreOK, Counted, Quiet, RefsTo
  <1>2. RefsOK(e)
    BY DEF StoreOK, RefsOK, Quiet, LiveRefs, DepsOK, PathsOK, BuildsOK, BuildOK, Available
  <1>3. HoldsOK(e)
    <2> SUFFICES ASSUME NEW h \in Holders PROVE HoldOK(e, h)
      BY DEF HoldsOK
    <2>1. HoldOK(d, h) /\ d.hold[h].version \in Nat /\ d.clock \in Nat
      BY DEF StoreOK, BooksOK, HoldsOK, Stores, HoldRows
    <2>2. d.hold[h].version <= e.clock
      BY <2>1 DEF HoldOK, Quiet
    <2> QED BY <2>1, <2>2 DEF HoldOK, Quiet, Available
  <1> QED BY <1>1, <1>2, <1>3 DEF StoreOK, BooksOK, Quiet

LEMMA BarrierStore ==
    ASSUME NEW d, StoreOK(d), NEW e, e = [d EXCEPT !.clock = @ + 1]
    PROVE  StoreOK(e) /\ SameLives(d, e) /\ e.cand = d.cand
  <1>1. d \in Stores
    BY DEF StoreOK
  <1>2. Quiet(d, e) /\ e.cand = d.cand /\ e.gc = d.gc /\ e.rev = d.rev
    BY <1>1 DEF Stores, Quiet
  <1>3. Queued(e) /\ CandsOK(e) /\ GcOK(e)
    BY <1>2 DEF StoreOK, BooksOK, Queued, CandsOK, GcOK, Unreferenced, Gone, Available
  <1> QED BY <1>2, <1>3, QuietStore DEF SameLives

LEMMA ClearStaleStore ==
    ASSUME NEW d, StoreOK(d), NEW c \in d.cand, d.rev[c.rev].epoch # c.epoch, NEW e,
           e = [d EXCEPT !.clock = @ + 1, !.cand = @ \ {c}]
    PROVE  StoreOK(e) /\ SameLives(d, e) /\ e.cand = d.cand \ {c}
  <1>1. d \in Stores
    BY DEF StoreOK
  <1>2. Quiet(d, e) /\ e.cand = d.cand \ {c} /\ e.gc = d.gc /\ e.rev = d.rev
    <2>1. PICK k \in Nat : k = d.clock + 1
      BY <1>1 DEF Stores
    <2>2. PICK cands \in SUBSET CandRows : cands = d.cand \ {c}
      BY <1>1 DEF Stores
    <2>3. e = [d EXCEPT !.clock = k, !.cand = cands]
      BY <2>1, <2>2
    <2>4. /\ e \in Stores /\ e.clock = k /\ e.cand = cands /\ e.gc = d.gc /\ e.rev = d.rev
          /\ e.refs = d.refs /\ e.hold = d.hold /\ e.build = d.build /\ e.path = d.path
      BY <2>3, <1>1, ZenonT(60) DEF Stores
    <2> QED BY <2>1, <2>2, <2>4 DEF Quiet
  <1>3. CandsOK(e) /\ GcOK(e)
    BY <1>2 DEF StoreOK, BooksOK, CandsOK, GcOK, Unreferenced, Gone, Available
  <1>4. Queued(e)
    <2> SUFFICES ASSUME NEW r \in Revisions, Unreferenced(e, r)
                 PROVE  [rev |-> r, epoch |-> e.rev[r].epoch, zero |-> e.rev[r].zero,
                         state |-> "Candidate"] \in e.cand
      BY DEF Queued
    <2>1. PICK q : q = [rev |-> r, epoch |-> d.rev[r].epoch, zero |-> d.rev[r].zero, state |-> "Candidate"]
      OBVIOUS
    <2>2. q \in d.cand
      BY <2>1, <1>2 DEF StoreOK, BooksOK, Queued, Unreferenced, Available
    <2>3. q # c
      BY <2>1
    <2> QED BY <2>1, <2>2, <2>3, <1>2
  <1> QED BY <1>2, <1>3, <1>4, QuietStore DEF SameLives

\* The collection of r moves on while r stays Deleting.
GcUpdate(d, r, row, e) ==
    /\ row \in GcRows
    /\ row.phase \in {"Claimed", "Deleting"} => d.rev[r].state = "Deleting"
    /\ e = [d EXCEPT !.clock = @ + 1, !.gc = [d.gc EXCEPT ![r] = row]]

LEMMA GcRowStore ==
    ASSUME NEW d, StoreOK(d), NEW r \in Revisions, NEW row, NEW e, GcUpdate(d, r, row, e)
    PROVE  /\ StoreOK(e) /\ e.cand = d.cand /\ e.rev = d.rev /\ e.gc[r] = row
           /\ \A o \in Revisions : o # r => e.gc[o] = d.gc[o]
  <1> USE DEF GcUpdate
  <1>1. d \in Stores
    BY DEF StoreOK
  <1>2. PICK gcs : gcs = [d.gc EXCEPT ![r] = row]
    OBVIOUS
  <1>3. gcs \in [Revisions -> GcRows] /\ gcs[r] = row /\ \A o \in Revisions : o # r => gcs[o] = d.gc[o]
    BY <1>1, <1>2 DEF Stores
  <1>4. e = [d EXCEPT !.clock = @ + 1, !.gc = gcs]
    BY <1>2
  <1>5. Quiet(d, e) /\ e.cand = d.cand /\ e.gc = gcs /\ e.rev = d.rev
    <2>1. PICK k \in Nat : k = d.clock + 1
      BY <1>1 DEF Stores
    <2>2. e = [d EXCEPT !.clock = k, !.gc = gcs]
      BY <2>1, <1>4
    <2>3. /\ e \in Stores /\ e.clock = k /\ e.cand = d.cand /\ e.gc = gcs /\ e.rev = d.rev
          /\ e.refs = d.refs /\ e.hold = d.hold /\ e.build = d.build /\ e.path = d.path
      BY <2>2, <1>1, <1>3, ZenonT(60) DEF Stores
    <2> QED BY <2>1, <2>3 DEF Quiet
  <1>6. Queued(e) /\ CandsOK(e)
    BY <1>5 DEF StoreOK, BooksOK, Queued, CandsOK, Unreferenced, Gone, Available
  <1>7. GcOK(e)
    BY <1>3, <1>5 DEF StoreOK, BooksOK, GcOK
  <1> QED BY <1>3, <1>5, <1>6, <1>7, QuietStore

\* Revision r, which nothing references or holds, is given up.
SealUpdate(d, c, r, state, row, cstate, e) ==
    /\ c \in d.cand /\ c.rev = r
    /\ \A ref \in d.refs : ref.to # r
    /\ \A h \in Holders, p \in Paths : d.hold[h].view[p] # r
    /\ state \in {"Deleting", "Deleted", "Quarantined"} /\ cstate \in {"Claimed", "Complete", "Quarantined"}
    /\ state = "Deleting" => d.rev[r].state \in {"Available", "Deleting"}
    /\ row \in GcRows /\ (row.phase \in {"Claimed", "Deleting"} => state = "Deleting")
    /\ e \in Stores
    /\ e.clock \in {d.clock, d.clock + 1}
    /\ e.rev = [d.rev EXCEPT ![r].state = state]
    /\ e.cand = (d.cand \ {c}) \cup {[c EXCEPT !.state = cstate]}
    /\ e.gc = [d.gc EXCEPT ![r] = row]
    /\ e.refs = d.refs /\ e.hold = d.hold /\ e.build = d.build /\ e.path = d.path

SealLeaves(d, r, state, row, e) ==
    /\ e.rev[r].state = state /\ e.rev[r].epoch = d.rev[r].epoch
    /\ e.rev[r].count = d.rev[r].count /\ e.rev[r].deps = d.rev[r].deps
    /\ \A o \in Revisions : o # r => e.rev[o] = d.rev[o] /\ e.gc[o] = d.gc[o]
    /\ e.gc[r] = row

LEMMA SealFacts ==
    ASSUME NEW d \in Stores, NEW c, NEW r \in Revisions, NEW state, NEW row, NEW cstate, NEW e,
           SealUpdate(d, c, r, state, row, cstate, e)
    PROVE  SealLeaves(d, r, state, row, e)
  <1>1. /\ e.rev = [d.rev EXCEPT ![r].state = state] /\ e.gc = [d.gc EXCEPT ![r] = row]
        /\ d.rev \in [Revisions -> RevRows] /\ d.gc \in [Revisions -> GcRows]
    BY DEF SealUpdate, Stores
  <1>2. d.rev[r] \in RevRows
    BY <1>1
  <1>3. e.rev[r] = [d.rev[r] EXCEPT !.state = state]
    BY <1>1
  <1>4. /\ e.rev[r].state = state /\ e.rev[r].epoch = d.rev[r].epoch
        /\ e.rev[r].count = d.rev[r].count /\ e.rev[r].deps = d.rev[r].deps
    BY <1>2, <1>3 DEF RevRows
  <1>5. e.gc[r] = row /\ \A o \in Revisions : o # r => e.rev[o] = d.rev[o] /\ e.gc[o] = d.gc[o]
    BY <1>1
  <1> QED BY <1>4, <1>5 DEF SealLeaves

LEMMA SealStore ==
    ASSUME NEW d, StoreOK(d), NEW c, NEW r \in Revisions, NEW state, NEW row, NEW cstate, NEW e,
           SealUpdate(d, c, r, state, row, cstate, e)
    PROVE  StoreOK(e)
  <1>1. d \in Stores /\ e \in Stores
    BY DEF StoreOK, SealUpdate
  <1>2. /\ e.rev[r].state = state /\ e.rev[r].epoch = d.rev[r].epoch
        /\ e.rev[r].count = d.rev[r].count /\ e.rev[r].deps = d.rev[r].deps
        /\ \A o \in Revisions : o # r => e.rev[o] = d.rev[o] /\ e.gc[o] = d.gc[o]
        /\ e.gc[r] = row
    BY <1>1, SealFacts DEF SealLeaves
  <1>3. /\ c \in d.cand /\ c.rev = r
        /\ \A ref \in d.refs : ref.to # r
        /\ \A h \in Holders, p \in Paths : d.hold[h].view[p] # r
        /\ state \in {"Deleting", "Deleted", "Quarantined"} /\ cstate \in {"Claimed", "Complete", "Quarantined"}
        /\ state = "Deleting" => d.rev[r].state \in {"Available", "Deleting"}
        /\ row.phase \in {"Claimed", "Deleting"} => state = "Deleting"
        /\ e.clock \in {d.clock, d.clock + 1}
        /\ e.cand = (d.cand \ {c}) \cup {[c EXCEPT !.state = cstate]}
        /\ e.refs = d.refs /\ e.hold = d.hold /\ e.build = d.build /\ e.path = d.path
    BY DEF SealUpdate
  <1>4. Gone(e, r) /\ ~Available(e, r) /\ ~Unreferenced(e, r) /\ e.rev[r].state # "Absent"
    BY <1>2, <1>3 DEF Gone, Available, Unreferenced
  <1>5. \A o \in Revisions : o # r => /\ Available(e, o) = Available(d, o) /\ Gone(e, o) = Gone(d, o)
                                      /\ Unreferenced(e, o) = Unreferenced(d, o)
    BY <1>2 DEF Gone, Available, Unreferenced
  <1>6. Counted(e)
    <2>1. \A o : RefsTo(e, o) = RefsTo(d, o)
      BY <1>3 DEF RefsTo
    <2> QED BY <2>1, <1>2 DEF StoreOK, Counted
  <1>7. Queued(e)
    <2> SUFFICES ASSUME NEW o \in Revisions, Unreferenced(e, o)
                 PROVE  [rev |-> o, epoch |-> e.rev[o].epoch, zero |-> e.rev[o].zero,
                         state |-> "Candidate"] \in e.cand
      BY DEF Queued
    <2>0. o # r /\ Unreferenced(d, o)
      BY <1>4, <1>5
    <2>1. PICK q : q = [rev |-> o, epoch |-> d.rev[o].epoch, zero |-> d.rev[o].zero, state |-> "Candidate"]
      OBVIOUS
    <2>2. q \in d.cand /\ q.rev = o
      BY <2>0, <2>1 DEF StoreOK, BooksOK, Queued
    <2>3. q \in e.cand
      BY <2>0, <2>2, <1>3
    <2> QED BY <2>0, <2>1, <2>3, <1>2
  <1>8. CandsOK(e)
    <2> SUFFICES ASSUME NEW k \in e.cand
                 PROVE  /\ e.rev[k.rev].state # "Absent"
                        /\ k.epoch <= e.rev[k.rev].epoch
                        /\ k.state # "Candidate" => Gone(e, k.rev)
                        /\ k.epoch = e.rev[k.rev].epoch /\ Unreferenced(e, k.rev) =>
                              k.zero = e.rev[k.rev].zero
      BY DEF CandsOK
    <2>1. CASE k \in d.cand
      <3>1. /\ d.rev[k.rev].state # "Absent"
            /\ k.epoch <= d.rev[k.rev].epoch
            /\ k.state # "Candidate" => Gone(d, k.rev)
            /\ k.epoch = d.rev[k.rev].epoch /\ Unreferenced(d, k.rev) =>
                  k.zero = d.rev[k.rev].zero
        BY <2>1 DEF StoreOK, BooksOK, CandsOK
      <3>2. k.rev \in Revisions
        BY <2>1, <1>1 DEF Stores, CandRows
      <3>3. CASE k.rev = r
        BY <3>1, <3>3, <1>2, <1>4
      <3>4. CASE k.rev # r
        BY <3>1, <3>2, <3>4, <1>2, <1>5
      <3> QED BY <3>3, <3>4
    <2>2. CASE k = [c EXCEPT !.state = cstate]
      <3>1. c \in CandRows
        BY <1>1, <1>3 DEF Stores
      <3>2. k.rev = r /\ k.epoch = c.epoch
        BY <2>2, <3>1, <1>3 DEF CandRows
      <3>3. c.epoch <= d.rev[r].epoch
        BY <1>3 DEF StoreOK, BooksOK, CandsOK
      <3> QED BY <3>2, <3>3, <1>2, <1>4
    <2> QED BY <2>1, <2>2, <1>3
  <1>9. HoldsOK(e)
    <2> SUFFICES ASSUME NEW h \in Holders PROVE HoldOK(e, h)
      BY DEF HoldsOK
    <2>1. HoldOK(d, h) /\ d.hold[h].version \in Nat /\ d.clock \in Nat
      BY DEF StoreOK, BooksOK, HoldsOK, Stores, HoldRows
    <2>2. d.hold[h].version <= e.clock
      BY <2>1, <1>3 DEF HoldOK
    <2>3. ASSUME NEW p \in Paths, d.hold[h].view[p] # None
          PROVE  e.rev[d.hold[h].view[p]] = d.rev[d.hold[h].view[p]]
      <3>1. d.hold[h].view[p] \in Revisions
        BY <2>3, <1>1 DEF Stores, HoldRows, Bindings
      <3> QED BY <3>1, <1>2, <1>3
    <2>4. e.hold[h] = d.hold[h]
      BY <1>3
    <2> QED BY <2>1, <2>2, <2>3, <2>4, HoldCarries
  <1>10. GcOK(e)
    BY <1>2, <1>3 DEF StoreOK, BooksOK, GcOK
  <1>11. LiveRefs(e)
    <2>1. \A ref \in d.refs : ref.to \in Revisions
      BY <1>1 DEF Stores, RefRows
    <2> QED BY <2>1, <1>3, <1>5 DEF StoreOK, RefsOK, LiveRefs
  <1>12. DepsOK(e)
    <2>1. ASSUME NEW o \in Revisions, e.rev[o].state \in {"Available", "Deleting"}
          PROVE  d.rev[o].state \in {"Available", "Deleting"} /\ e.rev[o].deps = d.rev[o].deps
      BY <2>1, <1>2, <1>3
    <2>2. \A o \in Revisions : d.rev[o].state # "Absent" => e.rev[o].state # "Absent"
      BY <1>2, <1>4
    <2> QED BY <2>1, <2>2, <1>3 DEF StoreOK, RefsOK, DepsOK
  <1>13. PathsOK(e) /\ BuildsOK(e)
    BY <1>3 DEF StoreOK, RefsOK, PathsOK, BuildsOK, BuildOK
  <1> QED BY <1>1, <1>6, <1>7, <1>8, <1>9, <1>10, <1>11, <1>12, <1>13 DEF StoreOK, BooksOK, RefsOK

\* A deleted revision gives its references on other owners up.
LEMMA DropDeps ==
    ASSUME NEW d, StoreOK(d), NEW r \in Revisions, d.rev[r].state = "Deleted",
           \A o \in d.rev[r].deps : Available(d, o) /\ DependencyRef(r, o) \in d.refs,
           NEW t, IsTouched(d, [o \in d.rev[r].deps |-> -1], t),
           NEW e \in Stores, SameBooks(t, e), e.build = t.build, e.path = t.path,
           e.refs = d.refs \ {DependencyRef(r, o) : o \in d.rev[r].deps}
    PROVE  ClientStep(d, e)
  <1> USE DEF StoreOK
  <1>1. PICK owners : owners = d.rev[r].deps
    OBVIOUS
  <1>2. owners \subseteq Revisions
    BY <1>1 DEF Stores, RevRows
  <1>3. PICK delta : delta = [o \in owners |-> -1]
    OBVIOUS
  <1>4. DOMAIN delta = owners /\ (\A o \in owners : delta[o] = -1) /\ IsTouched(d, delta, t)
    BY <1>1, <1>3
  <1>5. t \in Stores /\ BooksOK(t) /\ RefsOK(t) /\ SameLives(d, t)
    <2>1. DOMAIN delta \subseteq Revisions /\ \A o \in DOMAIN delta : delta[o] \in Int /\ Available(d, o)
      BY <1>1, <1>2, <1>4
    <2> HIDE DEF StoreOK
    <2> QED BY <2>1, <1>4, TouchedBooks, TouchedLives
  <1>6. BooksOK(e)
    BY <1>5, BooksFrame
  <1>7. SameLives(d, e) /\ d.cand \subseteq e.cand
    BY <1>4, <1>5 DEF SameLives, SameBooks, IsTouched
  <1>8. \A o : DependencyRef(r, o).to = o /\ DependencyRef(r, o).kind = "Dependency" /\ DependencyRef(r, o).from = r
    BY DEF DependencyRef
  <1>9. Counted(e)
    <2> SUFFICES ASSUME NEW o \in Revisions
                 PROVE  IsFiniteSet(RefsTo(e, o)) /\ e.rev[o].count = Cardinality(RefsTo(e, o))
      BY DEF Counted
    <2>1. IsFiniteSet(RefsTo(d, o)) /\ d.rev[o].count = Cardinality(RefsTo(d, o))
      BY DEF Counted
    <2>2. CASE o \in owners
      <3>1. RefsTo(e, o) = RefsTo(d, o) \ {DependencyRef(r, o)}
        BY <2>2, <1>1, <1>8 DEF RefsTo
      <3>2. DependencyRef(r, o) \in RefsTo(d, o)
        BY <2>2, <1>1, <1>8 DEF RefsTo
      <3>3. e.rev[o].count = d.rev[o].count + (-1)
        BY <2>2, <1>4 DEF IsTouched, IsRetouched, SameBooks
      <3>4. IsFiniteSet(RefsTo(d, o) \ {DependencyRef(r, o)})
             /\ Cardinality(RefsTo(d, o) \ {DependencyRef(r, o)}) = Cardinality(RefsTo(d, o)) + (-1)
        BY <3>2, <2>1, CountOne
      <3> QED BY <3>1, <3>3, <3>4, <2>1
    <2>3. CASE o \notin owners
      <3>1. RefsTo(e, o) = RefsTo(d, o)
        BY <2>3, <1>1, <1>8 DEF RefsTo
      <3>2. e.rev[o] = d.rev[o]
        BY <2>3, <1>4 DEF IsTouched, SameBooks
      <3> QED BY <3>1, <3>2, <2>1
    <2> QED BY <2>2, <2>3
  <1>10. t.refs = d.refs /\ t.hold = d.hold /\ e.hold = d.hold /\ e.rev = t.rev
    BY <1>4 DEF IsTouched, SameBooks
  <1>11. LiveRefs(e)
    BY <1>5, <1>10 DEF RefsOK, LiveRefs, Available
  <1>12. \A ref \in d.refs : ref \notin e.refs => ref.kind = "Dependency" /\ ref.from = r
    BY <1>8
  <1>13. DepsOK(e)
    <2>1. ASSUME NEW x \in Revisions, e.rev[x].state \in {"Available", "Deleting"}, NEW o \in e.rev[x].deps
          PROVE  DependencyRef(x, o) \in e.refs
      <3>1. x # r
        BY <2>1, <1>7 DEF SameLives
      <3>2. DependencyRef(x, o) \in d.refs
        BY <2>1, <1>5, <1>10 DEF RefsOK, DepsOK
      <3>3. DependencyRef(x, o).from = x
        BY DEF DependencyRef
      <3> QED BY <3>1, <3>2, <3>3, <1>12
    <2>2. \A ref \in e.refs : ref.kind = "Dependency" => ref.from \in Revisions /\ e.rev[ref.from].state # "Absent"
      BY <1>5, <1>10 DEF RefsOK, DepsOK
    <2> QED BY <2>1, <2>2 DEF DepsOK
  <1>14. PathsOK(e)
    <2>1. \A p, o : PathRef(p, o).kind = "Path"
      BY DEF PathRef
    <2>2. \A p, o : PathRef(p, o) \in d.refs => PathRef(p, o) \in e.refs
      <3> SUFFICES ASSUME NEW p, NEW o, PathRef(p, o) \in d.refs PROVE PathRef(p, o) \in e.refs
        OBVIOUS
      <3> QED BY <2>1, <1>12
    <2> QED BY <2>2, <1>5, <1>10 DEF RefsOK, PathsOK
  <1>15. BuildsOK(e)
    BY <1>5, <1>10 DEF RefsOK, BuildsOK, BuildOK
  <1> QED BY <1>6, <1>7, <1>9, <1>11, <1>13, <1>14, <1>15 DEF ClientStep, RefsOK

CompleteUpdate(d, c, r, e) ==
    e = [Touched(d, [o \in d.rev[r].deps |-> -1]) EXCEPT
           !.rev[r].state = "Deleted",
           !.cand = (@ \ {c}) \cup {[c EXCEPT !.state = "Complete"]},
           !.gc[r].phase = "Deleted",
           !.refs = @ \ {DependencyRef(r, o) : o \in d.rev[r].deps}]

LEMMA CompleteStore ==
    ASSUME NEW d, StoreOK(d), NEW c \in d.cand, NEW r, r = c.rev, c.state = "Claimed",
           d.gc[r].phase = "Deleting", \A o \in d.rev[r].deps : Available(d, o), NEW e,
           CompleteUpdate(d, c, r, e)
    PROVE  /\ StoreOK(e) /\ d.cand \ {c} \subseteq e.cand
           /\ e.rev[r].state = "Deleted"
           /\ \A o \in Revisions : o # r => /\ e.rev[o].state = d.rev[o].state
                                            /\ e.rev[o].deps = d.rev[o].deps /\ e.gc[o] = d.gc[o]
  <1>1. d \in Stores /\ LiveRefs(d) /\ DepsOK(d) /\ GcOK(d) /\ HoldsOK(d)
    BY DEF StoreOK, BooksOK, RefsOK
  <1>2. c \in CandRows /\ r \in Revisions
    BY <1>1 DEF Stores, CandRows
  <1>3. d.rev[r].state = "Deleting"
    BY <1>1, <1>2 DEF GcOK
  <1>4. PICK owners : owners = d.rev[r].deps
    OBVIOUS
  <1>5. owners \subseteq Revisions /\ r \notin owners
    BY <1>1, <1>2, <1>3, <1>4 DEF Stores, RevRows, Available
  <1>6. PICK delta : delta = [o \in owners |-> -1]
    OBVIOUS
  <1>7. DOMAIN delta = owners /\ \A o \in DOMAIN delta : delta[o] \in Int
    BY <1>6
  <1>8. PICK t : t = Touched(d, delta)
    OBVIOUS
  <1>9. IsTouched(d, delta, t)
    BY <1>1, <1>5, <1>7, <1>8, TouchedFacts
  <1>10. PICK row : row = [d.gc[r] EXCEPT !.phase = "Deleted"]
    OBVIOUS
  <1>11. row \in GcRows /\ row.phase = "Deleted"
    BY <1>1, <1>2, <1>10 DEF Stores, GcRows
  <1>12. PICK dead : dead = [c EXCEPT !.state = "Complete"]
    OBVIOUS
  <1>13. dead \in CandRows
    BY <1>2, <1>12 DEF CandRows
  \* The revision is sealed first ...
  <1>14. PICK cands1 : cands1 = (d.cand \ {c}) \cup {dead}
    OBVIOUS
  <1>15. PICK revs1 : revs1 = [d.rev EXCEPT ![r].state = "Deleted"]
    OBVIOUS
  <1>16. PICK gcs : gcs = [d.gc EXCEPT ![r] = row]
    OBVIOUS
  <1>17. PICK d1 : d1 = [d EXCEPT !.rev = revs1, !.cand = cands1, !.gc = gcs]
    OBVIOUS
  <1>18. revs1 \in [Revisions -> RevRows] /\ cands1 \subseteq CandRows /\ gcs \in [Revisions -> GcRows]
    <2>1. PICK rr : rr = [d.rev[r] EXCEPT !.state = "Deleted"]
      OBVIOUS
    <2>2. rr \in RevRows
      BY <2>1, <1>1, <1>2 DEF Stores, RevRows, States
    <2>3. revs1 = [d.rev EXCEPT ![r] = rr]
      BY <2>1, <1>15
    <2> QED BY <2>2, <2>3, <1>1, <1>11, <1>13, <1>14, <1>16 DEF Stores
  <1>19. /\ d1 \in Stores /\ d1.rev = revs1 /\ d1.cand = cands1 /\ d1.gc = gcs /\ d1.clock = d.clock
         /\ d1.refs = d.refs /\ d1.hold = d.hold /\ d1.build = d.build /\ d1.path = d.path
         /\ d1.minted = d.minted
    BY <1>1, <1>17, <1>18 DEF Stores
  <1>20. SealUpdate(d, c, r, "Deleted", row, "Complete", d1)
    <2>1. \A ref \in d.refs : ref.to # r
      BY <1>1, <1>3 DEF LiveRefs, Available
    <2>2. \A h \in Holders, p \in Paths : d.hold[h].view[p] # r
      BY <1>1, <1>2, <1>3, Constants DEF HoldsOK, HoldOK, Available
    <2> QED BY <2>1, <2>2, <1>11, <1>12, <1>14, <1>15, <1>16, <1>19 DEF SealUpdate
  <1>21. StoreOK(d1)
    BY <1>2, <1>20, SealStore
  <1>22. /\ d1.rev[r].state = "Deleted" /\ d1.rev[r].deps = owners
         /\ \A o \in Revisions : o # r => d1.rev[o] = d.rev[o] /\ d1.gc[o] = d.gc[o]
    <2>1. SealLeaves(d, r, "Deleted", row, d1)
      BY <1>1, <1>2, <1>20, SealFacts
    <2> QED BY <2>1, <1>4 DEF SealLeaves
  \* ... and its owners are touched next.
  <1>23. PICK revs : revs = [t.rev EXCEPT ![r].state = "Deleted"]
    OBVIOUS
  <1>24. PICK cands : cands = (t.cand \ {c}) \cup {dead}
    OBVIOUS
  <1>25. PICK t1 : t1 = [t EXCEPT !.rev = revs, !.cand = cands, !.gc = gcs]
    OBVIOUS
  <1>26. /\ t \in Stores /\ t.clock = d.clock + 1 /\ t.refs = d.refs /\ t.gc = d.gc /\ t.hold = d.hold
         /\ t.build = d.build /\ t.minted = d.minted /\ t.path = d.path
         /\ t.rev[r] = d.rev[r]
    BY <1>2, <1>5, <1>7, <1>9 DEF IsTouched
  <1>27. /\ revs \in [Revisions -> RevRows] /\ revs[r] = revs1[r]
         /\ \A o \in Revisions : o # r => revs[o] = t.rev[o]
    <2>1. PICK rr : rr = [d.rev[r] EXCEPT !.state = "Deleted"]
      OBVIOUS
    <2>2. rr \in RevRows
      BY <2>1, <1>1, <1>2 DEF Stores, RevRows, States
    <2>3. revs1 = [d.rev EXCEPT ![r] = rr]
      BY <2>1, <1>15
    <2>4. revs = [t.rev EXCEPT ![r] = rr]
      BY <2>1, <1>23, <1>26
    <2>5. d.rev \in [Revisions -> RevRows] /\ t.rev \in [Revisions -> RevRows]
      BY <1>1, <1>26 DEF Stores
    <2> QED BY <2>2, <2>3, <2>4, <2>5, <1>2
  <1>28. PICK news : news = {NewCand(d, o) : o \in {x \in DOMAIN delta : d.rev[x].count + delta[x] = 0}}
    OBVIOUS
  <1>29. t.cand = d.cand \cup news /\ c \notin news
    BY <1>9, <1>28 DEF IsTouched, NewCand
  <1>30. cands = cands1 \cup news /\ cands \subseteq CandRows
    <2>1. cands = cands1 \cup news
      BY <1>14, <1>24, <1>29
    <2>2. t.cand \subseteq CandRows
      BY <1>26 DEF Stores
    <2> QED BY <2>1, <2>2, <1>13, <1>24
  <1>31. /\ t1 \in Stores /\ t1.rev = revs /\ t1.cand = cands /\ t1.gc = gcs /\ t1.clock = d.clock + 1
         /\ t1.refs = d.refs /\ t1.hold = d.hold /\ t1.build = d.build /\ t1.path = d.path
         /\ t1.minted = d.minted
    BY <1>18, <1>25, <1>26, <1>27, <1>30 DEF Stores
  <1>32. news = {NewCand(d1, o) : o \in {x \in DOMAIN delta : d1.rev[x].count + delta[x] = 0}}
    <2>1. \A o \in DOMAIN delta : d1.rev[o] = d.rev[o]
      BY <1>5, <1>7, <1>22
    <2>2. \A o \in DOMAIN delta : NewCand(d1, o) = NewCand(d, o)
      BY <2>1, <1>19 DEF NewCand
    <2> QED BY <2>1, <2>2, <1>28
  <1>33. IsTouched(d1, delta, t1)
    <2>1. ASSUME NEW o \in Revisions, o \notin DOMAIN delta PROVE t1.rev[o] = d1.rev[o]
      <3>1. CASE o = r
        BY <3>1, <1>19, <1>27, <1>31
      <3>2. CASE o # r
        BY <3>2, <2>1, <1>9, <1>22, <1>27, <1>31 DEF IsTouched
      <3> QED BY <3>1, <3>2
    <2>2. ASSUME NEW o \in Revisions, o \in DOMAIN delta PROVE IsRetouched(d1, o, delta[o], t1.rev[o])
      <3>1. o # r
        BY <2>2, <1>5, <1>7
      <3>2. t1.rev[o] = t.rev[o] /\ d1.rev[o] = d.rev[o] /\ d1.clock = d.clock
        BY <3>1, <1>19, <1>22, <1>27, <1>31
      <3>3. IsRetouched(d, o, delta[o], t.rev[o])
        BY <2>2, <1>9 DEF IsTouched
      <3> QED BY <3>2, <3>3 DEF IsRetouched
    <2>3. t1.cand = d1.cand \cup {NewCand(d1, o) : o \in {x \in DOMAIN delta : d1.rev[x].count + delta[x] = 0}}
      BY <1>19, <1>30, <1>31, <1>32, Zenon
    <2> QED BY <2>1, <2>2, <2>3, <1>19, <1>31, Zenon DEF IsTouched
  <1>34. PICK refs : refs = d.refs \ {DependencyRef(r, o) : o \in owners}
    OBVIOUS
  <1>35. e = [t1 EXCEPT !.refs = refs]
    <2>1. e = [t EXCEPT !.rev[r].state = "Deleted",
                        !.cand = (@ \ {c}) \cup {dead},
                        !.gc[r].phase = "Deleted",
                        !.refs = @ \ {DependencyRef(r, o) : o \in owners}]
      BY <1>4, <1>6, <1>8, <1>12, Zenon DEF CompleteUpdate
    <2>2. gcs = [t.gc EXCEPT ![r].phase = "Deleted"]
      BY <1>10, <1>16, <1>26
    <2>3. e = [t EXCEPT !.rev = revs, !.cand = cands, !.gc = gcs, !.refs = refs]
      BY <2>1, <2>2, <1>23, <1>24, <1>26, <1>34 DEF Stores
    <2> QED BY <2>3, <1>25, <1>26 DEF Stores
  <1>36. /\ e \in Stores /\ SameBooks(t1, e) /\ e.build = t1.build /\ e.path = t1.path /\ e.refs = refs
    <2>1. refs \subseteq RefRows
      BY <1>1, <1>34 DEF Stores
    <2>2. /\ e \in Stores /\ e.build = t1.build /\ e.path = t1.path /\ e.refs = refs
          /\ e.rev = t1.rev /\ e.cand = t1.cand /\ e.gc = t1.gc /\ e.hold = t1.hold /\ e.clock = t1.clock
      BY <2>1, <1>31, <1>35 DEF Stores
    <2> QED BY <2>2 DEF SameBooks
  <1>37. ClientStep(d1, e)
    <2>1. \A o \in d1.rev[r].deps : Available(d1, o) /\ DependencyRef(r, o) \in d1.refs
      <3>1. \A o \in owners : Available(d, o) /\ DependencyRef(r, o) \in d.refs
        BY <1>1, <1>2, <1>3, <1>4 DEF DepsOK
      <3> QED BY <3>1, <1>5, <1>19, <1>22 DEF Available
    <2>2. IsTouched(d1, [o \in d1.rev[r].deps |-> -1], t1)
      BY <1>6, <1>22, <1>33
    <2>3. e.refs = d1.refs \ {DependencyRef(r, o) : o \in d1.rev[r].deps}
      BY <1>19, <1>22, <1>34, <1>36
    <2> QED BY <2>1, <2>2, <2>3, <1>2, <1>21, <1>22, <1>36, DropDeps
  <1>38. StoreOK(e) /\ SameLives(d1, e)
    BY <1>37 DEF ClientStep
  <1>39. d.cand \ {c} \subseteq e.cand
    BY <1>14, <1>30, <1>31, <1>36 DEF SameBooks
  <1> QED BY <1>2, <1>22, <1>38, <1>39 DEF SameLives

-----------------------------------------------------------------------------
(* The worker and its entry.                                               *)

NextW(w) ==
    [w EXCEPT !.pc = "scan", !.todo = @ \ {First(w.todo)}, !.raced = FALSE, !.row = 0, !.end = 0]

LEMMA NextOK ==
    ASSUME NEW w \in Workers, NEW d, NEW x, NEW have, w.todo \ {First(w.todo)} \subseteq d.cand
    PROVE  WorkerOK(NextW(w), d, x, have)
  <1>1. PICK rest : rest = w.todo \ {First(w.todo)}
    OBVIOUS
  <1>2. rest \subseteq CandRows /\ rest \subseteq d.cand
    BY <1>1 DEF Workers
  <1>3. PICK v : v = NextW(w)
    OBVIOUS
  <1>4. v = [w EXCEPT !.pc = "scan", !.todo = rest, !.raced = FALSE, !.row = 0, !.end = 0]
    BY <1>1, <1>3 DEF NextW
  <1>5. v \in Workers /\ v.pc = "scan" /\ v.todo = rest
    BY <1>2, <1>4 DEF Workers
  <1>6. WorkerOK(v, d, x, have)
    BY <1>2, <1>5 DEF WorkerOK
  <1> QED BY <1>3, <1>6

LEMMA IdleOK ==
    \A d, x, have : /\ WorkerOK(Idle, d, x, have)
                    /\ WorkerOK([Idle EXCEPT !.pc = "failed"], d, x, have)
  <1>1. Idle \in Workers /\ Idle.pc = "idle" /\ Idle.todo = {}
    BY DEF Idle, Workers
  <1>2. PICK v : v = [Idle EXCEPT !.pc = "failed"]
    OBVIOUS
  <1>3. v \in Workers /\ v.pc = "failed" /\ v.todo = {}
    BY <1>2 DEF Idle, Workers
  <1> TAKE d, x, have
  <1>4. WorkerOK(Idle, d, x, have)
    BY <1>1 DEF WorkerOK
  <1>5. WorkerOK(v, d, x, have)
    BY <1>3 DEF WorkerOK
  <1> QED BY <1>2, <1>4, <1>5

\* A command of the worker that leaves every revision's life alone.
LEMMA CommitCalm ==
    ASSUME NEW d, NEW x, NEW have, NEW doomed, NEW w, AllOK(d, x, have, doomed, w), NEW e,
           StoreOK(e), SameLives(d, e), w.todo \ {First(w.todo)} \subseteq e.cand
    PROVE  AllOK(e, x, have, doomed, NextW(w))
  <1>1. ObjectsOK(e, have, doomed)
    BY ObjectsFrame DEF AllOK
  <1>2. Known(x, e)
    BY DEF AllOK, Known, SameLives
  <1>3. WorkerOK(NextW(w), e, x, have)
    BY NextOK DEF AllOK, WorkerOK
  <1> QED BY <1>1, <1>2, <1>3 DEF AllOK

\* A command of the worker about a revision that is, or from now on is, given up.
LEMMA CommitGone ==
    ASSUME NEW d, NEW x, NEW have, NEW doomed, NEW w, AllOK(d, x, have, doomed, w), NEW e,
           StoreOK(e), w.todo \ {First(w.todo)} \subseteq e.cand, NEW r \in Revisions, Gone(e, r),
           \A o \in Revisions : o # r => /\ e.rev[o].state = d.rev[o].state
                                         /\ e.rev[o].deps = d.rev[o].deps /\ e.gc[o] = d.gc[o],
           e.rev[r].state = "Deleted" => OwnObjects(r) \cap have = {},
           e.rev[r].state = "Deleting" => \A i \in 1..OwnBlocks :
                  ReusedRows(e, r) + i <= e.gc[r].cursor => <<r, i>> \notin have
    PROVE  AllOK(e, x, have, doomed, NextW(w))
  <1>1. ObjectsOK(e, have, doomed)
    <2> SUFFICES ASSUME NEW o \in Revisions
                 PROVE  /\ Available(e, o) => OwnObjects(o) \subseteq have
                        /\ \A i \in 1..OwnBlocks : <<o, i>> \in doomed => Gone(e, o)
                        /\ e.rev[o].state = "Deleted" => OwnObjects(o) \cap have = {}
                        /\ e.rev[o].state = "Deleting" => \A i \in 1..OwnBlocks :
                              ReusedRows(e, o) + i <= e.gc[o].cursor => <<o, i>> \notin have
      BY DEF ObjectsOK
    <2>1. CASE o = r
      BY <2>1 DEF Gone, Available
    <2>2. CASE o # r
      BY <2>2 DEF AllOK, ObjectsOK, Gone, Available, ReusedRows
    <2> QED BY <2>1, <2>2
  <1>2. Known(x, e)
    BY DEF AllOK, Known, Gone
  <1>3. WorkerOK(NextW(w), e, x, have)
    BY NextOK DEF AllOK, WorkerOK
  <1> QED BY <1>1, <1>2, <1>3 DEF AllOK

\* A publication of the recovery log.
LEMMA PublishLog ==
    ASSUME NEW d, NEW x, NEW have, NEW doomed, NEW w, AllOK(d, x, have, doomed, w)
    PROVE  AllOK(d, d, have, doomed, w)
  <1>1. WorkerOK(w, d, d, have)
    <2>1. w.pc = "cleanup" => Gone(d, First(w.todo).rev)
      BY WorkerEntry DEF AllOK, WorkerOK
    <2> QED BY <2>1 DEF AllOK, WorkerOK
  <1>2. Known(d, d)
    BY DEF Known
  <1> QED BY <1>1, <1>2 DEF AllOK

\* The worker turns to something that asks for nothing yet.
LEMMA WorkerTurns ==
    ASSUME NEW d, NEW x, NEW have, NEW doomed, NEW w, AllOK(d, x, have, doomed, w),
           NEW x2 \in {x, d}, NEW v, WorkerOK(v, d, x2, have)
    PROVE  AllOK(d, x2, have, doomed, v)
  <1>1. CASE x2 = x
    BY <1>1 DEF AllOK
  <1>2. CASE x2 = d
    BY <1>2, PublishLog DEF AllOK
  <1> QED BY <1>1, <1>2

\* An object goes whose revision owner and successor have both given up.
LEMMA ObjectGoes ==
    ASSUME NEW d, NEW have, NEW doomed, ObjectsOK(d, have, doomed), NEW o,
           \A r \in Revisions, i \in 1..OwnBlocks : o = <<r, i>> => Gone(d, r)
    PROVE  /\ ObjectsOK(d, have \ {o}, doomed \ {o})
           /\ ObjectsOK(d, have, doomed \cup {o})
  <1> SUFFICES ASSUME NEW r \in Revisions
               PROVE  /\ Available(d, r) => OwnObjects(r) \subseteq have \ {o}
                      /\ \A i \in 1..OwnBlocks : <<r, i>> \in doomed \cup {o} => Gone(d, r)
    BY DEF ObjectsOK
  <1>1. /\ Available(d, r) => OwnObjects(r) \subseteq have
        /\ \A i \in 1..OwnBlocks : <<r, i>> \in doomed => Gone(d, r)
    BY DEF ObjectsOK
  <1>2. Available(d, r) => ~Gone(d, r)
    BY DEF Available, Gone
  <1>3. Available(d, r) => o \notin OwnObjects(r)
    BY <1>2 DEF OwnObjects
  <1> QED BY <1>1, <1>3

LEMMA FloorBelow ==
    ASSUME StoreOK(db), NEW h \in Holders, db.hold[h] # NoHold
    PROVE  Floor \in Nat /\ Floor <= db.hold[h].version
  <1>1. db \in Stores
    BY DEF StoreOK
  <1>2. \A k \in Holders : db.hold[k].version \in Nat
    BY <1>1 DEF Stores, HoldRows
  <1>3. PICK held : held = {db.hold[k].version : k \in {k \in Holders : db.hold[k] # NoHold}}
    OBVIOUS
  <1>4. PICK T : T = held \cup {db.clock}
    OBVIOUS
  <1>5. T \subseteq Nat /\ T # {} /\ db.hold[h].version \in T
    BY <1>1, <1>2, <1>3, <1>4 DEF Stores
  <1>6. Floor = CHOOSE v \in T : \A o \in T : v <= o
    BY <1>3, <1>4, Zenon DEF Floor
  <1>7. \E v \in T : \A o \in T : v <= o
    BY <1>5, LeastNat
  <1>8. Floor \in T /\ \A o \in T : Floor <= o
    BY <1>6, <1>7
  <1> QED BY <1>5, <1>8

-----------------------------------------------------------------------------
(* Every step keeps the invariant.                                         *)

LEMMA ClientKeeps ==
    ASSUME IInv, Command, UNCHANGED objects, ClientStep(db, db')
    PROVE  IInv'
  <1>1. PICK flag : flag = (worker.pc # "idle")
    OBVIOUS
  <1>2. flag \in BOOLEAN
    BY <1>1
  <1>3. worker' = [worker EXCEPT !.raced = flag] /\ durable' = durable /\ late' = late /\ objects' = objects
    BY <1>1 DEF Command
  <1>4. AllOK(db', durable, objects, late, [worker EXCEPT !.raced = flag])
    BY <1>2, ClientFrame DEF IInv
  <1> QED BY <1>3, <1>4 DEF IInv

LEMMA RemoveKeeps ==
    ASSUME IInv, NEW p \in Paths, RemovePath(p)
    PROVE  IInv'
  <1>1. StoreOK(db)
    BY DEF IInv, AllOK
  <1>2. /\ Command /\ UNCHANGED objects /\ db.path[p] # None
        /\ db' = [Touched(db, [o \in {db.path[p]} |-> -1]) EXCEPT
                    !.refs = @ \ {PathRef(p, db.path[p])}, !.path[p] = None]
    BY DEF RemovePath
  <1>3. ClientStep(db, db')
    BY <1>1, <1>2, RemovePathStore
  <1> QED BY <1>2, <1>3, ClientKeeps

LEMMA SnapshotKeeps ==
    ASSUME IInv, NEW s \in Snapshots, MintSnapshot(s) \/ ReleaseSnapshot(s)
    PROVE  IInv'
  <1>1. StoreOK(db)
    BY DEF IInv, AllOK
  <1>2. /\ Command /\ UNCHANGED objects
        /\ \/ db' = [db EXCEPT !.clock = @ + 1, !.hold[s] = HeldAt(db), !.minted = @ \cup {s}]
           \/ db' = [db EXCEPT !.clock = @ + 1, !.hold[s] = NoHold]
    BY DEF MintSnapshot, ReleaseSnapshot, HeldNow, HeldAt
  <1>3. ClientStep(db, db')
    BY <1>1, <1>2, SnapshotStore
  <1> QED BY <1>2, <1>3, ClientKeeps

LEMMA BuildKeeps ==
    ASSUME IInv, NEW b \in Builds,
           \/ BeginBuild(b) \/ FinalizeBuild(b)
           \/ AbortBuild(b) \/ CleanupMember(b) \/ FinishCleanup(b)
           \/ \E p \in Paths : BuildMember(b, p)
    PROVE  IInv'
  <1>1. StoreOK(db)
    BY DEF IInv, AllOK
  <1>2. CASE BeginBuild(b)
    <2>1. /\ Command /\ UNCHANGED objects /\ db.build[b].phase = "None"
          /\ db' = [db EXCEPT !.clock = @ + 1, !.hold[b] = HeldAt(db),
                      !.build[b] = [phase |-> "Building", left |-> {p \in Paths : db.path[p] # None}]]
      BY <1>2 DEF BeginBuild, HeldNow, HeldAt
    <2>2. ClientStep(db, db')
      BY <1>1, <2>1, BeginBuildStore
    <2> QED BY <2>1, <2>2, ClientKeeps
  <1>3. CASE FinalizeBuild(b)
    <2>1. /\ Command /\ UNCHANGED objects
          /\ db' = [db EXCEPT !.clock = @ + 1, !.hold[b] = NoHold, !.build[b].phase = "Complete"]
      BY <1>3 DEF FinalizeBuild
    <2>2. ClientStep(db, db')
      BY <1>1, <2>1, EndBuildStore
    <2> QED BY <2>1, <2>2, ClientKeeps
  <1>4. CASE AbortBuild(b)
    <2>1. /\ Command /\ UNCHANGED objects
          /\ db' = [db EXCEPT !.clock = @ + 1, !.build[b].phase = "Cleaning"]
      BY <1>4 DEF AbortBuild
    <2>2. ClientStep(db, db')
      BY <1>1, <2>1, EndBuildStore
    <2> QED BY <2>1, <2>2, ClientKeeps
  <1>5. CASE CleanupMember(b)
    <2>1. PICK ref \in CommitRefs(b) :
             /\ Command /\ UNCHANGED objects
             /\ db' = [Touched(db, [o \in {ref.to} |-> -1]) EXCEPT !.refs = @ \ {ref}]
      BY <1>5 DEF CleanupMember
    <2>2. ref \in db.refs /\ ref.kind = "Commit"
      BY DEF CommitRefs
    <2>3. ClientStep(db, db')
      BY <1>1, <2>1, <2>2, CleanupMemberStore
    <2> QED BY <2>1, <2>3, ClientKeeps
  <1>6. CASE FinishCleanup(b)
    <2>1. /\ Command /\ UNCHANGED objects
          /\ db' = [db EXCEPT !.clock = @ + 1, !.hold[b] = NoHold, !.build[b].phase = "Cleaned"]
      BY <1>6 DEF FinishCleanup
    <2>2. ClientStep(db, db')
      BY <1>1, <2>1, EndBuildStore
    <2> QED BY <2>1, <2>2, ClientKeeps
  <1>7. CASE \E p \in Paths : BuildMember(b, p)
    <2>1. PICK p \in Paths : BuildMember(b, p)
      BY <1>7
    <2>2. /\ Command /\ UNCHANGED objects /\ db.build[b].phase = "Building" /\ p \in db.build[b].left
          /\ db' = [Touched(db, [o \in {db.hold[b].view[p]} |-> 1]) EXCEPT
                      !.refs = @ \cup {CommitRef(b, db.hold[b].view[p])}, !.build[b].left = @ \ {p}]
      BY <2>1 DEF BuildMember
    <2>3. ClientStep(db, db')
      BY <1>1, <2>2, BuildMemberStore
    <2> QED BY <2>2, <2>3, ClientKeeps
  <1> QED BY <1>2, <1>3, <1>4, <1>5, <1>6, <1>7

PublishRows(d, p, r, owners, old, delta, e) ==
    /\ d.rev[r].state = "Absent" /\ \A o \in DOMAIN delta : Available(d, o)
    /\ e = [Touched(d, delta) EXCEPT
                !.rev[r] = Published(owners),
                !.refs = (@ \ {PathRef(p, o) : o \in old})
                         \cup {PathRef(p, r)}
                         \cup {DependencyRef(r, o) : o \in owners},
                !.path[p] = r]

LEMMA PublishKeeps ==
    ASSUME IInv, NEW p \in Paths, NEW r \in Revisions, NEW reuse \in BOOLEAN, Publish(p, r, reuse)
    PROVE  IInv'
  <1>1. StoreOK(db) /\ db \in Stores
    BY DEF IInv, AllOK, StoreOK
  <1>2. PICK d : d = db
    OBVIOUS
  <1>3. PICK e : e = db'
    OBVIOUS
  <1>4. PICK old : old = OldOf(d, p)
    OBVIOUS
  <1>5. PICK owners : owners = OwnersOf(d, p, reuse)
    OBVIOUS
  <1>6. PICK delta : delta = DeltaOf(owners, old)
    OBVIOUS
  <1>7. /\ Command /\ d.rev[r].state = "Absent" /\ \A o \in DOMAIN delta : Available(d, o)
        /\ e = [Touched(d, delta) EXCEPT
                    !.rev[r] = Published(owners),
                    !.refs = (@ \ {PathRef(p, o) : o \in old})
                             \cup {PathRef(p, r)}
                             \cup {DependencyRef(r, o) : o \in owners},
                    !.path[p] = r]
        /\ objects' = objects \cup OwnObjects(r)
    <2>1. old = Bound(p)
      BY <1>2, <1>4 DEF Bound, OldOf
    <2>2. owners = IF reuse THEN Bound(p) \cup UNION {db.rev[o].deps : o \in Bound(p)} ELSE {}
      BY <1>2, <1>4, <1>5, <2>1 DEF OwnersOf
    <2>3. delta = [o \in owners \cup old |-> (IF o \in owners THEN 1 ELSE 0) - (IF o \in old THEN 1 ELSE 0)]
      BY <1>6 DEF DeltaOf
    <2>4. PublishRows(db, p, r, owners, old, delta, db')
      BY <2>1, <2>2, <2>3 DEF Publish, PublishRows
    <2>5. Command /\ objects' = objects \cup OwnObjects(r)
      BY DEF Publish
    <2> QED BY <2>4, <2>5, <1>2, <1>3 DEF PublishRows
  <1>8. StoreOK(d) /\ d \in Stores
    BY <1>1, <1>2
  <1>9. old \subseteq Revisions /\ owners \subseteq Revisions
    <2>1. old \subseteq Revisions
      BY <1>4, <1>8 DEF OldOf, Stores, Bindings
    <2>2. \A o \in old : d.rev[o].deps \subseteq Revisions
      BY <2>1, <1>8 DEF Stores, RevRows
    <2> QED BY <2>1, <2>2, <1>4, <1>5 DEF OwnersOf
  <1>10. IsDelta(owners, old, delta)
    BY <1>6, DeltaFacts
  <1>11. PICK t : t = Touched(d, delta)
    OBVIOUS
  <1>12. IsTouched(d, delta, t)
    <2>1. DOMAIN delta \subseteq Revisions /\ \A o \in DOMAIN delta : delta[o] \in Int
      BY <1>9, <1>10 DEF IsDelta
    <2> QED BY <2>1, <1>8, <1>11, TouchedFacts
  <1>13. PICK revs : revs = [t.rev EXCEPT ![r] = Published(owners)]
    OBVIOUS
  <1>14. PICK refs : refs = ((d.refs \ {PathRef(p, o) : o \in old}) \cup {PathRef(p, r)})
                                \cup {DependencyRef(r, o) : o \in owners}
    OBVIOUS
  <1>15. PICK bound : bound = [d.path EXCEPT ![p] = r]
    OBVIOUS
  <1>16. t \in Stores /\ t.refs = d.refs /\ t.path = d.path
    BY <1>12 DEF IsTouched
  <1>17. e = [t EXCEPT !.rev = revs, !.refs = refs, !.path = bound]
    <2>1. e = [t EXCEPT !.rev[r] = Published(owners),
                    !.refs = (@ \ {PathRef(p, o) : o \in old})
                             \cup {PathRef(p, r)}
                             \cup {DependencyRef(r, o) : o \in owners},
                    !.path[p] = r]
      BY <1>7, <1>11
    <2> QED BY <2>1, <1>13, <1>14, <1>15, <1>16 DEF Stores
  <1>18. /\ revs \in [Revisions -> RevRows] /\ revs[r] = Published(owners)
         /\ \A o \in Revisions : o # r => revs[o] = t.rev[o]
    <2>1. Published(owners) \in RevRows
      BY <1>9 DEF Published, RevRows, States
    <2>2. t.rev \in [Revisions -> RevRows]
      BY <1>16 DEF Stores
    <2> QED BY <2>1, <2>2, <1>13
  <1>19. refs \subseteq RefRows
    <2>1. PathRef(p, r) \in RefRows /\ \A o \in Revisions : DependencyRef(r, o) \in RefRows
      BY DEF PathRef, DependencyRef, RefRows
    <2>2. d.refs \subseteq RefRows
      BY <1>8 DEF Stores
    <2> QED BY <2>1, <2>2, <1>9, <1>14
  <1>20. bound \in Bindings /\ \A q \in Paths : bound[q] = IF q = p THEN r ELSE d.path[q]
    <2>1. d.path \in Bindings
      BY <1>8 DEF Stores
    <2> QED BY <2>1, <1>15 DEF Bindings
  <1>21. /\ e \in Stores /\ e.rev = revs /\ e.refs = refs /\ e.path = bound /\ e.cand = t.cand
         /\ e.gc = t.gc /\ e.hold = t.hold /\ e.clock = t.clock /\ e.build = t.build
    BY <1>16, <1>17, <1>18, <1>19, <1>20 DEF Stores
  <1>22. PublishUpdate(d, p, r, owners, old, t, e)
    <2>1. \A o \in owners \cup old : Available(d, o)
      BY <1>7, <1>10 DEF IsDelta
    <2>2. IsTouched(d, DeltaOf(owners, old), t)
      BY <1>6, <1>12
    <2>3. \A q \in Paths : e.path[q] = IF q = p THEN r ELSE d.path[q]
      BY <1>20, <1>21, Zenon
    <2> QED BY <2>1, <2>2, <2>3, <1>4, <1>7, <1>9, <1>14, <1>18, <1>21, Zenon DEF PublishUpdate
  <1>23. PICK flag : flag = (worker.pc # "idle")
    OBVIOUS
  <1>24. flag \in BOOLEAN
    BY <1>23
  <1>25. worker' = [worker EXCEPT !.raced = flag] /\ durable' = durable /\ late' = late
    BY <1>7, <1>23 DEF Command
  <1>26. AllOK(d, durable, objects, late, worker)
    BY <1>2 DEF IInv
  <1>27. AllOK(e, durable, objects \cup OwnObjects(r), late, [worker EXCEPT !.raced = flag])
    BY <1>22, <1>24, <1>26, PublishAll
  <1> QED BY <1>3, <1>7, <1>25, <1>27 DEF IInv

\* What every step of the worker knows.
LEMMA Visit ==
    ASSUME IInv
    PROVE  /\ AllOK(db, durable, objects, late, worker)
           /\ StoreOK(db) /\ db \in Stores /\ worker \in Workers /\ worker.todo \subseteq db.cand
           /\ Entry = First(worker.todo) /\ NextEntry = NextW(worker)
           /\ worker.pc \in {"delete", "cleanup", "quarantine"} => worker.todo # {} /\ Entry.state = "Claimed"
           /\ worker.todo # {} => /\ Entry \in worker.todo /\ Entry \in db.cand /\ Entry \in CandRows
                                  /\ Entry.rev \in Revisions /\ Entry.epoch \in Nat /\ Entry.zero \in Nat
                                  /\ db.rev[Entry.rev].state # "Absent"
                                  /\ Entry.state = "Claimed" => Gone(db, Entry.rev)
  <1>1. AllOK(db, durable, objects, late, worker)
    BY DEF IInv
  <1>2. StoreOK(db) /\ WorkerOK(worker, db, durable, objects)
    BY <1>1 DEF AllOK
  <1>3. Entry = First(worker.todo)
    BY EntryIsFirst
  <1>4. NextEntry = NextW(worker)
    BY <1>3 DEF NextEntry, NextW
  <1>5. db \in Stores /\ worker \in Workers /\ worker.todo \subseteq db.cand
    BY <1>2 DEF StoreOK, WorkerOK
  <1>6. worker.pc \in {"delete", "cleanup", "quarantine"} => worker.todo # {} /\ Entry.state = "Claimed"
    BY <1>2, <1>3 DEF WorkerOK
  <1> QED BY <1>1, <1>2, <1>3, <1>4, <1>5, <1>6, WorkerEntry

\* The worker passes its entry over, or ends or begins a cycle.
LEMMA LookKeeps ==
    ASSUME IInv, List \/ FinishCycle \/ Defer \/ DeferHeld \/ ClaimFails \/ PublicationFails
    PROVE  IInv'
  <1>1. AllOK(db, durable, objects, late, worker) /\ worker \in Workers /\ worker.todo \subseteq db.cand
        /\ NextEntry = NextW(worker) /\ db \in Stores
    BY Visit
  <1>2. db' = db /\ objects' = objects /\ late' = late /\ durable' \in {durable, db}
    BY DEF List, FinishCycle, Defer, DeferHeld, ClaimFails, PublicationFails, Skip
  <1>3. WorkerOK(worker', db, durable', objects)
    <2>1. CASE worker' = Idle \/ worker' = [Idle EXCEPT !.pc = "failed"]
      BY <2>1, IdleOK
    <2>2. CASE worker' = NextEntry
      <3>1. WorkerOK(NextW(worker), db, durable', objects)
        BY <1>1, NextOK
      <3> QED BY <3>1, <2>2, <1>1
    <2>3. CASE List
      <3>1. PICK queued : queued = {c \in db.cand : c.state \in {"Candidate", "Claimed"}}
        OBVIOUS
      <3>2. PICK v : v = [Idle EXCEPT !.pc = "scan", !.todo = queued]
        OBVIOUS
      <3>3. queued \subseteq CandRows /\ queued \subseteq db.cand
        BY <3>1, <1>1 DEF Stores
      <3>4. v \in Workers /\ v.pc = "scan" /\ v.todo = queued
        BY <3>2, <3>3 DEF Idle, Workers
      <3>5. WorkerOK(v, db, durable', objects)
        BY <3>3, <3>4 DEF WorkerOK
      <3>6. worker' = v
        BY <3>1, <3>2, <2>3 DEF List
      <3> QED BY <3>5, <3>6
    <2> QED BY <2>1, <2>2, <2>3 DEF FinishCycle, Defer, DeferHeld, ClaimFails, PublicationFails, Skip
  <1>4. AllOK(db, durable', objects, late, worker')
    BY <1>1, <1>2, <1>3, WorkerTurns
  <1> QED BY <1>2, <1>4 DEF IInv

LEMMA ClaimKeeps ==
    ASSUME IInv, Claim
    PROVE  IInv'
  <1>1. /\ AllOK(db, durable, objects, late, worker) /\ StoreOK(db) /\ db \in Stores
        /\ worker.todo \subseteq db.cand
        /\ Entry = First(worker.todo) /\ NextEntry = NextW(worker)
    BY Visit
  <1>2. worker.todo # {} /\ Entry.state = "Candidate"
    BY DEF Claim, Visiting
  <1>3. /\ Entry \in db.cand /\ Entry \in CandRows /\ Entry.rev \in Revisions
        /\ Entry.epoch \in Nat /\ Entry.zero \in Nat
    BY <1>2, Visit
  <1>4. PICK c : c = Entry
    OBVIOUS
  <1>5. PICK r \in Revisions : r = c.rev
    BY <1>3, <1>4
  <1>6. PICK d : d = db
    OBVIOUS
  <1>7. PICK e : e = db'
    OBVIOUS
  <1>8. PICK row : row = [phase |-> "Claimed", cursor |-> 0]
    OBVIOUS
  <1>9. PICK taken : taken = [c EXCEPT !.state = "Claimed"]
    OBVIOUS
  <1>10. /\ c \in d.cand /\ c \in CandRows /\ c.zero \in Nat /\ c.rev = r
         /\ StoreOK(d) /\ d \in Stores
    BY <1>1, <1>3, <1>4, <1>5, <1>6
  <1>11. row \in GcRows /\ row.phase = "Claimed" /\ row.cursor = 0 /\ taken \in CandRows
    BY <1>8, <1>9, <1>10 DEF GcRows, CandRows
  <1>12. /\ e = [d EXCEPT !.clock = @ + 1, !.rev[r].state = "Deleting",
                          !.cand = (d.cand \ {c}) \cup {taken}, !.gc[r] = row]
         /\ Available(d, r) /\ d.rev[r].count = 0 /\ d.rev[r].epoch = c.epoch
         /\ Floor > c.zero
    BY <1>4, <1>5, <1>6, <1>7, <1>8, <1>9 DEF Claim, Claimable, SafeFloor, SetCandidate
  <1>13. PICK revs : revs = [d.rev EXCEPT ![r].state = "Deleting"]
    OBVIOUS
  <1>14. PICK cands : cands = (d.cand \ {c}) \cup {taken}
    OBVIOUS
  <1>15. PICK gcs : gcs = [d.gc EXCEPT ![r] = row]
    OBVIOUS
  <1>16. PICK k \in Nat : k = d.clock + 1
    BY <1>10 DEF Stores
  <1>17. e = [d EXCEPT !.clock = k, !.rev = revs, !.cand = cands, !.gc = gcs]
    BY <1>10, <1>12, <1>13, <1>14, <1>15, <1>16 DEF Stores
  <1>18. revs \in [Revisions -> RevRows] /\ cands \subseteq CandRows /\ gcs \in [Revisions -> GcRows]
    <2>1. PICK rr : rr = [d.rev[r] EXCEPT !.state = "Deleting"]
      OBVIOUS
    <2>2. rr \in RevRows
      BY <2>1, <1>10 DEF Stores, RevRows, States
    <2>3. revs = [d.rev EXCEPT ![r] = rr]
      BY <2>1, <1>13
    <2> QED BY <2>2, <2>3, <1>10, <1>11, <1>14, <1>15 DEF Stores
  <1>19. /\ e \in Stores /\ e.clock = k /\ e.rev = revs /\ e.cand = cands /\ e.gc = gcs
         /\ e.refs = d.refs /\ e.hold = d.hold /\ e.build = d.build /\ e.path = d.path
    BY <1>10, <1>17, <1>18 DEF Stores
  <1>20. SealUpdate(d, c, r, "Deleting", row, "Claimed", e)
    <2>1. RefsTo(d, r) = {}
      BY <1>10, <1>12, CountFacts DEF StoreOK
    <2>2. \A ref \in d.refs : ref.to # r
      BY <2>1 DEF RefsTo
    <2>3. ASSUME NEW h \in Holders, NEW p \in Paths, d.hold[h].view[p] = r
          PROVE  FALSE
      <3>1. d.hold[h].view[p] # None
        BY <2>3, Constants
      <3>2. d.hold[h].version < d.rev[r].zero
        BY <2>3, <3>1, <1>10, <1>12 DEF StoreOK, BooksOK, HoldsOK, HoldOK
      <3>3. c.zero = d.rev[r].zero
        BY <1>10, <1>12 DEF StoreOK, BooksOK, CandsOK, Unreferenced
      <3>4. d.hold[h] # NoHold
        <4>1. NoHold.view[p] = None
          BY DEF NoHold
        <4> QED BY <4>1, <3>1
      <3>5. Floor \in Nat /\ Floor <= d.hold[h].version
        BY <3>4, <1>6, <1>10, FloorBelow
      <3>6. d.hold[h].version \in Nat
        BY <1>10 DEF Stores, HoldRows
      <3> QED BY <3>2, <3>3, <3>5, <3>6, <1>10, <1>12
    <2>4. /\ "Deleting" = "Deleting" => d.rev[r].state \in {"Available", "Deleting"}
          /\ e.clock \in {d.clock, d.clock + 1}
      BY <1>12, <1>16, <1>19 DEF Available
    <2> QED BY <2>2, <2>3, <2>4, <1>9, <1>10, <1>11, <1>13, <1>14, <1>15, <1>19 DEF SealUpdate
  <1>21. StoreOK(e) /\ SealLeaves(d, r, "Deleting", row, e)
    BY <1>10, <1>20, SealStore, SealFacts
  <1>22. AllOK(e, durable, objects, late, NextW(worker))
    <2>1. AllOK(d, durable, objects, late, worker)
      BY <1>1, <1>6
    <2>2. worker.todo \ {First(worker.todo)} \subseteq e.cand
      BY <1>1, <1>4, <1>6, <1>14, <1>19
    <2>3. e.rev[r].state = "Deleting" /\ e.gc[r].cursor = 0 /\ Gone(e, r)
      BY <1>11, <1>21 DEF SealLeaves, Gone
    <2>4. ReusedRows(e, r) \in Nat
      BY <1>19, DepsFinite
    <2>5. \A i \in 1..OwnBlocks : ~(ReusedRows(e, r) + i <= e.gc[r].cursor)
      BY <2>3, <2>4
    <2>6. \A o \in Revisions : o # r => /\ e.rev[o].state = d.rev[o].state
                                        /\ e.rev[o].deps = d.rev[o].deps /\ e.gc[o] = d.gc[o]
      BY <1>21 DEF SealLeaves
    <2> QED BY <2>1, <2>2, <2>3, <2>5, <2>6, <1>21, CommitGone
  <1>23. durable' = durable /\ objects' = objects /\ late' = late /\ worker' = NextEntry
    BY DEF Claim, Commits
  <1> QED BY <1>1, <1>7, <1>22, <1>23 DEF IInv

LEMMA QuarantineKeeps ==
    ASSUME IInv, Quarantine
    PROVE  IInv'
  <1>1. /\ AllOK(db, durable, objects, late, worker) /\ StoreOK(db) /\ db \in Stores
        /\ worker.todo \subseteq db.cand
        /\ Entry = First(worker.todo) /\ NextEntry = NextW(worker)
    BY Visit
  <1>2. worker.todo # {} /\ Entry.state = "Claimed"
    BY Visit DEF Quarantine
  <1>3. Entry \in db.cand /\ Entry \in CandRows /\ Entry.rev \in Revisions /\ Gone(db, Entry.rev)
    BY <1>2, Visit
  <1>4. PICK c : c = Entry
    OBVIOUS
  <1>5. PICK r \in Revisions : r = c.rev
    BY <1>3, <1>4
  <1>6. PICK d : d = db
    OBVIOUS
  <1>7. PICK e : e = db'
    OBVIOUS
  <1>8. PICK row : row = [d.gc[r] EXCEPT !.phase = "Quarantined"]
    OBVIOUS
  <1>9. PICK taken : taken = [c EXCEPT !.state = "Quarantined"]
    OBVIOUS
  <1>10. /\ c \in d.cand /\ c \in CandRows /\ c.rev = r /\ Gone(d, r)
         /\ StoreOK(d) /\ d \in Stores
    BY <1>1, <1>3, <1>4, <1>5, <1>6
  <1>11. row \in GcRows /\ row.phase = "Quarantined" /\ taken \in CandRows
    BY <1>8, <1>9, <1>10 DEF GcRows, CandRows, Stores
  <1>12. e = [d EXCEPT !.clock = @ + 1, !.rev[r].state = "Quarantined",
                       !.cand = (d.cand \ {c}) \cup {taken}, !.gc[r].phase = "Quarantined"]
    BY <1>4, <1>5, <1>6, <1>7, <1>9 DEF Quarantine, SetCandidate
  <1>13. PICK revs : revs = [d.rev EXCEPT ![r].state = "Quarantined"]
    OBVIOUS
  <1>14. PICK cands : cands = (d.cand \ {c}) \cup {taken}
    OBVIOUS
  <1>15. PICK gcs : gcs = [d.gc EXCEPT ![r] = row]
    OBVIOUS
  <1>16. PICK k \in Nat : k = d.clock + 1
    BY <1>10 DEF Stores
  <1>17. e = [d EXCEPT !.clock = k, !.rev = revs, !.cand = cands, !.gc = gcs]
    BY <1>8, <1>10, <1>12, <1>13, <1>14, <1>15, <1>16 DEF Stores
  <1>18. revs \in [Revisions -> RevRows] /\ cands \subseteq CandRows /\ gcs \in [Revisions -> GcRows]
    <2>1. PICK rr : rr = [d.rev[r] EXCEPT !.state = "Quarantined"]
      OBVIOUS
    <2>2. rr \in RevRows
      BY <2>1, <1>10, SMTT(60) DEF Stores, RevRows, States
    <2>3. revs = [d.rev EXCEPT ![r] = rr]
      BY <2>1, <1>13
    <2> QED BY <2>2, <2>3, <1>10, <1>11, <1>14, <1>15 DEF Stores
  <1>19. /\ e \in Stores /\ e.clock = k /\ e.rev = revs /\ e.cand = cands /\ e.gc = gcs
         /\ e.refs = d.refs /\ e.hold = d.hold /\ e.build = d.build /\ e.path = d.path
    BY <1>10, <1>17, <1>18 DEF Stores
  <1>20. SealUpdate(d, c, r, "Quarantined", row, "Quarantined", e)
    <2>1. ~Available(d, r)
      BY <1>10 DEF Available, Gone
    <2>2. \A ref \in d.refs : ref.to # r
      BY <2>1, <1>10 DEF StoreOK, RefsOK, LiveRefs
    <2>3. \A h \in Holders, p \in Paths : d.hold[h].view[p] # r
      BY <2>1, <1>10, Constants DEF StoreOK, BooksOK, HoldsOK, HoldOK
    <2>4. e.clock \in {d.clock, d.clock + 1}
      BY <1>16, <1>19
    <2> QED BY <2>2, <2>3, <2>4, <1>9, <1>10, <1>11, <1>13, <1>14, <1>15, <1>19 DEF SealUpdate
  <1>21. StoreOK(e) /\ SealLeaves(d, r, "Quarantined", row, e)
    BY <1>10, <1>20, SealStore, SealFacts
  <1>22. AllOK(e, durable, objects, late, NextW(worker))
    <2>1. AllOK(d, durable, objects, late, worker)
      BY <1>1, <1>6
    <2>2. worker.todo \ {First(worker.todo)} \subseteq e.cand
      BY <1>1, <1>4, <1>6, <1>14, <1>19
    <2>3. e.rev[r].state = "Quarantined" /\ Gone(e, r)
      BY <1>21 DEF SealLeaves, Gone
    <2>6. \A o \in Revisions : o # r => /\ e.rev[o].state = d.rev[o].state
                                        /\ e.rev[o].deps = d.rev[o].deps /\ e.gc[o] = d.gc[o]
      BY <1>21 DEF SealLeaves
    <2> QED BY <2>1, <2>2, <2>3, <2>6, <1>21, CommitGone
  <1>23. durable' = durable /\ objects' = objects /\ late' = late /\ worker' = NextEntry
    BY DEF Quarantine, Commits
  <1> QED BY <1>1, <1>7, <1>22, <1>23 DEF IInv

LEMMA QueueKeeps ==
    ASSUME IInv, AdvanceHistoryBarrier \/ ClearStale
    PROVE  IInv'
  <1>1. /\ AllOK(db, durable, objects, late, worker) /\ StoreOK(db) /\ worker.todo \subseteq db.cand
        /\ Entry = First(worker.todo) /\ NextEntry = NextW(worker)
    BY Visit
  <1>2. Entry \in db.cand
    BY Visit DEF AdvanceHistoryBarrier, ClearStale, Visiting
  <1>3. StoreOK(db') /\ SameLives(db, db') /\ db.cand \ {Entry} \subseteq db'.cand
    <2>1. CASE AdvanceHistoryBarrier
      <3>1. db' = [db EXCEPT !.clock = @ + 1]
        BY <2>1 DEF AdvanceHistoryBarrier
      <3> QED BY <3>1, <1>1, BarrierStore
    <2>2. CASE ClearStale
      <3>1. db' = [db EXCEPT !.clock = @ + 1, !.cand = @ \ {Entry}] /\ db.rev[Entry.rev].epoch # Entry.epoch
        BY <2>2 DEF ClearStale
      <3> QED BY <3>1, <1>1, <1>2, ClearStaleStore
    <2> QED BY <2>1, <2>2
  <1>4. AllOK(db', durable, objects, late, NextW(worker))
    BY <1>1, <1>3, CommitCalm
  <1>5. durable' = durable /\ objects' = objects /\ late' = late /\ worker' = NextEntry
    BY DEF AdvanceHistoryBarrier, ClearStale, Commits
  <1> QED BY <1>1, <1>4, <1>5 DEF IInv

\* The collection of the entry moves on.
LEMMA CollectionKeeps ==
    ASSUME IInv, BeginDeletion \/ AdvanceDeletionBatch
    PROVE  IInv'
  <1>1. /\ AllOK(db, durable, objects, late, worker) /\ StoreOK(db) /\ db \in Stores
        /\ worker \in Workers /\ worker.todo \subseteq db.cand
        /\ Entry = First(worker.todo) /\ NextEntry = NextW(worker)
    BY Visit
  <1>2. worker.todo # {} /\ Entry.state = "Claimed"
    BY Visit DEF BeginDeletion, AdvanceDeletionBatch, Visiting
  <1>3. PICK r \in Revisions : r = Entry.rev
    BY <1>2, Visit
  <1>4. Gone(db, r)
    BY <1>2, <1>3, Visit
  <1>5. db.gc[r] \in GcRows /\ GcOK(db) /\ worker.end \in Nat /\ worker.row \in Nat
    BY <1>1 DEF StoreOK, BooksOK, Stores, Workers
  <1>6. PICK row : /\ row \in GcRows
                   /\ row.phase \in {"Claimed", "Deleting"} => db.rev[r].state = "Deleting"
                   /\ db' = [db EXCEPT !.clock = @ + 1, !.gc = [db.gc EXCEPT ![r] = row]]
                   /\ db.rev[r].state = "Deleting" => \A i \in 1..OwnBlocks :
                         ReusedRows(db, r) + i <= row.cursor => <<r, i>> \notin objects
    <2>1. CASE BeginDeletion
      <3>1. PICK row : row = [db.gc[r] EXCEPT !.phase = "Deleting"]
        OBVIOUS
      <3>2. row \in GcRows /\ row.cursor = db.gc[r].cursor
        BY <3>1, <1>5 DEF GcRows
      <3>3. db' = [db EXCEPT !.clock = @ + 1, !.gc[r].phase = "Deleting"] /\ db.gc[r].phase = "Claimed"
        BY <2>1, <1>3 DEF BeginDeletion
      <3>4. db' = [db EXCEPT !.clock = @ + 1, !.gc = [db.gc EXCEPT ![r] = row]]
        BY <3>1, <3>3, <1>1 DEF Stores
      <3>5. db.rev[r].state = "Deleting"
        BY <3>3, <1>5 DEF GcOK
      <3>6. db.rev[r].state = "Deleting" => \A i \in 1..OwnBlocks :
                ReusedRows(db, r) + i <= db.gc[r].cursor => <<r, i>> \notin objects
        BY <1>1 DEF AllOK, ObjectsOK
      <3> QED BY <3>2, <3>4, <3>5, <3>6
    <2>2. CASE AdvanceDeletionBatch
      <3>1. PICK row : row = [db.gc[r] EXCEPT !.cursor = worker.end]
        OBVIOUS
      <3>2. row \in GcRows /\ row.cursor = worker.end /\ row.phase = db.gc[r].phase
        BY <3>1, <1>5 DEF GcRows
      <3>3. /\ db' = [db EXCEPT !.clock = @ + 1, !.gc[r].cursor = worker.end]
            /\ worker.pc = "delete" /\ worker.row > worker.end
        BY <2>2, <1>3 DEF AdvanceDeletionBatch
      <3>4. db' = [db EXCEPT !.clock = @ + 1, !.gc = [db.gc EXCEPT ![r] = row]]
        BY <3>1, <3>3, <1>1 DEF Stores
      <3>5. row.phase \in {"Claimed", "Deleting"} => db.rev[r].state = "Deleting"
        BY <3>2, <1>5 DEF GcOK
      <3>6. \A i \in 1..OwnBlocks : ReusedRows(db, r) + i < worker.row => <<r, i>> \notin objects
        BY <3>3, <1>1, <1>3 DEF AllOK, WorkerOK
      <3>7. ReusedRows(db, r) \in Nat
        BY <1>1, DepsFinite
      <3>8. \A i \in 1..OwnBlocks : ReusedRows(db, r) + i <= row.cursor => <<r, i>> \notin objects
        BY <3>2, <3>3, <3>6, <3>7, <1>5
      <3> QED BY <3>2, <3>4, <3>5, <3>8
    <2> QED BY <2>1, <2>2
  <1>7. /\ StoreOK(db') /\ db'.cand = db.cand /\ db'.rev = db.rev /\ db'.gc[r] = row
        /\ \A o \in Revisions : o # r => db'.gc[o] = db.gc[o]
    <2>1. GcUpdate(db, r, row, db')
      BY <1>6 DEF GcUpdate
    <2> QED BY <2>1, <1>1, GcRowStore
  <1>8. AllOK(db', durable, objects, late, NextW(worker))
    <2>1. Gone(db', r) /\ ReusedRows(db', r) = ReusedRows(db, r)
      BY <1>4, <1>7 DEF Gone, ReusedRows
    <2>2. db'.rev[r].state = "Deleted" => OwnObjects(r) \cap objects = {}
      BY <1>1, <1>7 DEF AllOK, ObjectsOK
    <2>3. db'.rev[r].state = "Deleting" => \A i \in 1..OwnBlocks :
              ReusedRows(db', r) + i <= db'.gc[r].cursor => <<r, i>> \notin objects
      BY <2>1, <1>6, <1>7
    <2>4. worker.todo \ {First(worker.todo)} \subseteq db'.cand
      BY <1>1, <1>7
    <2>5. \A o \in Revisions : o # r => /\ db'.rev[o].state = db.rev[o].state
                                        /\ db'.rev[o].deps = db.rev[o].deps /\ db'.gc[o] = db.gc[o]
      BY <1>7
    <2> QED BY <2>1, <2>2, <2>3, <2>4, <2>5, <1>1, <1>7, CommitGone
  <1>9. durable' = durable /\ objects' = objects /\ late' = late /\ worker' = NextEntry
    BY DEF BeginDeletion, AdvanceDeletionBatch, Commits
  <1> QED BY <1>1, <1>8, <1>9 DEF IInv

LEMMA CompleteKeeps ==
    ASSUME IInv, Complete
    PROVE  IInv'
  <1>1. /\ AllOK(db, durable, objects, late, worker) /\ StoreOK(db) /\ db \in Stores
        /\ worker.todo \subseteq db.cand
        /\ Entry = First(worker.todo) /\ NextEntry = NextW(worker)
    BY Visit
  <1>2. worker.todo # {} /\ Entry.state = "Claimed"
    BY DEF Complete, Visiting
  <1>3. PICK c : c = Entry
    OBVIOUS
  <1>4. PICK r \in Revisions : r = c.rev
    BY <1>2, <1>3, Visit
  <1>5. c \in db.cand /\ c.state = "Claimed"
    BY <1>2, <1>3, Visit
  <1>6. PICK d : d = db
    OBVIOUS
  <1>7. PICK e : e = db'
    OBVIOUS
  <1>8. d.gc[r].phase = "Deleting" /\ Remaining = 0 /\ \A o \in d.rev[r].deps : Available(d, o)
    BY <1>3, <1>4, <1>6 DEF Complete
  <1>9. CompleteUpdate(d, c, r, e)
    BY <1>3, <1>4, <1>6, <1>7 DEF Complete, CompleteUpdate
  <1>10. StoreOK(d) /\ d \in Stores /\ c \in d.cand
    BY <1>1, <1>5, <1>6
  <1>11. /\ StoreOK(e) /\ d.cand \ {c} \subseteq e.cand /\ e.rev[r].state = "Deleted"
         /\ \A o \in Revisions : o # r => /\ e.rev[o].state = d.rev[o].state
                                          /\ e.rev[o].deps = d.rev[o].deps /\ e.gc[o] = d.gc[o]
    BY <1>4, <1>5, <1>8, <1>9, <1>10, CompleteStore
  <1>12. OwnObjects(r) \cap objects = {}
    <2>1. d.rev[r].state = "Deleting"
      BY <1>8, <1>10 DEF StoreOK, BooksOK, GcOK
    <2>2. d.gc[r].cursor \in Nat
      BY <1>10 DEF Stores, GcRows
    <2>3. ReusedRows(d, r) \in Nat /\ ManifestLength(d, r) = ReusedRows(d, r) + OwnBlocks
      BY <1>10, DepsFinite
    <2>4. d.gc[r].cursor = ReusedRows(d, r) + OwnBlocks
      <3>1. Remaining = ManifestLength(d, r) - d.gc[r].cursor
        BY <1>3, <1>4, <1>6 DEF Remaining
      <3> QED BY <3>1, <2>2, <2>3, <1>8, Constants
    <2>5. \A i \in 1..OwnBlocks : ReusedRows(d, r) + i <= d.gc[r].cursor
      BY <2>3, <2>4, Constants
    <2>6. \A i \in 1..OwnBlocks : <<r, i>> \notin objects
      BY <2>1, <2>5, <1>1, <1>6 DEF AllOK, ObjectsOK
    <2> QED BY <2>6 DEF OwnObjects
  <1>13. AllOK(e, durable, objects, late, NextW(worker))
    <2>1. AllOK(d, durable, objects, late, worker)
      BY <1>1, <1>6
    <2>2. worker.todo \ {First(worker.todo)} \subseteq e.cand
      BY <1>1, <1>3, <1>6, <1>11
    <2>3. Gone(e, r)
      BY <1>11 DEF Gone
    <2> QED BY <2>1, <2>2, <2>3, <1>11, <1>12, CommitGone
  <1>14. durable' = durable /\ objects' = objects /\ late' = late /\ worker' = NextEntry
    BY DEF Complete, Commits
  <1> QED BY <1>1, <1>7, <1>13, <1>14 DEF IInv

\* The worker walks the rows of a batch.
LEMMA RowsKeeps ==
    ASSUME IInv, ScanManifestBatch \/ PassReusedRow \/ PublishBeforeDelete
    PROVE  IInv'
  <1>1. /\ AllOK(db, durable, objects, late, worker) /\ StoreOK(db) /\ db \in Stores
        /\ worker \in Workers /\ worker.todo \subseteq db.cand /\ Entry = First(worker.todo)
        /\ WorkerOK(worker, db, durable, objects)
    BY Visit DEF AllOK
  <1>2. worker.todo # {} /\ Entry.state = "Claimed"
    BY Visit DEF ScanManifestBatch, PassReusedRow, PublishBeforeDelete, Visiting, InBatch
  <1>3. PICK r \in Revisions : r = Entry.rev
    BY <1>2, Visit
  <1>4. Gone(db, r) /\ db.gc[r].cursor \in Nat /\ ReusedRows(db, r) \in Nat /\ worker.row \in Nat
        /\ worker.end \in Nat
    BY <1>1, <1>2, <1>3, Visit, DepsFinite DEF Stores, GcRows, Workers
  <1>5. db' = db /\ objects' = objects /\ late' = late /\ durable' \in {durable, db}
    BY DEF ScanManifestBatch, PassReusedRow, PublishBeforeDelete
  <1>6. WorkerOK(worker', db, durable', objects)
    <2>1. CASE ScanManifestBatch
      <3>1. PICK rows : rows = IF Remaining < BatchSize THEN Remaining ELSE BatchSize
        OBVIOUS
      <3>2. /\ db.gc[r].phase = "Deleting" /\ Remaining > 0
            /\ worker' = [worker EXCEPT !.pc = "delete", !.raced = FALSE,
                            !.row = db.gc[r].cursor + 1, !.end = db.gc[r].cursor + rows]
        BY <2>1, <3>1, <1>3 DEF ScanManifestBatch
      <3>3. ManifestLength(db, r) \in Nat
        BY <1>1, <1>4, DepsFinite, Constants
      <3>4. Remaining = ManifestLength(db, r) - db.gc[r].cursor
        BY <1>3 DEF Remaining
      <3>5. rows \in Nat
        BY <3>1, <3>2, <3>3, <3>4, <1>4, Constants
      <3>6. PICK from \in Nat : from = db.gc[r].cursor + 1
        BY <1>4
      <3>7. PICK to \in Nat : to = db.gc[r].cursor + rows
        BY <3>5, <1>4
      <3>8. worker' = [worker EXCEPT !.pc = "delete", !.raced = FALSE, !.row = from, !.end = to]
        BY <3>2, <3>6, <3>7
      <3>9. worker' \in Workers /\ worker'.pc = "delete" /\ worker'.todo = worker.todo /\ worker'.row = from
        BY <3>8, <1>1 DEF Workers
      <3>10. db.rev[r].state = "Deleting"
        BY <3>2, <1>1 DEF StoreOK, BooksOK, GcOK
      <3>11. \A i \in 1..OwnBlocks : ReusedRows(db, r) + i <= db.gc[r].cursor => <<r, i>> \notin objects
        BY <3>10, <1>1 DEF AllOK, ObjectsOK
      <3>12. \A i \in 1..OwnBlocks : ReusedRows(db, r) + i < from => <<r, i>> \notin objects
        BY <3>6, <3>11, <1>4
      <3> QED BY <3>9, <3>12, <1>1, <1>2, <1>3 DEF WorkerOK
    <2>2. CASE PassReusedRow
      <3>1. /\ worker' = [worker EXCEPT !.row = @ + 1] /\ worker.pc = "delete"
            /\ ~DeleteRequired(db, r, worker.row)
        BY <2>2, <1>3 DEF PassReusedRow, InBatch
      <3>2. PICK next \in Nat : next = worker.row + 1
        BY <1>4
      <3>3. worker' = [worker EXCEPT !.row = next]
        BY <3>1, <3>2
      <3>4. worker' \in Workers /\ worker'.pc = "delete" /\ worker'.todo = worker.todo /\ worker'.row = next
        BY <3>1, <3>3, <1>1 DEF Workers
      <3>5. worker.row <= ReusedRows(db, r)
        BY <3>1, <1>4 DEF DeleteRequired
      <3>6. \A i \in 1..OwnBlocks : ~(ReusedRows(db, r) + i < next)
        BY <3>2, <3>5, <1>4
      <3> QED BY <3>4, <3>6, <1>1, <1>2, <1>3 DEF WorkerOK
    <2>3. CASE PublishBeforeDelete
      <3>1. /\ worker' = [worker EXCEPT !.pc = "cleanup"] /\ worker.pc = "delete"
            /\ DeleteRequired(db, r, worker.row) /\ durable' = db
        BY <2>3, <1>3 DEF PublishBeforeDelete, InBatch
      <3>2. worker' \in Workers /\ worker'.pc = "cleanup" /\ worker'.todo = worker.todo
            /\ worker'.row = worker.row
        BY <3>1, <1>1 DEF Workers
      <3> QED BY <3>1, <3>2, <1>1, <1>2, <1>3, <1>4 DEF WorkerOK
    <2> QED BY <2>1, <2>2, <2>3
  <1>7. AllOK(db, durable', objects, late, worker')
    BY <1>1, <1>5, <1>6, WorkerTurns
  <1> QED BY <1>5, <1>7 DEF IInv

\* The worker asks the provider, and is answered or not.
LEMMA DeleteKeeps ==
    ASSUME IInv, DeleteObject \/ DeleteAmbiguous
    PROVE  IInv'
  <1>1. /\ AllOK(db, durable, objects, late, worker) /\ StoreOK(db) /\ db \in Stores
        /\ worker \in Workers /\ worker.todo \subseteq db.cand /\ Entry = First(worker.todo)
        /\ WorkerOK(worker, db, durable, objects)
    BY Visit DEF AllOK
  <1>2. worker.pc = "cleanup"
    BY DEF DeleteObject, DeleteAmbiguous
  <1>3. worker.todo # {} /\ Entry.state = "Claimed"
    BY <1>2, Visit
  <1>4. PICK r \in Revisions : r = Entry.rev
    BY <1>3, Visit
  <1>5. /\ Gone(db, r) /\ Gone(durable, r) /\ ReusedRows(db, r) \in Nat /\ worker.row \in Nat
        /\ worker.row > ReusedRows(db, r)
    BY <1>1, <1>2, <1>3, <1>4, Visit, DepsFinite DEF WorkerOK, Workers, DeleteRequired
  <1>6. Target = <<r, worker.row - ReusedRows(db, r)>>
    BY <1>4 DEF Target, ObjectAt
  <1>7. PICK o : o = Target
    OBVIOUS
  <1>8. \A q \in Revisions, i \in 1..OwnBlocks : o = <<q, i>> => Gone(db, q) /\ Gone(durable, q)
    BY <1>5, <1>6, <1>7
  <1>9. /\ ObjectsOK(db, objects \ {o}, late \ {o}) /\ ObjectsOK(db, objects, late \cup {o})
        /\ ObjectsOK(durable, objects \ {o}, late \ {o}) /\ ObjectsOK(durable, objects, late \cup {o})
    BY <1>1, <1>8, ObjectGoes DEF AllOK
  <1>10. \A i \in 1..OwnBlocks : ReusedRows(db, r) + i < worker.row => <<r, i>> \notin objects
    BY <1>1, <1>2, <1>4 DEF WorkerOK
  <1>11. CASE DeleteObject
    <2>1. /\ objects' = objects \ {o} /\ late' = late \ {o} /\ db' = db /\ durable' = durable
          /\ worker' = [worker EXCEPT !.pc = "delete", !.row = @ + 1]
      BY <1>7, <1>11 DEF DeleteObject
    <2>2. PICK next \in Nat : next = worker.row + 1
      BY <1>5
    <2>3. worker' = [worker EXCEPT !.pc = "delete", !.row = next]
      BY <2>1, <2>2
    <2>4. worker' \in Workers /\ worker'.pc = "delete" /\ worker'.todo = worker.todo /\ worker'.row = next
      BY <2>3, <1>1 DEF Workers
    <2>5. \A i \in 1..OwnBlocks : ReusedRows(db, r) + i < next => <<r, i>> \notin objects \ {o}
      <3> SUFFICES ASSUME NEW i \in 1..OwnBlocks, ReusedRows(db, r) + i < next
                   PROVE  <<r, i>> \notin objects \ {o}
        OBVIOUS
      <3>1. CASE ReusedRows(db, r) + i < worker.row
        BY <3>1, <1>10
      <3>2. CASE i = worker.row - ReusedRows(db, r)
        BY <3>2, <1>6, <1>7
      <3> QED BY <3>1, <3>2, <2>2, <1>5, Constants
    <2>6. WorkerOK(worker', db, durable, objects \ {o})
      BY <2>4, <2>5, <1>1, <1>3, <1>4 DEF WorkerOK
    <2>7. AllOK(db, durable, objects \ {o}, late \ {o}, worker')
      BY <2>6, <1>1, <1>9 DEF AllOK
    <2> QED BY <2>1, <2>7 DEF IInv
  <1>12. CASE DeleteAmbiguous
    <2>1. /\ objects' = objects /\ late' = late \cup Doomed /\ db' = db /\ durable' = durable
          /\ worker' = [worker EXCEPT !.pc = "quarantine", !.raced = FALSE]
      BY <1>12 DEF DeleteAmbiguous
    <2>2. worker' \in Workers /\ worker'.pc = "quarantine" /\ worker'.todo = worker.todo
      BY <2>1, <1>1 DEF Workers
    <2>3. WorkerOK(worker', db, durable, objects)
      BY <2>2, <1>1, <1>3 DEF WorkerOK
    <2>4. late' = late \/ late' = late \cup {o}
      BY <2>1, <1>7 DEF Doomed
    <2>5. AllOK(db, durable, objects, late', worker')
      BY <2>3, <2>4, <1>1, <1>9 DEF AllOK
    <2> QED BY <2>1, <2>5 DEF IInv
  <1> QED BY <1>11, <1>12

LEMMA LateKeeps ==
    ASSUME IInv, LateDelete
    PROVE  IInv'
  <1>1. PICK o \in late : /\ late' = late \ {o} /\ objects' = objects \ {o}
                          /\ UNCHANGED <<db, durable, worker>>
    BY DEF LateDelete
  <1>2. AllOK(db, durable, objects, late, worker)
    BY DEF IInv
  <1>3. \A q \in Revisions, i \in 1..OwnBlocks : o = <<q, i>> => Gone(db, q) /\ Gone(durable, q)
    BY <1>2 DEF AllOK, ObjectsOK
  <1>4. ObjectsOK(db, objects \ {o}, late \ {o}) /\ ObjectsOK(durable, objects \ {o}, late \ {o})
    BY <1>2, <1>3, ObjectGoes DEF AllOK
  <1>5. WorkerOK(worker, db, durable, objects \ {o})
    BY <1>2 DEF AllOK, WorkerOK
  <1>6. AllOK(db, durable, objects \ {o}, late \ {o}, worker)
    BY <1>2, <1>4, <1>5 DEF AllOK
  <1> QED BY <1>1, <1>6 DEF IInv

LEMMA RecoverKeeps ==
    ASSUME IInv, Recover
    PROVE  IInv'
  <1>1. AllOK(db, durable, objects, late, worker)
    BY DEF IInv
  <1>2. db' = durable /\ worker' = Idle /\ durable' = durable /\ objects' = objects
    BY DEF Recover
  <1>3. ObjectsOK(durable, objects, late')
    <2>1. CASE late' = late
      BY <2>1, <1>1 DEF AllOK
    <2>2. CASE worker.pc = "cleanup" /\ late' = late \cup Doomed
      <3>1. Entry = First(worker.todo) /\ Entry.rev \in Revisions
        BY <2>2, Visit
      <3>2. Gone(durable, Entry.rev)
        BY <2>2, <3>1, <1>1 DEF AllOK, WorkerOK
      <3>3. \A q \in Revisions, i \in 1..OwnBlocks : Target = <<q, i>> => Gone(durable, q)
        BY <3>2 DEF Target, ObjectAt
      <3>4. ObjectsOK(durable, objects, late \cup {Target})
        BY <3>3, <1>1, ObjectGoes DEF AllOK
      <3>5. late' = late \/ late' = late \cup {Target}
        BY <2>2 DEF Doomed
      <3> QED BY <3>4, <3>5, <1>1 DEF AllOK
    <2> QED BY <2>1, <2>2 DEF Recover
  <1>4. Known(durable, durable) /\ WorkerOK(Idle, durable, durable, objects)
    BY IdleOK DEF Known
  <1>5. AllOK(durable, durable, objects, late', Idle)
    BY <1>1, <1>3, <1>4 DEF AllOK
  <1> QED BY <1>2, <1>5 DEF IInv

LEMMA NextKeeps ==
    ASSUME IInv, [Next]_vars
    PROVE  IInv'
  <1>1. CASE Client
    <2>1. CASE \E p \in Paths, r \in Revisions, reuse \in BOOLEAN : Fresh(r) /\ Publish(p, r, reuse)
      BY <2>1, PublishKeeps
    <2>2. CASE \E p \in Paths : RemovePath(p)
      BY <2>2, RemoveKeeps
    <2>3. CASE \E s \in Snapshots : MintSnapshot(s) \/ ReleaseSnapshot(s)
      BY <2>3, SnapshotKeeps
    <2>4. CASE \E b \in Builds :
                  \/ BeginBuild(b) \/ FinalizeBuild(b)
                  \/ AbortBuild(b) \/ CleanupMember(b) \/ FinishCleanup(b)
                  \/ \E p \in Paths : BuildMember(b, p)
      BY <2>4, BuildKeeps
    <2> QED BY <1>1, <2>1, <2>2, <2>3, <2>4 DEF Client
  <1>2. CASE Collector
    <2>1. CASE List \/ FinishCycle \/ Defer \/ DeferHeld \/ ClaimFails \/ PublicationFails
      BY <2>1, LookKeeps
    <2>2. CASE Claim
      BY <2>2, ClaimKeeps
    <2>3. CASE AdvanceHistoryBarrier \/ ClearStale
      BY <2>3, QueueKeeps
    <2>4. CASE BeginDeletion \/ AdvanceDeletionBatch
      BY <2>4, CollectionKeeps
    <2>5. CASE ScanManifestBatch \/ PassReusedRow \/ PublishBeforeDelete
      BY <2>5, RowsKeeps
    <2>6. CASE DeleteObject \/ DeleteAmbiguous
      BY <2>6, DeleteKeeps
    <2>7. CASE Complete
      BY <2>7, CompleteKeeps
    <2>8. CASE Quarantine
      BY <2>8, QuarantineKeeps
    <2> QED BY <1>2, <2>1, <2>2, <2>3, <2>4, <2>5, <2>6, <2>7, <2>8 DEF Collector
  <1>3. CASE PublishCurrent
    <2>1. /\ durable' = db /\ db' = db /\ objects' = objects /\ late' = late /\ worker' = worker
      BY <1>3 DEF PublishCurrent
    <2>2. AllOK(db, db, objects, late, worker)
      BY PublishLog DEF IInv
    <2> QED BY <2>1, <2>2 DEF IInv
  <1>4. CASE LateDelete
    BY <1>4, LateKeeps
  <1>5. CASE Crash \/ Restart
    BY <1>5, RecoverKeeps DEF Crash, Restart
  <1>6. CASE UNCHANGED vars
    BY <1>6 DEF vars, IInv
  <1> QED BY <1>1, <1>2, <1>3, <1>4, <1>5, <1>6 DEF Next

-----------------------------------------------------------------------------
(* The start.                                                              *)

LEMMA InitStore ==
    ASSUME Init
    PROVE  StoreOK(db) /\ ObjectsOK(db, objects, {})
  <1>1. PICK started \in SUBSET Builds : db =
            [clock |-> 2,
             rev |-> [r \in Revisions |->
                        IF \E p \in SeededPaths : Seeded[p] = r THEN Published({}) ELSE NoRevision],
             refs |-> {PathRef(p, Seeded[p]) : p \in SeededPaths},
             cand |-> {},
             gc |-> [r \in Revisions |-> NoGc],
             hold |-> [h \in Holders |->
                         IF h \in started THEN [version |-> 1, view |-> Seeded] ELSE NoHold],
             build |-> [b \in Builds |->
                          IF b \in started THEN [phase |-> "Building", left |-> SeededPaths]
                                          ELSE [phase |-> "None", left |-> {}]],
             minted |-> {},
             path |-> Seeded]
    BY DEF Init
  <1>2. PICK d : d = db
    OBVIOUS
  <1>3. Seeded \in Bindings /\ Injective(Seeded) /\ SeededPaths \subseteq Paths
        /\ \A p \in SeededPaths : Seeded[p] \in Revisions /\ Seeded[p] # None
    BY GcAssumption DEF Bindings, Injective, SeededPaths, Revisions
  <1>4. /\ d.clock = 2 /\ d.cand = {} /\ d.minted = {} /\ d.path = Seeded
        /\ d.refs = {PathRef(p, Seeded[p]) : p \in SeededPaths}
        /\ d.gc = [r \in Revisions |-> NoGc]
        /\ d.rev = [r \in Revisions |->
                        IF \E p \in SeededPaths : Seeded[p] = r THEN Published({}) ELSE NoRevision]
        /\ d.hold = [h \in Holders |->
                         IF h \in started THEN [version |-> 1, view |-> Seeded] ELSE NoHold]
        /\ d.build = [b \in Builds |->
                          IF b \in started THEN [phase |-> "Building", left |-> SeededPaths]
                                          ELSE [phase |-> "None", left |-> {}]]
    BY <1>1, <1>2
  <1>5. \A r \in Revisions : /\ (\E p \in SeededPaths : Seeded[p] = r) => d.rev[r] = Published({})
                             /\ (~ \E p \in SeededPaths : Seeded[p] = r) => d.rev[r] = NoRevision
    BY <1>4
  <1>6. /\ \A h \in Holders : /\ h \in started => d.hold[h] = [version |-> 1, view |-> Seeded]
                              /\ h \notin started => d.hold[h] = NoHold
        /\ \A b \in Builds : /\ b \in started => d.build[b] = [phase |-> "Building", left |-> SeededPaths]
                             /\ b \notin started => d.build[b] = [phase |-> "None", left |-> {}]
    BY <1>4
  <1>7. /\ Published({}).state = "Available" /\ Published({}).count = 1 /\ Published({}).deps = {}
        /\ NoRevision.state = "Absent" /\ NoRevision.count = 0 /\ NoRevision.deps = {}
        /\ NoGc.phase = "None"
    BY DEF Published, NoRevision, NoGc
  <1>8. \A q, o : PathRef(q, o).to = o /\ PathRef(q, o).kind = "Path" /\ PathRef(q, o).from = q
    BY DEF PathRef
  <1>9. d \in Stores
    <2>1. Published({}) \in RevRows /\ NoRevision \in RevRows
      BY DEF Published, NoRevision, RevRows, States
    <2>2. d.rev \in [Revisions -> RevRows]
      BY <2>1, <1>4
    <2>3. NoGc \in GcRows
      BY DEF NoGc, GcRows
    <2>4. [version |-> 1, view |-> Seeded] \in HoldRows /\ NoHold \in HoldRows
      BY <1>3 DEF NoHold, HoldRows, Bindings
    <2>5. d.hold \in [Holders -> HoldRows]
      BY <2>4, <1>4
    <2>6. d.build \in [Builds -> BuildRows]
      BY <1>3, <1>4 DEF BuildRows
    <2>7. d.refs \subseteq RefRows
      BY <1>3, <1>4 DEF PathRef, RefRows
    <2>8. d.gc \in [Revisions -> GcRows]
      BY <2>3, <1>4
    <2>9. d = [clock |-> d.clock, rev |-> d.rev, refs |-> d.refs, cand |-> d.cand, gc |-> d.gc,
               hold |-> d.hold, build |-> d.build, minted |-> d.minted, path |-> d.path]
      BY <1>1, <1>2
    <2>10. d.clock \in Nat /\ d.cand \subseteq CandRows /\ d.minted \subseteq Snapshots /\ d.path \in Bindings
      BY <1>3, <1>4
    <2> QED BY <2>2, <2>5, <2>6, <2>7, <2>8, <2>9, <2>10 DEF Stores
  <1>10. Counted(d)
    <2> SUFFICES ASSUME NEW r \in Revisions
                 PROVE  IsFiniteSet(RefsTo(d, r)) /\ d.rev[r].count = Cardinality(RefsTo(d, r))
      BY DEF Counted
    <2>1. CASE \E p \in SeededPaths : Seeded[p] = r
      <3>1. PICK p \in SeededPaths : Seeded[p] = r
        BY <2>1
      <3>2. \A q \in SeededPaths : Seeded[q] = r => q = p
        BY <3>1, <1>3 DEF Injective
      <3>3. RefsTo(d, r) = {PathRef(p, r)}
        BY <3>1, <3>2, <1>4, <1>8 DEF RefsTo
      <3>4. d.rev[r].count = 1
        BY <2>1, <1>5, <1>7
      <3> QED BY <3>3, <3>4, FS_Singleton
    <2>2. CASE ~ \E p \in SeededPaths : Seeded[p] = r
      <3>1. RefsTo(d, r) = {}
        BY <2>2, <1>4, <1>8 DEF RefsTo
      <3>2. d.rev[r].count = 0
        BY <2>2, <1>5, <1>7
      <3> QED BY <3>1, <3>2, FS_EmptySet
    <2> QED BY <2>1, <2>2
  <1>11. \A r \in Revisions : d.rev[r].state \in {"Available", "Absent"} /\ d.rev[r].deps = {}
                              /\ (Available(d, r) => d.rev[r].count = 1)
    BY <1>5, <1>7 DEF Available
  <1>12. \A p \in SeededPaths : Available(d, Seeded[p]) /\ d.rev[Seeded[p]].count = 1
    BY <1>3, <1>5, <1>7 DEF Available
  <1>13. BooksOK(d)
    <2>1. Queued(d)
      BY <1>11 DEF Queued, Unreferenced
    <2>2. CandsOK(d)
      BY <1>4 DEF CandsOK
    <2>3. HoldsOK(d)
      <3> SUFFICES ASSUME NEW h \in Holders PROVE HoldOK(d, h)
        BY DEF HoldsOK
      <3>1. CASE h \in started
        <4>1. d.hold[h].version = 1 /\ d.hold[h].view = Seeded
          BY <3>1, <1>6
        <4>2. \A p \in Paths : Seeded[p] # None => p \in SeededPaths
          BY DEF SeededPaths
        <4> QED BY <4>1, <4>2, <1>3, <1>4, <1>12 DEF HoldOK
      <3>2. CASE h \notin started
        <4>1. d.hold[h].version = 0 /\ \A p \in Paths : d.hold[h].view[p] = None
          BY <3>2, <1>6 DEF NoHold
        <4> QED BY <4>1, <1>4 DEF HoldOK, Injective
      <3> QED BY <3>1, <3>2
    <2>4. GcOK(d)
      BY <1>4, <1>7 DEF GcOK
    <2> QED BY <2>1, <2>2, <2>3, <2>4 DEF BooksOK
  <1>14. RefsOK(d)
    <2>1. LiveRefs(d)
      BY <1>4, <1>8, <1>12 DEF LiveRefs
    <2>2. DepsOK(d)
      BY <1>4, <1>8, <1>11 DEF DepsOK
    <2>3. PathsOK(d)
      BY <1>3, <1>4 DEF PathsOK, SeededPaths
    <2>4. \A b, o : CommitRef(b, o) \notin d.refs
      BY <1>4 DEF CommitRef, PathRef
    <2>5. BuildsOK(d)
      <3> SUFFICES ASSUME NEW b \in Builds PROVE BuildOK(d, b)
        BY DEF BuildsOK
      <3>1. CASE b \in started
        <4>1. d.build[b].phase = "Building" /\ d.build[b].left = SeededPaths /\ d.hold[b].view = Seeded
          BY <3>1, <1>6 DEF Holders
        <4> QED BY <4>1, <2>4, <1>3 DEF BuildOK
      <3>2. CASE b \notin started
        <4>1. d.build[b].phase = "None"
          BY <3>2, <1>6
        <4> QED BY <4>1, <2>4 DEF BuildOK
      <3> QED BY <3>1, <3>2
    <2> QED BY <2>1, <2>2, <2>3, <2>5 DEF RefsOK
  <1>15. ObjectsOK(d, objects, {})
    <2>1. \A r \in Revisions : Available(d, r) => \E p \in SeededPaths : Seeded[p] = r
      BY <1>5, <1>7 DEF Available
    <2>2. \A r \in Revisions : Available(d, r) => OwnObjects(r) \subseteq objects
      BY <2>1 DEF Init
    <2> QED BY <2>2, <1>11 DEF ObjectsOK
  <1> QED BY <1>2, <1>9, <1>10, <1>13, <1>14, <1>15 DEF StoreOK

LEMMA InitKeeps ==
    ASSUME Init
    PROVE  IInv
  <1>1. StoreOK(db) /\ ObjectsOK(db, objects, {})
    BY InitStore
  <1>2. durable = db /\ late = {} /\ worker = Idle
    BY DEF Init
  <1>3. Known(db, db) /\ WorkerOK(Idle, db, db, objects)
    BY IdleOK DEF Known
  <1> QED BY <1>1, <1>2, <1>3 DEF IInv, AllOK

-----------------------------------------------------------------------------
(* The results.                                                            *)

\* The invariant holds: rows, references, counts, holds, collections, objects
\* and the position of the worker agree, in the serving rows and in the durable
\* ones (gc.rs, publication.rs, commit.rs, snapshot.rs).
THEOREM Invariant == Spec => []IInv
  <1>1. Init => IInv
    BY InitKeeps
  <1>2. IInv /\ [Next]_vars => IInv'
    BY NextKeeps
  <1> QED BY <1>1, <1>2, PTL DEF Spec

\* The objects of what can be resolved from the rows d are there.
LEMMA ReachableReadable ==
    ASSUME NEW d, StoreOK(d), NEW have, NEW doomed, ObjectsOK(d, have, doomed),
           NEW r \in Reachable(d) \ {None}
    PROVE  Available(d, r) /\ Manifest(d, r) \subseteq have
  <1>1. d \in Stores /\ HoldsOK(d) /\ LiveRefs(d) /\ DepsOK(d) /\ PathsOK(d)
    BY DEF StoreOK, BooksOK, RefsOK
  <1>2. r \in Revisions /\ Available(d, r)
    <2>1. CASE \E p \in Paths : r = d.path[p]
      <3>1. PICK p \in Paths : r = d.path[p]
        BY <2>1
      <3>2. r \in Revisions /\ PathRef(p, r) \in d.refs
        BY <3>1, <1>1 DEF Stores, Bindings, PathsOK
      <3>3. PathRef(p, r).to = r
        BY DEF PathRef
      <3> QED BY <3>2, <3>3, <1>1 DEF LiveRefs
    <2>2. CASE \E h \in Holders, p \in Paths : r = d.hold[h].view[p]
      <3>1. PICK h \in Holders, p \in Paths : r = d.hold[h].view[p]
        BY <2>2
      <3>2. r \in Revisions
        BY <3>1, <1>1 DEF Stores, HoldRows, Bindings
      <3> QED BY <3>1, <3>2, <1>1 DEF HoldsOK, HoldOK
    <2>3. CASE \E ref \in d.refs : r = ref.to
      BY <2>3, <1>1 DEF Stores, RefRows, LiveRefs
    <2>4. \/ r \in {d.path[p] : p \in Paths}
          \/ r \in UNION {{d.hold[h].view[p] : p \in Paths} : h \in Holders}
          \/ r \in {ref.to : ref \in {ref \in d.refs : ref.kind = "Commit"}}
      BY Zenon DEF Reachable
    <2>5. r \in UNION {{d.hold[h].view[p] : p \in Paths} : h \in Holders}
            => \E h \in Holders, p \in Paths : r = d.hold[h].view[p]
      BY Zenon
    <2>6. r \in {d.path[p] : p \in Paths} => \E p \in Paths : r = d.path[p]
      BY Zenon
    <2>7. r \in {ref.to : ref \in {ref \in d.refs : ref.kind = "Commit"}}
            => \E ref \in d.refs : r = ref.to
      BY Zenon
    <2> QED BY <2>1, <2>2, <2>3, <2>4, <2>5, <2>6, <2>7
  <1>3. \A o \in d.rev[r].deps : o \in Revisions /\ Available(d, o)
    <2> SUFFICES ASSUME NEW o \in d.rev[r].deps PROVE o \in Revisions /\ Available(d, o)
      OBVIOUS
    <2>1. o \in Revisions
      BY <1>1, <1>2 DEF Stores, RevRows
    <2>2. DependencyRef(r, o) \in d.refs
      BY <1>1, <1>2 DEF DepsOK, Available
    <2>3. DependencyRef(r, o).to = o
      BY DEF DependencyRef
    <2> QED BY <2>1, <2>2, <2>3, <1>1 DEF LiveRefs
  <1>4. OwnObjects(r) \subseteq have /\ \A o \in d.rev[r].deps : OwnObjects(o) \subseteq have
    BY <1>2, <1>3 DEF ObjectsOK
  <1> QED BY <1>2, <1>4 DEF Manifest

\* Whatever a path, a held version or a commit build resolves, in the rows of the
\* owner or in those a successor recovers, is Available and all its objects,
\* reused blocks included, are at the provider (claim, the safe floor and the
\* publication before each delete in gc.rs and lifecycle.rs).
THEOREM WhatResolvesIsReadable == Spec => []ReadersFindObjects
  <1>1. IInv => ReadersFindObjects
    <2> SUFFICES ASSUME IInv, NEW d \in {db, durable}, NEW r \in Reachable(d) \ {None}
                 PROVE  Available(d, r) /\ Manifest(d, r) \subseteq objects
      BY DEF ReadersFindObjects
    <2>1. StoreOK(d) /\ ObjectsOK(d, objects, late)
      BY DEF IInv, AllOK
    <2> QED BY <2>1, ReachableReadable
  <1> QED BY <1>1, Invariant, PTL

\* Reference counts equal the number of RevisionRef rows after every command, and
\* an Available revision without references is queued under its current epoch
\* (the delta bookkeeping of publication.rs, remove.rs, commit.rs and complete in gc.rs).
THEOREM CountsStayExact == Spec => []CountsExact
  <1>1. IInv => CountsExact
    BY DEF IInv, AllOK, StoreOK, BooksOK, Counted, Queued, RefsTo, Unreferenced, CountsExact
  <1> QED BY <1>1, Invariant, PTL

\* A revision is Deleted only when none of its own objects is left at the provider
\* (complete in gc.rs, after advance_deletion_batch passed the whole manifest).
THEOREM SealedIsGone == Spec => []DeletedLeavesNothing
  <1>1. IInv => DeletedLeavesNothing
    BY DEF IInv, AllOK, ObjectsOK, DeletedLeavesNothing
  <1> QED BY <1>1, Invariant, PTL

=============================================================================
