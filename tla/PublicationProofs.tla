-------------------------- MODULE PublicationProofs --------------------------
(***************************************************************************)
(* Proofs about Publication, for every plan of the clients and every bound *)
(* on uploads, failures, retries and crashes: what is published stays      *)
(* published, and readable unless a late cleanup strikes a revision used   *)
(* again; an append publishes once; whatever stands in the provider is     *)
(* owned by a row a successor recovers, unless its cleanup overtook it;    *)
(* sealed keys stay sealed, and the worker leaves live operations alone.   *)
(***************************************************************************)
EXTENDS Publication, FiniteSetTheorems, TLAPS

Phases == ActivePhases \cup {"None", "Published", "Quarantined", "Cleaned"}

\* The operation holds the claim on its revision.
Holding == ActivePhases \cup {"Quarantined"}

\* The operation is given up, and its cleanup has begun.
Ended == {"Cleaning", "Quarantined", "Cleaned"}

OpRows ==
    [phase : Phases, older : BOOLEAN, fresh : BOOLEAN, claim : Nat,
     staged : 0..Objects, uploaded : 0..Objects, manifest : Nat,
     swept : 0..Objects, sweptRows : Nat, retries : Nat]

Stores ==
    [op : [Operations -> OpRows],
     claim : [Revisions -> Operations \cup {None}],
     revision : [Revisions -> Operations \cup {None}],
     manifest : [Revisions -> Nat],
     parent : [attempt : Nat \cup {None}, done : BOOLEAN],
     generation : Nat,
     active : SUBSET Operations]

-----------------------------------------------------------------------------
(* The inductive invariant.  What holds of the rows of a store by itself   *)
(* holds of the serving store and of the one a successor recovers.         *)

\* An operation holds its revision from its admission to its end, counts its
\* manifest rows while it is live, and leaves what its phase says.
RowOK(d, o) ==
    LET row == d.op[o]
        r == Rev(o)
    IN  /\ row.phase \in Holding => d.claim[r] = o
        /\ IsAppend(o) /\ row.phase = "Cleaned" => d.claim[r] = o
        /\ row.phase = "None" => row.staged = 0
        /\ row.phase \in LivePhases => d.manifest[r] = row.manifest
        /\ row.phase = "Finalizing" => row.uploaded = Objects /\ row.manifest = ManifestRows
        /\ row.phase = "Published" =>
             /\ d.revision[r] = o
             /\ row.uploaded = Objects
             /\ d.manifest[r] = ManifestRows
             /\ IsAppend(o) => d.parent = [attempt |-> plan.attempt[o], done |-> TRUE]
        /\ row.phase = "Cleaned" => row.swept >= row.staged
        /\ row.swept <= row.staged

\* A revision is claimed or published, and published by its operation.
StoreOK(d) ==
    /\ d \in Stores
    /\ \A o \in Operations : RowOK(d, o)
    /\ \A r \in Revisions : d.claim[r] # None => d.revision[r] = None
    /\ \A r \in Revisions : d.revision[r] # None =>
         Rev(d.revision[r]) = r /\ d.op[d.revision[r]].phase = "Published"

\* Row b is row a or one it became.
Later(a, b) ==
    /\ a.phase # "None" => b.phase # "None"
    /\ a.staged <= b.staged
    /\ a.phase = "Published" => b.phase = "Published"
    /\ a.phase = "Aborting" => b.phase \in {"Aborting"} \cup Ended
    /\ a.phase \in Ended => b.phase \in Ended
    /\ a.phase = "Cleaned" => b.phase = "Cleaned"

\* The object stands in the provider, unless a late cleanup struck its key.
Standing(o, i, ob, sk) == ob[Key(o, i)] = o \/ Key(o, i) \in sk

\* What was recorded as uploaded stands in the provider, as long as it counts.
UploadsKept(d, ob, sk) ==
    \A o \in Operations : d.op[o].phase \in LivePhases \cup {"Published"} =>
        \A i \in 1..d.op[o].uploaded : Standing(o, i, ob, sk)

\* The key was emptied, and sealed if the operation is an append.
Gone(o, i, ob, em) == <<o, i>> \in em /\ (IsAppend(o) => ob[Key(o, i)] = "Sealed")

\* A staged row is swept after its key was emptied.
SweptEmpty(d, ob, em) ==
    \A o \in Operations : \A i \in 1..d.op[o].swept : Gone(o, i, ob, em)

\* Before the provider is asked to remove an object, the end of its operation is
\* durable, and an operator acts on quarantined operations only.
CleanupDurable(d, u) ==
    \A o \in Operations : d.op[o].phase = "Quarantined" =>
        u.op[o].phase \in {"Cleaning", "Quarantined"}

PutsOK(d, u, ob, ps, sk) ==
    \A p \in ps :
        /\ p.op \in Operations /\ p.object \in 1..Objects
        /\ p = [op |-> p.op, object |-> p.object, at |-> p.at]
        /\ p.at \in {"sent", "stored", "late"}
        /\ u.op[p.op].phase # "None" /\ p.object <= u.op[p.op].staged
        /\ p.at = "stored" /\ d.op[p.op].phase \in LivePhases =>
             Standing(p.op, p.object, ob, sk)

Ledgered(u, ob) ==
    \A o \in Operations : \A i \in 1..Objects :
        ob[Key(o, i)] = o => u.op[o].phase # "None" /\ i <= u.op[o].staged

\* A late cleanup, whether it is to come or struck already, is that of an
\* operation whose end is durable.
DoomedOK(u, dm) ==
    \A k \in dm : \E o \in Operations : \E i \in 1..Objects :
        k = Key(o, i) /\ u.op[o].phase \in Ended

WorkerOK(d, u, ob, w, em) ==
    /\ w = [pc |-> w.pc, op |-> w.op, row |-> w.row, at |-> w.at]
    /\ w.pc \in {"idle", "failed", "takeover", "publish", "cleanup", "batch", "quarantine"}
    /\ w.pc \notin {"idle", "failed"} => w.op \in Operations /\ w.row \in OpRows
    /\ w.pc = "takeover" => w.row.phase \in LivePhases /\ (w.row.older \/ ~w.row.fresh)
    /\ w.pc \in {"publish", "cleanup", "batch", "quarantine"} =>
         w.row = d.op[w.op] /\ w.row.phase = "Cleaning"
    /\ w.pc \in {"publish", "cleanup"} =>
         /\ w.at \in (w.row.swept + 1)..BatchEnd(w.row)
         /\ w.row.swept < w.row.staged
         /\ \A i \in 1..w.at : i < w.at => Gone(w.op, i, ob, em)
    /\ w.pc = "batch" /\ w.row.swept < w.row.staged =>
         \A i \in 1..BatchEnd(w.row) : Gone(w.op, i, ob, em)
    /\ w.pc \in {"cleanup", "quarantine"} =>
         u.op[w.op].phase \in {"Cleaning", "Quarantined"}

AllOK(d, u, ob, ps, dm, w, ac, sk, em) ==
    /\ StoreOK(d) /\ StoreOK(u)
    /\ \A o \in Operations : Later(u.op[o], d.op[o])
    /\ ob \in [Keys -> Operations \cup {None, "Sealed"}]
    /\ UploadsKept(d, ob, sk) /\ UploadsKept(u, ob, sk)
    /\ SweptEmpty(d, ob, em) /\ SweptEmpty(u, ob, em)
    /\ CleanupDurable(d, u)
    /\ PutsOK(d, u, ob, ps, sk)
    /\ Ledgered(u, ob)
    /\ DoomedOK(u, dm) /\ DoomedOK(u, sk)
    /\ WorkerOK(d, u, ob, w, em)
    /\ \A o \in ac : o \in Operations /\ u.op[o].phase = "Published"

IInv ==
    /\ plan \in Plans
    /\ AllOK(db, durable, objects, puts, doomed, worker, acked, struck, emptied)

-----------------------------------------------------------------------------
(* Plans, keys and rows.                                                   *)

LEMMA PlanFacts ==
    ASSUME plan \in Plans
    PROVE  /\ Objects \in Nat /\ None \notin Nat
           /\ None # "Sealed" /\ None \notin Operations /\ "Sealed" \notin Operations
           /\ \A o \in Operations : plan.attempt[o] \in Nat \cup {None}
           /\ \A o \in Operations : Rev(o) \in Revisions
           /\ \A o, q \in Operations :
                IsAppend(o) /\ plan.attempt[o] = plan.attempt[q] => o = q
           /\ \A o, q \in Operations :
                Rev(o) = Rev(q) => o = q \/ (~IsAppend(o) /\ ~IsAppend(q))
  BY PublicationAssumption DEF Objects, Operations, IsAppend, Rev, Revisions

LEMMA KeyFacts ==
    /\ \A o \in Operations : \A i \in 1..Objects : Key(o, i) \in Keys
    /\ \A o, i : Key(o, i)[1] = Rev(o)
    /\ \A o, q, i, j : Key(o, i) = Key(q, j) => Rev(o) = Rev(q) /\ i = j
  BY DEF Key, Keys, Revisions

LEMMA RowTypes ==
    ASSUME plan \in Plans
    PROVE  /\ NoOperation \in OpRows
           /\ LivePhases \subseteq Phases /\ LivePhases \subseteq Holding
  BY PlanFacts DEF NoOperation, OpRows, Phases, ActivePhases, LivePhases, Holding

LEMMA StoreFacts ==
    ASSUME NEW d \in Stores, NEW o \in Operations, NEW b \in OpRows
    PROVE  /\ Store(d, o, b) \in Stores
           /\ Store(d, o, b).op = [d.op EXCEPT ![o] = b]
           /\ Store(d, o, b).claim = d.claim
           /\ Store(d, o, b).revision = d.revision
           /\ Store(d, o, b).manifest = d.manifest
           /\ Store(d, o, b).parent = d.parent
           /\ Store(d, o, b).generation = d.generation
  BY DEF Store, Stores

(* What a successor recovers differs in whose and how fresh a row is.      *)
LEMMA RecoveredFacts ==
    ASSUME NEW d \in Stores, NEW u, u = Recovered(d)
    PROVE  /\ u \in Stores
           /\ u.claim = d.claim /\ u.revision = d.revision
           /\ u.manifest = d.manifest /\ u.parent = d.parent
           /\ \A o \in Operations :
                /\ u.op[o].phase = d.op[o].phase /\ u.op[o].staged = d.op[o].staged
                /\ u.op[o].uploaded = d.op[o].uploaded
                /\ u.op[o].manifest = d.op[o].manifest /\ u.op[o].swept = d.op[o].swept
  <1>1. ASSUME NEW row \in OpRows, NEW old \in BOOLEAN, NEW new \in BOOLEAN,
               NEW c, c = [row EXCEPT !.older = old, !.fresh = new]
        PROVE  /\ c \in OpRows /\ c.phase = row.phase /\ c.staged = row.staged
               /\ c.uploaded = row.uploaded /\ c.manifest = row.manifest
               /\ c.swept = row.swept
    BY <1>1 DEF OpRows
  <1> DEFINE f == [o \in DOMAIN d.op |->
                     [d.op[o] EXCEPT !.older = d.op[o].phase # "None", !.fresh = FALSE]]
  <1>2. d.op \in [Operations -> OpRows] /\ u = [d EXCEPT !.op = f]
    BY DEF Recovered, Stores
  <1>3. ASSUME NEW o \in Operations
        PROVE  /\ f[o] \in OpRows
               /\ f[o].phase = d.op[o].phase /\ f[o].staged = d.op[o].staged
               /\ f[o].uploaded = d.op[o].uploaded
               /\ f[o].manifest = d.op[o].manifest /\ f[o].swept = d.op[o].swept
    <2>1. PICK old \in BOOLEAN : old = (d.op[o].phase # "None")
      OBVIOUS
    <2>2. d.op[o] \in OpRows /\ f[o] = [d.op[o] EXCEPT !.older = old, !.fresh = FALSE]
      BY <1>2, <2>1
    <2>3. PICK row \in OpRows : row = d.op[o]
      BY <2>2
    <2>4. PICK c : c = [row EXCEPT !.older = old, !.fresh = FALSE]
      OBVIOUS
    <2>5. /\ c \in OpRows /\ c.phase = row.phase /\ c.staged = row.staged
          /\ c.uploaded = row.uploaded /\ c.manifest = row.manifest
          /\ c.swept = row.swept
      BY <1>1, <2>4, ZenonT(60)
    <2>6. f[o] = c
      BY <2>2, <2>3, <2>4
    <2> HIDE DEF f
    <2> QED BY <2>3, <2>5, <2>6
  <1>4. f \in [Operations -> OpRows]
    BY <1>2, <1>3
  <1> HIDE DEF f
  <1>5. /\ u \in Stores /\ u.op = f
        /\ u.claim = d.claim /\ u.revision = d.revision
        /\ u.manifest = d.manifest /\ u.parent = d.parent
    BY <1>2, <1>4 DEF Stores
  <1> QED BY <1>3, <1>5

(* Rows that differ in nothing a claim, a manifest or a phase depends on.  *)
SameRows(d, u) ==
    /\ u \in Stores /\ u.claim = d.claim /\ u.revision = d.revision
    /\ u.manifest = d.manifest /\ u.parent = d.parent
    /\ \A o \in Operations :
         /\ u.op[o].phase = d.op[o].phase /\ u.op[o].staged = d.op[o].staged
         /\ u.op[o].uploaded = d.op[o].uploaded
         /\ u.op[o].manifest = d.op[o].manifest /\ u.op[o].swept = d.op[o].swept

LEMMA SameStore ==
    ASSUME NEW d, StoreOK(d), NEW u, SameRows(d, u)
    PROVE  StoreOK(u)
  <1>0. /\ u \in Stores /\ u.claim = d.claim /\ u.revision = d.revision
        /\ u.manifest = d.manifest /\ u.parent = d.parent
        /\ \A o \in Operations :
             /\ u.op[o].phase = d.op[o].phase /\ u.op[o].staged = d.op[o].staged
             /\ u.op[o].uploaded = d.op[o].uploaded
             /\ u.op[o].manifest = d.op[o].manifest /\ u.op[o].swept = d.op[o].swept
    BY DEF SameRows
  <1>1. ASSUME NEW o \in Operations PROVE RowOK(u, o)
    BY <1>0 DEF StoreOK, RowOK
  <1>2. ASSUME NEW r \in Revisions
        PROVE  /\ u.claim[r] # None => u.revision[r] = None
               /\ u.revision[r] # None =>
                    Rev(u.revision[r]) = r /\ u.op[u.revision[r]].phase = "Published"
    <2>1. u.revision[r] \in Operations \cup {None}
      BY <1>0 DEF Stores
    <2> QED BY <1>0, <2>1 DEF StoreOK
  <1> QED BY <1>0, <1>1, <1>2 DEF StoreOK

(* An operation exchanges its row for b and changes its claim, its         *)
(* revision and the manifest of its revision.                              *)
Exchanged(d, d2, o, b) ==
    /\ d2 \in Stores /\ b \in OpRows
    /\ d2.op = [d.op EXCEPT ![o] = b]
    /\ RowOK(d2, o)
    /\ \A r \in Revisions : r # Rev(o) =>
         /\ d2.claim[r] = d.claim[r] /\ d2.revision[r] = d.revision[r]
         /\ d2.manifest[r] = d.manifest[r]
    /\ d2.claim[Rev(o)] # d.claim[Rev(o)] => d.claim[Rev(o)] \in {None, o}
    /\ d2.revision[Rev(o)] # d.revision[Rev(o)] =>
         /\ d.claim[Rev(o)] = o /\ d2.revision[Rev(o)] = o /\ b.phase = "Published"
    /\ d2.manifest[Rev(o)] # d.manifest[Rev(o)] => d.claim[Rev(o)] = o
    /\ d2.claim[Rev(o)] # None => d2.revision[Rev(o)] = None
    /\ \A q \in Operations :
         IsAppend(q) /\ d.op[q].phase = "Published" => d2.parent = d.parent
    /\ d.op[o].phase = "Published" => b.phase = "Published"

(* Other operations are not disturbed.                                     *)
LEMMA StoreStep ==
    ASSUME plan \in Plans, NEW d, StoreOK(d), NEW o \in Operations, NEW b, NEW d2,
           Exchanged(d, d2, o, b)
    PROVE  StoreOK(d2)
  <1> USE DEF Exchanged
  <1>1. Rev(o) \in Revisions /\ None \notin Operations
    BY PlanFacts
  <1>2. \A q \in Operations : d2.op[q] = IF q = o THEN b ELSE d.op[q]
    BY DEF StoreOK, Stores
  <1>3. ASSUME NEW q \in Operations, q # o PROVE RowOK(d2, q)
    <2>1. Rev(q) \in Revisions /\ RowOK(d, q) /\ d2.op[q] = d.op[q]
      BY <1>2, <1>3, PlanFacts DEF StoreOK
    <2>2. d.op[q].phase \in Holding \/ (IsAppend(q) /\ d.op[q].phase = "Cleaned")
            => /\ d.claim[Rev(q)] = q /\ d2.claim[Rev(q)] = q
               /\ d2.manifest[Rev(q)] = d.manifest[Rev(q)]
      BY <1>1, <1>3, <2>1 DEF RowOK
    <2>3. d.op[q].phase = "Published" =>
            /\ d.revision[Rev(q)] = q /\ d2.revision[Rev(q)] = q
            /\ d2.manifest[Rev(q)] = d.manifest[Rev(q)]
      <3>1. d.op[q].phase = "Published" => d.revision[Rev(q)] = q /\ d.claim[Rev(q)] = None
        BY <1>1, <2>1 DEF RowOK, StoreOK
      <3> QED BY <1>1, <2>1, <3>1
    <2>4. d.op[q].phase = "Published" /\ IsAppend(q) =>
            d2.parent = [attempt |-> plan.attempt[q], done |-> TRUE]
      BY <2>1 DEF RowOK
    <2>5. LivePhases \subseteq Holding
      BY RowTypes
    <2> QED BY <2>1, <2>2, <2>3, <2>4, <2>5 DEF RowOK
  <1>4. ASSUME NEW r \in Revisions, d2.claim[r] # None PROVE d2.revision[r] = None
    BY <1>4 DEF StoreOK
  <1>5. ASSUME NEW r \in Revisions, d2.revision[r] # None
        PROVE  Rev(d2.revision[r]) = r /\ d2.op[d2.revision[r]].phase = "Published"
    <2>1. CASE d2.revision[r] = d.revision[r]
      <3>1. d.revision[r] \in Operations /\ Rev(d.revision[r]) = r
            /\ d.op[d.revision[r]].phase = "Published"
        BY <1>5, <2>1 DEF StoreOK, Stores
      <3> QED BY <1>2, <2>1, <3>1
    <2>2. CASE d2.revision[r] # d.revision[r]
      BY <1>2, <2>2
    <2> QED BY <2>1, <2>2
  <1>6. \A q \in Operations : RowOK(d2, q)
    BY <1>3
  <1> QED BY <1>4, <1>5, <1>6 DEF StoreOK

(* The step of an operation that changes nothing but its row.              *)
LEMMA PlainStep ==
    ASSUME plan \in Plans, NEW d, StoreOK(d), NEW o \in Operations, NEW b \in OpRows,
           RowOK(Store(d, o, b), o), d.op[o].phase = "Published" => b.phase = "Published"
    PROVE  StoreOK(Store(d, o, b))
  <1> PICK d2 : d2 = Store(d, o, b)
    OBVIOUS
  <1>1. d \in Stores
    BY DEF StoreOK
  <1>2. /\ d2 \in Stores /\ d2.op = [d.op EXCEPT ![o] = b]
        /\ d2.claim = d.claim /\ d2.revision = d.revision
        /\ d2.manifest = d.manifest /\ d2.parent = d.parent
    BY <1>1, StoreFacts
  <1>3. d2.claim[Rev(o)] # None => d2.revision[Rev(o)] = None
    BY <1>2, PlanFacts DEF StoreOK
  <1>4. Exchanged(d, d2, o, b)
    BY <1>2, <1>3 DEF Exchanged
  <1>5. StoreOK(d2)
    BY <1>4, StoreStep
  <1> QED BY <1>5

-----------------------------------------------------------------------------
(* How the invariant is carried over a step, by what the step changes.     *)

LEMMA LaterFacts ==
    /\ \A a, b, c : a.staged \in Nat /\ b.staged \in Nat /\ c.staged \in Nat
                    /\ Later(a, b) /\ Later(b, c) => Later(a, c)
    /\ \A a, b : a.staged \in Nat /\ a.phase = b.phase /\ a.staged = b.staged => Later(a, b)
  BY DEF Later, Ended

(* The fields of a row of a typed store.                                   *)
LEMMA RowFields ==
    ASSUME plan \in Plans, NEW d, StoreOK(d), NEW o \in Operations
    PROVE  /\ d \in Stores /\ d.op[o] \in OpRows /\ RowOK(d, o)
           /\ d.op[o].phase \in Phases
           /\ d.op[o].staged \in Nat /\ d.op[o].staged <= Objects
           /\ d.op[o].uploaded \in Nat /\ d.op[o].uploaded <= Objects
           /\ d.op[o].swept \in Nat /\ d.op[o].swept <= d.op[o].staged
           /\ d.op[o].manifest \in Nat /\ d.op[o].sweptRows \in Nat
  <1>1. d \in Stores /\ d.op[o] \in OpRows /\ RowOK(d, o)
    BY DEF StoreOK, Stores
  <1> QED BY <1>1, PlanFacts DEF OpRows, RowOK

(* A row is exchanged for a later one.                                     *)
LEMMA RowStep ==
    ASSUME plan \in Plans, NEW d, NEW u, NEW ob, NEW ps, NEW dm, NEW w, NEW ac,
           NEW sk, NEW em,
           AllOK(d, u, ob, ps, dm, w, ac, sk, em),
           NEW o \in Operations, NEW b \in OpRows, NEW d2, NEW ps2, NEW w2,
           NEW em2, em \subseteq em2,
           StoreOK(d2), d2.op = [d.op EXCEPT ![o] = b],
           Later(d.op[o], b),
           b.phase \in LivePhases \cup {"Published"} =>
             /\ d.op[o].phase \in LivePhases \cup {"None"}
             /\ d.op[o].phase = "None" => b.uploaded = 0
             /\ \A i \in 1..b.uploaded : i <= d.op[o].uploaded \/ Standing(o, i, ob, sk),
           \A i \in 1..b.swept : i <= d.op[o].swept \/ Gone(o, i, ob, em2),
           b.phase = "Quarantined" => u.op[o].phase \in {"Cleaning", "Quarantined"},
           \A p \in ps2 : p \in ps \/ \E i \in 1..Objects :
             /\ p = [op |-> o, object |-> i, at |-> "sent"]
             /\ u.op[o].phase # "None" /\ i <= u.op[o].staged,
           WorkerOK(d2, u, ob, w2, em2)
    PROVE  AllOK(d2, u, ob, ps2, dm, w2, ac, sk, em2)
  <1>1. /\ StoreOK(d) /\ StoreOK(u) /\ UploadsKept(d, ob, sk) /\ SweptEmpty(d, ob, em)
        /\ CleanupDurable(d, u) /\ PutsOK(d, u, ob, ps, sk)
        /\ \A q \in Operations : Later(u.op[q], d.op[q])
        /\ SweptEmpty(u, ob, em)
    BY DEF AllOK
  <1>2. \A q \in Operations : d2.op[q] = IF q = o THEN b ELSE d.op[q]
    BY <1>1 DEF StoreOK, Stores
  <1>3. \A q \in Operations : Later(u.op[q], d2.op[q])
    <2> TAKE q \in Operations
    <2>1. u.op[q].staged \in Nat /\ d.op[q].staged \in Nat /\ d2.op[q].staged \in Nat
      BY <1>1, RowFields
    <2> QED BY <1>1, <1>2, <2>1, LaterFacts
  <1>4. UploadsKept(d2, ob, sk)
    <2> SUFFICES ASSUME NEW q \in Operations,
                        d2.op[q].phase \in LivePhases \cup {"Published"},
                        NEW i \in 1..d2.op[q].uploaded
                 PROVE  Standing(q, i, ob, sk)
      BY DEF UploadsKept
    <2>1. CASE q # o
      BY <1>1, <1>2, <2>1 DEF UploadsKept
    <2>2. CASE q = o
      <3>1. d.op[o].uploaded \in Nat /\ b.uploaded \in Nat /\ i \in Nat
        BY <1>1, <1>2, <2>2, RowFields
      <3>2. d.op[o].phase \in LivePhases /\ (i <= d.op[o].uploaded \/ Standing(o, i, ob, sk))
        BY <1>2, <2>2, <3>1
      <3> QED BY <1>1, <2>2, <3>1, <3>2 DEF UploadsKept
    <2> QED BY <2>1, <2>2
  <1>5. SweptEmpty(d2, ob, em2) /\ SweptEmpty(u, ob, em2)
    <2>0. \A q, i : Gone(q, i, ob, em) => Gone(q, i, ob, em2)
      BY DEF Gone
    <2> SUFFICES ASSUME NEW q \in Operations, NEW i \in 1..d2.op[q].swept
                 PROVE  Gone(q, i, ob, em2)
      BY <1>1, <2>0 DEF SweptEmpty
    <2>1. CASE q # o
      BY <1>1, <1>2, <2>0, <2>1 DEF SweptEmpty
    <2>2. CASE q = o
      <3>1. d.op[o].swept \in Nat /\ b.swept \in Nat /\ i \in Nat
        BY <1>1, <1>2, <2>2, RowFields
      <3>2. i <= d.op[o].swept \/ Gone(o, i, ob, em2)
        BY <1>2, <2>2
      <3> QED BY <1>1, <2>0, <2>2, <3>1, <3>2 DEF SweptEmpty
    <2> QED BY <2>1, <2>2
  <1>6. CleanupDurable(d2, u)
    BY <1>1, <1>2 DEF CleanupDurable
  <1>7. PutsOK(d2, u, ob, ps2, sk)
    <2> SUFFICES ASSUME NEW p \in ps2
                 PROVE  /\ p.op \in Operations /\ p.object \in 1..Objects
                        /\ p = [op |-> p.op, object |-> p.object, at |-> p.at]
                        /\ p.at \in {"sent", "stored", "late"}
                        /\ u.op[p.op].phase # "None" /\ p.object <= u.op[p.op].staged
                        /\ p.at = "stored" /\ d2.op[p.op].phase \in LivePhases
                             => Standing(p.op, p.object, ob, sk)
      BY DEF PutsOK
    <2>1. CASE p \in ps
      <3>1. /\ p.op \in Operations /\ u.op[p.op].phase # "None"
        BY <1>1, <2>1 DEF PutsOK
      <3>2. d.op[p.op].phase # "None"
        BY <1>1, <3>1 DEF Later
      <3>3. d2.op[p.op].phase \in LivePhases => d.op[p.op].phase \in LivePhases
        BY <1>2, <3>1, <3>2
      <3> QED BY <1>1, <2>1, <3>3 DEF PutsOK
    <2>2. CASE p \notin ps
      BY <2>2
    <2> QED BY <2>1, <2>2
  <1> QED BY <1>3, <1>4, <1>5, <1>6, <1>7 DEF AllOK

(* The store changes, but no operation's row.                              *)
LEMMA RowsAlone ==
    ASSUME NEW d, NEW u, NEW ob, NEW ps, NEW dm, NEW w, NEW ac, NEW sk, NEW em,
           AllOK(d, u, ob, ps, dm, w, ac, sk, em), NEW d2, StoreOK(d2), d2.op = d.op
    PROVE  AllOK(d2, u, ob, ps, dm, w, ac, sk, em)
  BY DEF AllOK, UploadsKept, SweptEmpty, CleanupDurable, PutsOK, WorkerOK

LEMMA WorkerKept ==
    ASSUME plan \in Plans, NEW d, NEW u, NEW ob, NEW w, NEW em, WorkerOK(d, u, ob, w, em),
           NEW o \in Operations, NEW b, NEW d2, d.op \in [Operations -> OpRows],
           d2.op = [d.op EXCEPT ![o] = b],
           w.pc \in {"publish", "cleanup", "batch", "quarantine"} => w.op # o
    PROVE  WorkerOK(d2, u, ob, w, em)
  <1>1. w.pc \in {"publish", "cleanup", "batch", "quarantine"} => d2.op[w.op] = d.op[w.op]
    BY DEF WorkerOK
  <1> QED BY <1>1 DEF WorkerOK

LEMMA WorkerGrows ==
    ASSUME NEW d, NEW u, NEW ob, NEW w, NEW em, WorkerOK(d, u, ob, w, em),
           NEW em2, em \subseteq em2
    PROVE  WorkerOK(d, u, ob, w, em2)
  <1>1. \A q, i : Gone(q, i, ob, em) => Gone(q, i, ob, em2)
    BY DEF Gone
  <1> QED BY <1>1 DEF WorkerOK

(* The recovery log is published: a successor would find what is served.   *)
LEMMA PublishStep ==
    ASSUME plan \in Plans, NEW d, NEW u, NEW ob, NEW ps, NEW dm, NEW w, NEW ac,
           NEW sk, NEW em,
           AllOK(d, u, ob, ps, dm, w, ac, sk, em), NEW u2, u2 = Recovered(d),
           NEW w2, WorkerOK(d, u2, ob, w2, em)
    PROVE  AllOK(d, u2, ob, ps, dm, w2, ac, sk, em)
  <1>1. /\ StoreOK(d) /\ StoreOK(u) /\ UploadsKept(d, ob, sk) /\ SweptEmpty(d, ob, em)
        /\ PutsOK(d, u, ob, ps, sk) /\ Ledgered(u, ob) /\ DoomedOK(u, dm) /\ DoomedOK(u, sk)
        /\ \A q \in Operations : Later(u.op[q], d.op[q])
        /\ \A o \in ac : o \in Operations /\ u.op[o].phase = "Published"
        /\ ob \in [Keys -> Operations \cup {None, "Sealed"}]
    BY DEF AllOK
  <1>2. /\ u2 \in Stores
        /\ u2.claim = d.claim /\ u2.revision = d.revision
        /\ u2.manifest = d.manifest /\ u2.parent = d.parent
        /\ \A o \in Operations :
             /\ u2.op[o].phase = d.op[o].phase /\ u2.op[o].staged = d.op[o].staged
             /\ u2.op[o].uploaded = d.op[o].uploaded
             /\ u2.op[o].manifest = d.op[o].manifest /\ u2.op[o].swept = d.op[o].swept
    BY <1>1, RecoveredFacts DEF StoreOK
  <1>3. StoreOK(u2)
    BY <1>1, <1>2, SameStore DEF SameRows
  <1>4. \A q \in Operations : Later(u2.op[q], d.op[q])
    BY <1>1, <1>2, LaterFacts, RowFields
  <1>5. UploadsKept(u2, ob, sk) /\ SweptEmpty(u2, ob, em) /\ CleanupDurable(d, u2)
    BY <1>1, <1>2 DEF UploadsKept, SweptEmpty, CleanupDurable
  <1>6. ASSUME NEW q \in Operations
        PROVE  /\ u.op[q].phase # "None" => u2.op[q].phase # "None"
               /\ u.op[q].phase = "Published" => u2.op[q].phase = "Published"
               /\ u.op[q].phase \in Ended => u2.op[q].phase \in Ended
               /\ \A i \in Nat : i <= u.op[q].staged => i <= u2.op[q].staged
    <2>1. u.op[q].staged \in Nat /\ d.op[q].staged \in Nat
      BY <1>1, RowFields
    <2> QED BY <1>1, <1>2, <2>1 DEF Later
  <1>7. PutsOK(d, u2, ob, ps, sk)
    BY <1>1, <1>6, PlanFacts DEF PutsOK
  <1>8. Ledgered(u2, ob)
    BY <1>1, <1>6, PlanFacts DEF Ledgered
  <1>9. DoomedOK(u2, dm) /\ DoomedOK(u2, sk)
    BY <1>1, <1>6 DEF DoomedOK
  <1> QED BY <1>1, <1>3, <1>4, <1>5, <1>6, <1>7, <1>8, <1>9 DEF AllOK

(* An upload creates its object, or finds it: no other body is touched.    *)
Filled(p, ob, ob2, ps, ps2) ==
    /\ p \in ps
    /\ ob[Key(p.op, p.object)] \in {None, p.op}
    /\ ob2 = [ob EXCEPT ![Key(p.op, p.object)] = p.op]
    /\ ps2 = (ps \ {p}) \cup {[p EXCEPT !.at = "stored"]}

LEMMA FillStep ==
    ASSUME plan \in Plans, NEW d, NEW u, NEW ob, NEW ps, NEW dm, NEW w, NEW ac,
           NEW sk, NEW em,
           AllOK(d, u, ob, ps, dm, w, ac, sk, em), NEW p, NEW ob2, NEW ps2,
           Filled(p, ob, ob2, ps, ps2)
    PROVE  AllOK(d, u, ob2, ps2, dm, w, ac, sk, em)
  <1> DEFINE k == Key(p.op, p.object)
             s == [p EXCEPT !.at = "stored"]
  <1>0. /\ p \in ps /\ ob[k] \in {None, p.op} /\ ob2 = [ob EXCEPT ![k] = p.op]
        /\ ps2 = (ps \ {p}) \cup {s}
    BY DEF Filled
  <1>1. /\ StoreOK(d) /\ StoreOK(u) /\ UploadsKept(d, ob, sk) /\ SweptEmpty(d, ob, em)
        /\ UploadsKept(u, ob, sk) /\ SweptEmpty(u, ob, em)
        /\ PutsOK(d, u, ob, ps, sk) /\ Ledgered(u, ob) /\ WorkerOK(d, u, ob, w, em)
        /\ ob \in [Keys -> Operations \cup {None, "Sealed"}]
    BY DEF AllOK
  <1>2. /\ p.op \in Operations /\ p.object \in 1..Objects
        /\ p = [op |-> p.op, object |-> p.object, at |-> p.at]
        /\ u.op[p.op].phase # "None" /\ p.object <= u.op[p.op].staged
    BY <1>0, <1>1 DEF PutsOK
  <1>3. k \in Keys /\ None \notin Operations /\ "Sealed" \notin Operations /\ None # "Sealed"
    BY <1>2, KeyFacts, PlanFacts
  <1>4. /\ ob2 \in [Keys -> Operations \cup {None, "Sealed"}]
        /\ ob2[k] = p.op
        /\ \A x : x \in Keys /\ x # k => ob2[x] = ob[x]
    BY <1>0, <1>1, <1>2, <1>3
  <1>5. \A x \in Keys : ob[x] # None => ob2[x] = ob[x]
    BY <1>0, <1>4
  <1>6. s = [op |-> p.op, object |-> p.object, at |-> "stored"]
    BY <1>2
  <1> HIDE DEF k, s
  <1>7. ASSUME NEW x, StoreOK(x)
        PROVE  /\ UploadsKept(x, ob, sk) => UploadsKept(x, ob2, sk)
               /\ SweptEmpty(x, ob, em) => SweptEmpty(x, ob2, em)
    <2>1. ASSUME NEW q \in Operations, NEW i \in Nat \ {0},
                 i <= x.op[q].uploaded \/ i <= x.op[q].swept
          PROVE  Key(q, i) \in Keys
      <3>1. i \in 1..Objects
        BY <1>7, <2>1, RowFields, PlanFacts
      <3> QED BY <3>1, KeyFacts
    <2>2. ASSUME UploadsKept(x, ob, sk) PROVE UploadsKept(x, ob2, sk)
      <3> SUFFICES ASSUME NEW q \in Operations,
                          x.op[q].phase \in LivePhases \cup {"Published"},
                          NEW i \in 1..x.op[q].uploaded
                   PROVE  Standing(q, i, ob2, sk)
        BY DEF UploadsKept
      <3>1. Standing(q, i, ob, sk)
        BY <2>2 DEF UploadsKept
      <3>2. Key(q, i) \in Keys
        BY <1>7, <2>1, RowFields
      <3> QED BY <1>3, <1>5, <3>1, <3>2 DEF Standing
    <2>3. ASSUME SweptEmpty(x, ob, em) PROVE SweptEmpty(x, ob2, em)
      <3> SUFFICES ASSUME NEW q \in Operations, NEW i \in 1..x.op[q].swept
                   PROVE  Gone(q, i, ob2, em)
        BY DEF SweptEmpty
      <3>1. Gone(q, i, ob, em)
        BY <2>3 DEF SweptEmpty
      <3>2. Key(q, i) \in Keys
        BY <1>7, <2>1, RowFields
      <3> QED BY <1>3, <1>5, <3>1, <3>2 DEF Gone
    <2> QED BY <2>2, <2>3
  <1>8. PutsOK(d, u, ob2, (ps \ {p}) \cup {s}, sk)
    <2> SUFFICES ASSUME NEW z \in (ps \ {p}) \cup {s}
                 PROVE  /\ z.op \in Operations /\ z.object \in 1..Objects
                        /\ z = [op |-> z.op, object |-> z.object, at |-> z.at]
                        /\ z.at \in {"sent", "stored", "late"}
                        /\ u.op[z.op].phase # "None" /\ z.object <= u.op[z.op].staged
                        /\ z.at = "stored" /\ d.op[z.op].phase \in LivePhases
                             => Standing(z.op, z.object, ob2, sk)
      BY DEF PutsOK
    <2>1. CASE z = s
      BY <1>2, <1>4, <1>6, <2>1 DEF k, Standing
    <2>2. CASE z \in ps
      <3>1. z.op \in Operations /\ z.object \in 1..Objects
        BY <1>1, <2>2 DEF PutsOK
      <3>2. Key(z.op, z.object) \in Keys
        BY <3>1, KeyFacts
      <3>3. Standing(z.op, z.object, ob, sk) => Standing(z.op, z.object, ob2, sk)
        BY <1>3, <1>5, <3>1, <3>2 DEF Standing
      <3> QED BY <1>1, <2>2, <3>3 DEF PutsOK
    <2> QED BY <2>1, <2>2
  <1>9. Ledgered(u, ob2)
    <2> SUFFICES ASSUME NEW q \in Operations, NEW i \in 1..Objects, ob2[Key(q, i)] = q
                 PROVE  u.op[q].phase # "None" /\ i <= u.op[q].staged
      BY DEF Ledgered
    <2>1. Key(q, i) \in Keys
      BY KeyFacts
    <2>2. CASE Key(q, i) = k
      <3>1. q = p.op /\ i = p.object
        BY <1>4, <2>2, KeyFacts DEF k
      <3> QED BY <1>2, <3>1
    <2>3. CASE Key(q, i) # k
      BY <1>1, <1>4, <2>1, <2>3 DEF Ledgered
    <2> QED BY <2>2, <2>3
  <1>10. WorkerOK(d, u, ob2, w, em)
    <2>1. ASSUME w.pc \in {"publish", "cleanup", "batch"}, NEW i \in 1..BatchEnd(w.row),
                 w.row.swept < w.row.staged, Gone(w.op, i, ob, em)
          PROVE  Gone(w.op, i, ob2, em)
      <3>1. /\ w.op \in Operations /\ w.row = d.op[w.op]
        BY <1>1, <2>1 DEF WorkerOK
      <3>2. /\ w.row.staged \in Nat /\ w.row.staged <= Objects /\ w.row.swept \in Nat
        BY <1>1, <3>1, RowFields
      <3>3. i \in 1..Objects
        BY <2>1, <3>2, PlanFacts, PublicationAssumption DEF BatchEnd
      <3>4. Key(w.op, i) \in Keys
        BY <3>1, <3>3, KeyFacts
      <3> QED BY <1>3, <1>5, <2>1, <3>4 DEF Gone
    <2>2. w.pc \in {"publish", "cleanup"} =>
            /\ w.row.swept < w.row.staged
            /\ \A i \in 1..w.at : i \in 1..BatchEnd(w.row)
      <3> SUFFICES ASSUME w.pc \in {"publish", "cleanup"}
                   PROVE  /\ w.row.swept < w.row.staged
                          /\ \A i \in 1..w.at : i \in 1..BatchEnd(w.row)
        OBVIOUS
      <3>1. /\ w.op \in Operations /\ w.row = d.op[w.op] /\ w.row.swept < w.row.staged
            /\ w.at \in (w.row.swept + 1)..BatchEnd(w.row)
        BY <1>1 DEF WorkerOK
      <3>2. BatchEnd(w.row) \in Nat /\ w.row.swept \in Nat
        <4>1. w.row.staged \in Nat /\ w.row.swept \in Nat
          BY <1>1, <3>1, RowFields
        <4> QED BY <4>1, PublicationAssumption DEF BatchEnd
      <3> QED BY <3>1, <3>2
    <2> QED BY <1>1, <2>1, <2>2 DEF WorkerOK
  <1> QED BY <1>0, <1>1, <1>4, <1>7, <1>8, <1>9, <1>10 DEF AllOK

(* The operations of a revision no one counts on in the store d.           *)
Given(d, r) ==
    \A q \in Operations : Rev(q) = r => d.op[q].phase \notin LivePhases \cup {"Published"}

(* While an operation is being cleaned up it holds its revision, so that   *)
(* no operation of the revision is live or published.                      *)
LEMMA HeldIsGiven ==
    ASSUME plan \in Plans, NEW d, StoreOK(d), NEW o \in Operations,
           d.op[o].phase \in {"Cleaning", "Quarantined"}
    PROVE  Given(d, Rev(o))
  <1> SUFFICES ASSUME NEW q \in Operations, Rev(q) = Rev(o),
                      d.op[q].phase \in LivePhases \cup {"Published"}
               PROVE  FALSE
    BY DEF Given
  <1>1. d.claim[Rev(o)] = o /\ Rev(o) \in Revisions /\ None \notin Operations
    BY PlanFacts DEF StoreOK, RowOK, Holding, ActivePhases
  <1>2. CASE d.op[q].phase \in LivePhases
    <2>1. d.claim[Rev(q)] = q
      BY <1>2, RowTypes DEF StoreOK, RowOK
    <2> QED BY <1>1, <1>2, <2>1 DEF LivePhases
  <1>3. CASE d.op[q].phase = "Published"
    <2>1. d.revision[Rev(q)] = q
      BY <1>3 DEF StoreOK, RowOK
    <2> QED BY <1>1, <2>1 DEF StoreOK
  <1> QED BY <1>2, <1>3

(* Keys of the revision of o are emptied: an append's are sealed and any   *)
(* other's hold nothing.                                                   *)
EmptiedOf(o, ob, ob2) ==
    /\ ob2 \in [Keys -> Operations \cup {None, "Sealed"}]
    /\ \A q \in Operations : \A i \in 1..Objects :
          ob2[Key(q, i)] # ob[Key(q, i)] =>
            /\ Rev(q) = Rev(o)
            /\ ob2[Key(q, i)] = IF IsAppend(q) THEN "Sealed" ELSE None

(* The invariant does not count on keys of a revision given up.            *)
LEMMA EmptyStep ==
    ASSUME plan \in Plans, NEW d, NEW u, NEW ob, NEW ps, NEW dm, NEW w, NEW ac,
           NEW sk, NEW em,
           AllOK(d, u, ob, ps, dm, w, ac, sk, em), NEW o \in Operations, NEW ob2, NEW dm2, NEW w2,
           NEW em2, em \subseteq em2,
           Given(d, Rev(o)), Given(u, Rev(o)), EmptiedOf(o, ob, ob2),
           DoomedOK(u, dm2), WorkerOK(d, u, ob2, w2, em2)
    PROVE  AllOK(d, u, ob2, ps, dm2, w2, ac, sk, em2)
  <1> USE DEF EmptiedOf
  <1>1. /\ StoreOK(d) /\ StoreOK(u) /\ UploadsKept(d, ob, sk) /\ SweptEmpty(d, ob, em)
        /\ UploadsKept(u, ob, sk) /\ SweptEmpty(u, ob, em)
        /\ PutsOK(d, u, ob, ps, sk) /\ Ledgered(u, ob)
    BY DEF AllOK
  <1>2. ASSUME NEW x, StoreOK(x), Given(x, Rev(o)), UploadsKept(x, ob, sk), SweptEmpty(x, ob, em)
        PROVE  UploadsKept(x, ob2, sk) /\ SweptEmpty(x, ob2, em2)
    <2>1. ASSUME NEW q \in Operations, x.op[q].phase \in LivePhases \cup {"Published"},
                 NEW i \in 1..x.op[q].uploaded
          PROVE  Standing(q, i, ob2, sk)
      <3>1. i \in 1..Objects
        BY <1>2, RowFields, PlanFacts
      <3>2. Rev(q) # Rev(o)
        BY <1>2, <2>1 DEF Given
      <3>3. Standing(q, i, ob, sk)
        BY <1>2, <2>1 DEF UploadsKept
      <3> QED BY <3>1, <3>2, <3>3 DEF Standing
    <2>2. ASSUME NEW q \in Operations, NEW i \in 1..x.op[q].swept
          PROVE  Gone(q, i, ob2, em2)
      <3>1. i \in 1..Objects
        BY <1>2, RowFields, PlanFacts
      <3>2. Gone(q, i, ob, em)
        BY <1>2, <2>2 DEF SweptEmpty
      <3> QED BY <2>2, <3>1, <3>2 DEF Gone
    <2> QED BY <2>1, <2>2 DEF UploadsKept, SweptEmpty
  <1>3. PutsOK(d, u, ob2, ps, sk)
    <2>1. ASSUME NEW p \in ps, d.op[p.op].phase \in LivePhases,
                 p.op \in Operations, p.object \in 1..Objects
          PROVE  ob2[Key(p.op, p.object)] = ob[Key(p.op, p.object)]
      BY <2>1 DEF Given
    <2> QED BY <1>1, <2>1 DEF PutsOK, Standing
  <1>4. Ledgered(u, ob2)
    <2> SUFFICES ASSUME NEW q \in Operations, NEW i \in 1..Objects, ob2[Key(q, i)] = q
                 PROVE  u.op[q].phase # "None" /\ i <= u.op[q].staged
      BY DEF Ledgered
    <2>1. ob[Key(q, i)] = q
      BY PlanFacts
    <2> QED BY <1>1, <2>1 DEF Ledgered
  <1> QED BY <1>1, <1>2, <1>3, <1>4 DEF AllOK

(* What the provider does with the key of an operation it empties.         *)
LEMMA EmptiedFacts ==
    ASSUME plan \in Plans, objects \in [Keys -> Operations \cup {None, "Sealed"}],
           NEW o \in Operations, NEW j \in 1..Objects, NEW ob2, ob2 = Emptied(Key(o, j))
    PROVE  /\ EmptiedOf(o, objects, ob2)
           /\ ob2[Key(o, j)] = IF IsAppend(o) THEN "Sealed" ELSE None
           /\ \A x \in Keys : x # Key(o, j) => ob2[x] = objects[x]
  <1> DEFINE v == IF \E q \in Operations : IsAppend(q) /\ Rev(q) = Rev(o)
                  THEN "Sealed" ELSE None
             k == Key(o, j)
  <1>1. k \in Keys /\ k[1] = Rev(o)
    BY KeyFacts
  <1>2. ob2 = [objects EXCEPT ![k] = v]
    BY <1>1 DEF Emptied
  <1>3. \A q \in Operations : Rev(q) = Rev(o) => v = IF IsAppend(q) THEN "Sealed" ELSE None
    BY PlanFacts
  <1>4. v \in {None, "Sealed"}
    OBVIOUS
  <1> HIDE DEF v, k
  <1>5. ob2[k] = v /\ \A x \in Keys : x # k => ob2[x] = objects[x]
    BY <1>1, <1>2
  <1>6. ASSUME NEW q \in Operations, NEW i \in 1..Objects
        PROVE  /\ Key(q, i) \in Keys
               /\ Key(q, i) = k => Rev(q) = Rev(o)
    BY KeyFacts DEF k
  <1>7. ob2 \in [Keys -> Operations \cup {None, "Sealed"}]
    BY <1>2, <1>4
  <1>8. ob2[Key(o, j)] = IF IsAppend(o) THEN "Sealed" ELSE None
    BY <1>3, <1>5 DEF k
  <1>9. EmptiedOf(o, objects, ob2)
    BY <1>3, <1>5, <1>6, <1>7 DEF EmptiedOf
  <1> QED BY <1>5, <1>8, <1>9 DEF k

(* A late cleanup of o strikes its key j: if it finds a body there, of     *)
(* whatever operation, the key is struck from then on.                     *)
Strikes(o, j, ob, ob2, sk, sk2) ==
    /\ EmptiedOf(o, ob, ob2)
    /\ \A x \in Keys : x # Key(o, j) => ob2[x] = ob[x]
    /\ sk \subseteq sk2 /\ sk2 \subseteq sk \cup {Key(o, j)}
    /\ ob[Key(o, j)] \in Operations => Key(o, j) \in sk2

LEMMA StrikeStep ==
    ASSUME plan \in Plans, NEW d, NEW u, NEW ob, NEW ps, NEW dm, NEW w, NEW ac,
           NEW sk, NEW em,
           AllOK(d, u, ob, ps, dm, w, ac, sk, em), NEW o \in Operations, NEW j \in 1..Objects,
           u.op[o].phase \in Ended, NEW ob2, NEW sk2, Strikes(o, j, ob, ob2, sk, sk2),
           NEW dm2, dm2 \subseteq dm, WorkerOK(d, u, ob2, w, em)
    PROVE  AllOK(d, u, ob2, ps, dm2, w, ac, sk2, em)
  <1>0. /\ EmptiedOf(o, ob, ob2) /\ \A x \in Keys : x # Key(o, j) => ob2[x] = ob[x]
        /\ sk \subseteq sk2 /\ sk2 \subseteq sk \cup {Key(o, j)}
        /\ ob[Key(o, j)] \in Operations => Key(o, j) \in sk2
    BY DEF Strikes
  <1>1. /\ StoreOK(d) /\ StoreOK(u) /\ UploadsKept(d, ob, sk) /\ SweptEmpty(d, ob, em)
        /\ UploadsKept(u, ob, sk) /\ SweptEmpty(u, ob, em)
        /\ PutsOK(d, u, ob, ps, sk) /\ Ledgered(u, ob) /\ DoomedOK(u, dm) /\ DoomedOK(u, sk)
    BY DEF AllOK
  <1>2. ASSUME NEW q \in Operations, NEW i \in 1..Objects
        PROVE  /\ Standing(q, i, ob, sk) => Standing(q, i, ob2, sk2)
               /\ Gone(q, i, ob, em) => Gone(q, i, ob2, em)
    <2>1. Key(q, i) \in Keys
      BY KeyFacts
    <2>2. Standing(q, i, ob, sk) => Standing(q, i, ob2, sk2)
      BY <1>0, <2>1 DEF Standing
    <2>3. Gone(q, i, ob, em) => Gone(q, i, ob2, em)
      BY <1>0 DEF Gone, EmptiedOf
    <2> QED BY <2>2, <2>3
  <1>3. ASSUME NEW x, StoreOK(x), UploadsKept(x, ob, sk), SweptEmpty(x, ob, em)
        PROVE  UploadsKept(x, ob2, sk2) /\ SweptEmpty(x, ob2, em)
    <2>1. \A q \in Operations :
            /\ \A i \in 1..x.op[q].uploaded : i \in 1..Objects
            /\ \A i \in 1..x.op[q].swept : i \in 1..Objects
      BY <1>3, RowFields, PlanFacts
    <2> QED BY <1>2, <1>3, <2>1 DEF UploadsKept, SweptEmpty
  <1>4. PutsOK(d, u, ob2, ps, sk2)
    BY <1>1, <1>2 DEF PutsOK
  <1>5. Ledgered(u, ob2)
    <2> SUFFICES ASSUME NEW q \in Operations, NEW i \in 1..Objects, ob2[Key(q, i)] = q
                 PROVE  u.op[q].phase # "None" /\ i <= u.op[q].staged
      BY DEF Ledgered
    <2>1. ob[Key(q, i)] = q
      BY <1>0, PlanFacts DEF EmptiedOf
    <2> QED BY <1>1, <2>1 DEF Ledgered
  <1>6. DoomedOK(u, dm2) /\ DoomedOK(u, sk2)
    BY <1>0, <1>1 DEF DoomedOK
  <1>7. ob2 \in [Keys -> Operations \cup {None, "Sealed"}]
    BY <1>0 DEF EmptiedOf
  <1> QED BY <1>1, <1>3, <1>4, <1>5, <1>6, <1>7 DEF AllOK

(* A successor takes over what was durable.                                *)
LEMMA RecoverStep ==
    ASSUME plan \in Plans, NEW d, NEW u, NEW ob, NEW ps, NEW dm, NEW w, NEW ac,
           NEW sk, NEW em,
           AllOK(d, u, ob, ps, dm, w, ac, sk, em), NEW behind \in BOOLEAN, NEW d2,
           d2 = [u EXCEPT !.op = [o \in Operations |->
                   [@[o] EXCEPT !.fresh = behind /\ u.op[o].phase \in LivePhases]]],
           NEW dm2, DoomedOK(u, dm2)
    PROVE  AllOK(d2, u, ob, {[p EXCEPT !.at = "late"] : p \in {q \in ps : q.at # "stored"}},
                 dm2, Idle, ac, sk, em)
  <1>1. /\ StoreOK(u) /\ UploadsKept(u, ob, sk) /\ SweptEmpty(u, ob, em)
        /\ PutsOK(d, u, ob, ps, sk)
    BY DEF AllOK
  <1> DEFINE f == [o \in Operations |->
                     [u.op[o] EXCEPT !.fresh = behind /\ u.op[o].phase \in LivePhases]]
  <1>2. u \in Stores /\ u.op \in [Operations -> OpRows] /\ d2 = [u EXCEPT !.op = f]
    BY <1>1 DEF StoreOK, Stores
  <1>3. ASSUME NEW row \in OpRows, NEW new \in BOOLEAN,
               NEW c, c = [row EXCEPT !.fresh = new]
        PROVE  /\ c \in OpRows /\ c.phase = row.phase /\ c.staged = row.staged
               /\ c.uploaded = row.uploaded /\ c.manifest = row.manifest
               /\ c.swept = row.swept
    BY <1>3 DEF OpRows
  <1>4. ASSUME NEW o \in Operations
        PROVE  /\ f[o] \in OpRows
               /\ f[o].phase = u.op[o].phase /\ f[o].staged = u.op[o].staged
               /\ f[o].uploaded = u.op[o].uploaded
               /\ f[o].manifest = u.op[o].manifest /\ f[o].swept = u.op[o].swept
    <2>1. PICK new \in BOOLEAN : new = (behind /\ u.op[o].phase \in LivePhases)
      OBVIOUS
    <2>2. u.op[o] \in OpRows /\ f[o] = [u.op[o] EXCEPT !.fresh = new]
      BY <1>2, <2>1
    <2>3. PICK row \in OpRows : row = u.op[o]
      BY <2>2
    <2>4. PICK c : c = [row EXCEPT !.fresh = new]
      OBVIOUS
    <2>5. /\ c \in OpRows /\ c.phase = row.phase /\ c.staged = row.staged
          /\ c.uploaded = row.uploaded /\ c.manifest = row.manifest
          /\ c.swept = row.swept
      BY <1>3, <2>4
    <2>6. f[o] = c
      BY <2>2, <2>3, <2>4
    <2> HIDE DEF f
    <2> QED BY <2>3, <2>5, <2>6
  <1>5. f \in [Operations -> OpRows]
    BY <1>4
  <1> HIDE DEF f
  <1>6. /\ d2 \in Stores /\ d2.op = f
        /\ d2.claim = u.claim /\ d2.revision = u.revision
        /\ d2.manifest = u.manifest /\ d2.parent = u.parent
    BY <1>2, <1>5 DEF Stores
  <1>7. \A o \in Operations :
          /\ d2.op[o].phase = u.op[o].phase /\ d2.op[o].staged = u.op[o].staged
          /\ d2.op[o].uploaded = u.op[o].uploaded
          /\ d2.op[o].manifest = u.op[o].manifest /\ d2.op[o].swept = u.op[o].swept
    BY <1>4, <1>6
  <1>8. StoreOK(d2)
    BY <1>1, <1>6, <1>7, SameStore DEF SameRows
  <1>9. \A q \in Operations : Later(u.op[q], d2.op[q])
    BY <1>1, <1>7, LaterFacts, RowFields
  <1>10. UploadsKept(d2, ob, sk) /\ SweptEmpty(d2, ob, em) /\ CleanupDurable(d2, u)
    BY <1>1, <1>7 DEF UploadsKept, SweptEmpty, CleanupDurable
  <1>11. PutsOK(d2, u, ob, {[p EXCEPT !.at = "late"] : p \in {q \in ps : q.at # "stored"}}, sk)
    <2>1. ASSUME NEW p \in ps, NEW z, z = [p EXCEPT !.at = "late"]
          PROVE  /\ z.op \in Operations /\ z.object \in 1..Objects
                 /\ z = [op |-> z.op, object |-> z.object, at |-> z.at]
                 /\ z.at = "late"
                 /\ u.op[z.op].phase # "None" /\ z.object <= u.op[z.op].staged
      <3>1. /\ p.op \in Operations /\ p.object \in 1..Objects
            /\ p = [op |-> p.op, object |-> p.object, at |-> p.at]
            /\ u.op[p.op].phase # "None" /\ p.object <= u.op[p.op].staged
        BY <1>1 DEF PutsOK
      <3>2. z = [op |-> p.op, object |-> p.object, at |-> "late"]
        BY <2>1, <3>1
      <3> QED BY <3>1, <3>2
    <2> QED BY <2>1 DEF PutsOK
  <1>12. WorkerOK(d2, u, ob, Idle, em)
    BY DEF WorkerOK, Idle
  <1> QED BY <1>8, <1>9, <1>10, <1>11, <1>12 DEF AllOK

(* The plan never changes, so neither does what the invariant says of the  *)
(* values of the other variables.                                          *)
LEMMA PlanFixed ==
    ASSUME plan \in Plans, plan' = plan, NEW d, NEW u, NEW ob, NEW ps, NEW dm, NEW w, NEW ac,
           NEW sk, NEW em,
           AllOK(d, u, ob, ps, dm, w, ac, sk, em)
    PROVE  AllOK(d, u, ob, ps, dm, w, ac, sk, em)'
  <1>1. /\ Operations' = Operations /\ Revisions' = Revisions /\ Objects' = Objects
        /\ Keys' = Keys
    BY DEF Operations, Revisions, Objects, Keys, Rev
  <1>2. \A o : Rev(o)' = Rev(o) /\ (IsAppend(o)' <=> IsAppend(o))
    BY DEF Rev, IsAppend
  <1>3. \A o, i : Key(o, i)' = Key(o, i)
    BY <1>2 DEF Key
  <1>4. OpRows' = OpRows
    BY <1>1 DEF OpRows
  <1>5. Stores' = Stores
    BY <1>1, <1>4 DEF Stores
  <1>6. ASSUME NEW x, StoreOK(x) PROVE StoreOK(x)'
    <2>1. \A o \in Operations : RowOK(x, o)'
      <3> TAKE o \in Operations
      <3>1. RowOK(x, o)
        BY <1>6 DEF StoreOK
      <3>2. (Rev(o)' = Rev(o)) /\ (IsAppend(o)' <=> IsAppend(o)) /\ Objects' = Objects
            /\ plan.attempt[o]' = plan.attempt[o]
        BY <1>1, <1>2
      <3> QED BY <3>1, <3>2 DEF RowOK
    <2> QED BY <1>1, <1>2, <1>5, <1>6, <2>1 DEF StoreOK
  <1>7. /\ \A x : UploadsKept(x, ob, sk) => UploadsKept(x, ob, sk)'
        /\ \A x : SweptEmpty(x, ob, em) => SweptEmpty(x, ob, em)'
    BY <1>1, <1>2, <1>3 DEF UploadsKept, SweptEmpty, Standing, Gone
  <1>8. CleanupDurable(d, u) => CleanupDurable(d, u)'
    BY <1>1 DEF CleanupDurable
  <1>9. PutsOK(d, u, ob, ps, sk) => PutsOK(d, u, ob, ps, sk)'
    BY <1>1, <1>3 DEF PutsOK, Standing
  <1>10. Ledgered(u, ob) => Ledgered(u, ob)'
    BY <1>1, <1>3 DEF Ledgered
  <1>11. /\ DoomedOK(u, dm) => DoomedOK(u, dm)'
         /\ DoomedOK(u, sk) => DoomedOK(u, sk)'
    BY <1>1, <1>3 DEF DoomedOK
  <1>12. WorkerOK(d, u, ob, w, em) => WorkerOK(d, u, ob, w, em)'
    BY <1>1, <1>2, <1>3, <1>4 DEF WorkerOK, Gone
  <1> QED BY <1>1, <1>6, <1>7, <1>8, <1>9, <1>10, <1>11, <1>12 DEF AllOK

LEMMA Concluded ==
    ASSUME IInv, plan' = plan,
           AllOK(db', durable', objects', puts', doomed', worker', acked', struck', emptied')
    PROVE  IInv'
  <1> PICK d, u, ob, ps, dm, w, ac, sk, em :
        /\ d = db' /\ u = durable' /\ ob = objects' /\ ps = puts' /\ dm = doomed'
        /\ w = worker' /\ ac = acked' /\ sk = struck' /\ em = emptied'
    OBVIOUS
  <1>1. plan \in Plans
    BY DEF IInv
  <1>2. AllOK(d, u, ob, ps, dm, w, ac, sk, em)
    OBVIOUS
  <1>3. AllOK(d, u, ob, ps, dm, w, ac, sk, em)'
    BY <1>1, <1>2, PlanFixed
  <1>4. AllOK(db, durable, objects, puts, doomed, worker, acked, struck, emptied)'
    BY <1>3
  <1> QED BY <1>1, <1>4 DEF IInv

-----------------------------------------------------------------------------
(* Steps on the row of one operation.                                      *)

(* Row b is row a but for its phase, and whose and how fresh it is.        *)
Rephased(a, b, phase) ==
    /\ b \in OpRows /\ b.phase = phase
    /\ b.staged = a.staged /\ b.uploaded = a.uploaded /\ b.manifest = a.manifest
    /\ b.swept = a.swept /\ b.sweptRows = a.sweptRows

LEMMA RowEdits ==
    ASSUME plan \in Plans, NEW a \in OpRows
    PROVE  /\ Rephased(a, Renewed(a), a.phase)
           /\ Rephased(a, [a EXCEPT !.fresh = FALSE], a.phase)
           /\ \A ph \in Phases :
                /\ Rephased(a, [a EXCEPT !.phase = ph], ph)
                /\ Rephased(a, [a EXCEPT !.phase = ph, !.fresh = FALSE], ph)
                /\ Rephased(a, [a EXCEPT !.phase = ph, !.retries = @ + 1], ph)
  <1>1. Rephased(a, Renewed(a), a.phase)
    <2>1. CASE a.older
      BY <2>1 DEF Rephased, Renewed, OpRows
    <2>2. CASE ~a.older
      BY <2>2 DEF Rephased, Renewed, OpRows
    <2> QED BY <2>1, <2>2
  <1>2. Rephased(a, [a EXCEPT !.fresh = FALSE], a.phase)
    BY DEF Rephased, OpRows
  <1>3. ASSUME NEW ph \in Phases
        PROVE  /\ Rephased(a, [a EXCEPT !.phase = ph], ph)
               /\ Rephased(a, [a EXCEPT !.phase = ph, !.fresh = FALSE], ph)
               /\ Rephased(a, [a EXCEPT !.phase = ph, !.retries = @ + 1], ph)
    <2>1. Rephased(a, [a EXCEPT !.phase = ph], ph)
      BY DEF Rephased, OpRows
    <2>2. Rephased(a, [a EXCEPT !.phase = ph, !.fresh = FALSE], ph)
      BY DEF Rephased, OpRows
    <2>3. Rephased(a, [a EXCEPT !.phase = ph, !.retries = @ + 1], ph)
      <3>1. PICK c \in Nat : c = a.retries + 1
        BY DEF OpRows
      <3>2. Rephased(a, [a EXCEPT !.phase = ph, !.retries = c], ph)
        BY DEF Rephased, OpRows
      <3> QED BY <3>1, <3>2
    <2> QED BY <2>1, <2>2, <2>3
  <1> QED BY <1>1, <1>2, <1>3

(* The invariant as a set of facts about the state.                        *)
LEMMA InvFacts ==
    ASSUME IInv, NEW o \in Operations
    PROVE  /\ plan \in Plans
           /\ AllOK(db, durable, objects, puts, doomed, worker, acked, struck, emptied)
           /\ StoreOK(db) /\ StoreOK(durable) /\ Later(durable.op[o], db.op[o])
           /\ db \in Stores /\ db.op[o] \in OpRows /\ RowOK(db, o) /\ Rev(o) \in Revisions
           /\ WorkerOK(db, durable, objects, worker, emptied)
           /\ db.op \in [Operations -> OpRows]
           /\ objects \in [Keys -> Operations \cup {None, "Sealed"}]
  BY RowFields, PlanFacts DEF IInv, AllOK, Stores

(* A client, an operator or time changes the row of an operation that the  *)
(* worker is not cleaning up.                                              *)
LEMMA ClientRow ==
    ASSUME IInv, NEW o \in Operations, NEW b \in OpRows,
           StoreOK(db'), db'.op = [db.op EXCEPT ![o] = b],
           Later(db.op[o], b), db.op[o].phase # "Cleaning",
           b.phase \in LivePhases \cup {"Published"} =>
             /\ db.op[o].phase \in LivePhases \cup {"None"}
             /\ db.op[o].phase = "None" => b.uploaded = 0
             /\ \A i \in 1..b.uploaded :
                  i <= db.op[o].uploaded \/ Standing(o, i, objects, struck),
           \A i \in 1..b.swept : i <= db.op[o].swept \/ Gone(o, i, objects, emptied'),
           b.phase = "Quarantined" => db.op[o].phase = "Quarantined",
           UNCHANGED <<plan, durable, objects, doomed, worker, acked, struck>>,
           emptied \subseteq emptied',
           \A p \in puts' : p \in puts \/ \E i \in 1..Objects :
             /\ p = [op |-> o, object |-> i, at |-> "sent"]
             /\ durable.op[o].phase # "None" /\ i <= durable.op[o].staged
    PROVE  IInv'
  <1>1. /\ plan \in Plans
        /\ AllOK(db, durable, objects, puts, doomed, worker, acked, struck, emptied)
        /\ StoreOK(db) /\ WorkerOK(db, durable, objects, worker, emptied)
        /\ db.op \in [Operations -> OpRows]
    BY InvFacts
  <1> PICK em2 : em2 = emptied'
    OBVIOUS
  <1>2. WorkerOK(db', durable, objects, worker, em2)
    <2>1. worker.pc \in {"publish", "cleanup", "batch", "quarantine"} => worker.op # o
      BY <1>1 DEF WorkerOK
    <2>2. WorkerOK(db', durable, objects, worker, emptied)
      BY <1>1, <2>1, WorkerKept
    <2> QED BY <2>2, WorkerGrows
  <1>3. b.phase = "Quarantined" => durable.op[o].phase \in {"Cleaning", "Quarantined"}
    BY <1>1 DEF AllOK, CleanupDurable
  <1>4. \A i \in 1..b.swept : i <= db.op[o].swept \/ Gone(o, i, objects, em2)
    OBVIOUS
  <1> PICK d2, ps2 : d2 = db' /\ ps2 = puts'
    OBVIOUS
  <1>5. AllOK(d2, durable, objects, ps2, doomed, worker, acked, struck, em2)
    BY <1>1, <1>2, <1>3, <1>4, RowStep
  <1> QED BY <1>5, Concluded

(* A phase changes and nothing else of a client's operation.               *)
LEMMA ClientPhase ==
    ASSUME IInv, NEW o \in Operations, NEW b, NEW phase, Rephased(db.op[o], b, phase),
           StoreOK(db'), db'.op = [db.op EXCEPT ![o] = b],
           Later(db.op[o], b), db.op[o].phase # "Cleaning",
           phase \in LivePhases \cup {"Published"} => db.op[o].phase \in LivePhases,
           phase # "Quarantined",
           UNCHANGED <<plan, durable, objects, doomed, worker, acked, struck, emptied>>,
           \A p \in puts' : p \in puts \/ \E i \in 1..Objects :
             /\ p = [op |-> o, object |-> i, at |-> "sent"]
             /\ durable.op[o].phase # "None" /\ i <= durable.op[o].staged
    PROVE  IInv'
  <1>1. /\ b \in OpRows /\ b.phase = phase /\ b.uploaded = db.op[o].uploaded
        /\ b.swept = db.op[o].swept
    BY DEF Rephased
  <1>2. db.op[o].uploaded \in Nat /\ db.op[o].swept \in Nat
    BY InvFacts, RowFields
  <1>3. /\ phase \in LivePhases => db.op[o].phase # "None"
        /\ \A i \in 1..b.uploaded : i <= db.op[o].uploaded
        /\ \A i \in 1..b.swept : i <= db.op[o].swept
    BY <1>1, <1>2 DEF LivePhases
  <1> QED BY <1>1, <1>3, ClientRow DEF LivePhases

LEMMA BeginStep ==
    ASSUME IInv, NEW o \in Operations, Begin(o)
    PROVE  IInv'
  <1> DEFINE r == Rev(o)
             b == [NoOperation EXCEPT !.phase = "Uploading", !.fresh = TRUE,
                                      !.claim = db.generation]
             parent == IF IsAppend(o) THEN [attempt |-> plan.attempt[o], done |-> FALSE]
                       ELSE db.parent
             s == Store(db, o, b)
  <1>1. /\ plan \in Plans /\ StoreOK(db) /\ db \in Stores /\ db.op[o] \in OpRows
        /\ RowOK(db, o) /\ r \in Revisions
    BY InvFacts
  <1>2. /\ db.op[o].phase = "None" /\ db.claim[r] = None /\ db.manifest[r] = 0
        /\ db.revision[r] = None
        /\ db' = [s EXCEPT !.claim[r] = o, !.parent = IF IsAppend(o)
                    THEN [attempt |-> plan.attempt[o], done |-> FALSE] ELSE @]
        /\ UNCHANGED <<plan, durable, objects, doomed, worker, acked, puts, struck, emptied>>
        /\ IsAppend(o) => AppendAdmitted(o)
    BY DEF Begin, Rows, RowsKept
  <1>3. /\ b \in OpRows /\ b.phase = "Uploading" /\ b.staged = 0 /\ b.uploaded = 0
        /\ b.manifest = 0 /\ b.swept = 0
    <2>1. db.generation \in Nat /\ 0 \in 0..Objects /\ "Uploading" \in Phases
      BY <1>1, PlanFacts DEF Stores, Phases, ActivePhases, LivePhases
    <2>2. ASSUME NEW row \in OpRows, NEW g \in Nat, NEW c,
                 c = [row EXCEPT !.phase = "Uploading", !.fresh = TRUE, !.claim = g]
          PROVE  /\ c \in OpRows /\ c.phase = "Uploading" /\ c.staged = row.staged
                 /\ c.uploaded = row.uploaded /\ c.manifest = row.manifest
                 /\ c.swept = row.swept
      BY <2>1, <2>2 DEF OpRows
    <2>3. PICK row \in OpRows : row = NoOperation
      BY <1>1, RowTypes
    <2>4. row.staged = 0 /\ row.uploaded = 0 /\ row.manifest = 0 /\ row.swept = 0
      BY <2>3 DEF NoOperation
    <2>5. PICK g \in Nat : g = db.generation
      BY <2>1
    <2>6. b = [row EXCEPT !.phase = "Uploading", !.fresh = TRUE, !.claim = g]
      BY <2>3, <2>5 DEF b
    <2> HIDE DEF b
    <2> QED BY <2>2, <2>4, <2>6, ZenonT(60)
  <1> HIDE DEF b
  <1>4. /\ s \in Stores /\ s.op = [db.op EXCEPT ![o] = b] /\ s.claim = db.claim
        /\ s.revision = db.revision /\ s.manifest = db.manifest /\ s.parent = db.parent
    BY <1>1, <1>3, StoreFacts
  <1>5. parent \in [attempt : Nat \cup {None}, done : BOOLEAN]
    BY <1>1, PlanFacts DEF Stores
  <1>6. db' = [s EXCEPT !.claim[r] = o, !.parent = parent]
    BY <1>2, <1>4
  <1> HIDE DEF s, parent
  <1>7. /\ db' \in Stores /\ db'.op = [db.op EXCEPT ![o] = b]
        /\ db'.claim = [db.claim EXCEPT ![r] = o] /\ db'.revision = db.revision
        /\ db'.manifest = db.manifest /\ db'.parent = parent
    BY <1>1, <1>4, <1>5, <1>6 DEF Stores
  <1>8. db'.op[o] = b /\ db'.claim[r] = o
        /\ \A x \in Revisions : x # r => db'.claim[x] = db.claim[x]
    BY <1>1, <1>7 DEF Stores
  <1>9. ASSUME NEW q \in Operations, IsAppend(q), db.op[q].phase = "Published"
        PROVE  parent = db.parent
    <2>1. db.parent = [attempt |-> plan.attempt[q], done |-> TRUE]
      BY <1>1, <1>9 DEF StoreOK, RowOK
    <2>2. db.parent.done = TRUE
      BY <2>1
    <2>3. CASE IsAppend(o)
      <3>1. \E n : db.parent = [attempt |-> n, done |-> FALSE]
        BY <1>2, <2>3 DEF AppendAdmitted, NoParent
      <3>2. db.parent.done = FALSE
        BY <3>1
      <3> QED BY <2>2, <3>2
    <2>4. CASE ~IsAppend(o)
      BY <2>4 DEF parent
    <2> QED BY <2>3, <2>4
  <1>10. RowOK(db', o)
    <2>1. b.phase \notin {"None", "Finalizing", "Published", "Cleaned"}
      BY <1>3
    <2> QED BY <1>2, <1>3, <1>7, <1>8, <2>1 DEF RowOK
  <1>11. StoreOK(db')
    <2> PICK d2 : d2 = db'
      OBVIOUS
    <2>1. /\ d2 \in Stores /\ d2.op = [db.op EXCEPT ![o] = b] /\ RowOK(d2, o)
          /\ \A x \in Revisions : x # Rev(o) =>
               /\ d2.claim[x] = db.claim[x] /\ d2.revision[x] = db.revision[x]
               /\ d2.manifest[x] = db.manifest[x]
          /\ db.claim[Rev(o)] = None
          /\ d2.revision[Rev(o)] = db.revision[Rev(o)] /\ d2.revision[Rev(o)] = None
          /\ d2.manifest[Rev(o)] = db.manifest[Rev(o)]
          /\ \A q \in Operations :
               IsAppend(q) /\ db.op[q].phase = "Published" => d2.parent = db.parent
          /\ db.op[o].phase # "Published"
      BY <1>2, <1>7, <1>8, <1>9, <1>10
    <2>2. Exchanged(db, d2, o, b)
      BY <1>3, <2>1 DEF Exchanged
    <2>3. StoreOK(d2)
      BY <1>1, <2>2, StoreStep
    <2> QED BY <2>3
  <1>12. Later(db.op[o], b)
    BY <1>1, <1>2, <1>3 DEF Later, Ended, RowOK
  <1>13. \A i \in 1..b.swept : i <= db.op[o].swept
    BY <1>3
  <1> QED BY <1>2, <1>3, <1>7, <1>11, <1>12, <1>13, ClientRow

(* What a heartbeat knows of its operation.                                *)
LEMMA LiveFacts ==
    ASSUME IInv, NEW o \in Operations, db.op[o].phase \in LivePhases
    PROVE  /\ db.claim[Rev(o)] = o /\ db.revision[Rev(o)] = None
           /\ db.manifest[Rev(o)] = db.op[o].manifest
           /\ db.op[o].phase \notin {"None", "Published", "Cleaned", "Cleaning",
                                     "Quarantined", "Aborting"}
           /\ None # o
  <1>1. /\ plan \in Plans /\ StoreOK(db) /\ RowOK(db, o) /\ Rev(o) \in Revisions
    BY InvFacts
  <1>2. db.claim[Rev(o)] = o /\ db.manifest[Rev(o)] = db.op[o].manifest
    BY <1>1, RowTypes DEF RowOK
  <1>3. None # o
    BY <1>1, PlanFacts
  <1> QED BY <1>1, <1>2, <1>3 DEF StoreOK, LivePhases

(* The steps of a client that move counters of a live operation.           *)
LEMMA StageStep ==
    ASSUME IInv, NEW o \in Operations,
           \/ \E n \in 1..Objects : StageObjects(o, n)
           \/ \E i \in 1..Objects : AdmitUpload(o, i)
    PROVE  IInv'
  <1>1. /\ plan \in Plans /\ StoreOK(db) /\ db \in Stores /\ db.op[o] \in OpRows
        /\ RowOK(db, o) /\ Rev(o) \in Revisions /\ Later(durable.op[o], db.op[o])
        /\ StoreOK(durable)
    BY InvFacts
  <1>2. db.op[o].phase \in LivePhases
    BY DEF StageObjects, AdmitUpload, Heartbeat
  <1>3. /\ db.claim[Rev(o)] = o /\ db.revision[Rev(o)] = None
        /\ db.manifest[Rev(o)] = db.op[o].manifest
        /\ db.op[o].phase \notin {"None", "Published", "Cleaned", "Cleaning",
                                  "Quarantined", "Aborting"}
    BY <1>2, LiveFacts
  <1>4. Rephased(db.op[o], Renewed(db.op[o]), db.op[o].phase)
    BY <1>1, RowEdits
  <1>5. /\ db.op[o].staged \in Nat /\ db.op[o].uploaded \in Nat /\ db.op[o].swept \in Nat
        /\ db.op[o].swept <= db.op[o].staged /\ Objects \in Nat
        /\ durable.op[o].staged \in Nat
    BY <1>1, RowFields, PlanFacts
  <1>6. ASSUME NEW n \in 1..Objects, StageObjects(o, n) PROVE IInv'
    <2> PICK a : a = Renewed(db.op[o])
      OBVIOUS
    <2> PICK b : b = [a EXCEPT !.staged = @ + n]
      OBVIOUS
    <2>1. /\ db' = Store(db, o, b)
          /\ UNCHANGED <<plan, durable, objects, doomed, worker, acked, puts, struck, emptied>>
          /\ db.op[o].staged + n <= Objects
      BY <1>6 DEF StageObjects, Rows, RowsKept
    <2>2. /\ a \in OpRows /\ a.phase = db.op[o].phase /\ a.staged = db.op[o].staged
          /\ a.uploaded = db.op[o].uploaded /\ a.manifest = db.op[o].manifest
          /\ a.swept = db.op[o].swept
      BY <1>4 DEF Rephased
    <2>3. /\ b \in OpRows /\ b.phase = db.op[o].phase /\ b.staged = db.op[o].staged + n
          /\ b.uploaded = db.op[o].uploaded /\ b.manifest = db.op[o].manifest
          /\ b.swept = db.op[o].swept
      BY <1>5, <2>1, <2>2 DEF OpRows
    <2>4. /\ db'.op = [db.op EXCEPT ![o] = b] /\ db'.claim = db.claim
          /\ db'.manifest = db.manifest
      BY <1>1, <2>1, <2>3, StoreFacts
    <2>5. db'.op[o] = b
      BY <1>1, <2>4 DEF Stores
    <2>6. RowOK(db', o)
      BY <1>1, <1>3, <1>5, <2>3, <2>4, <2>5 DEF RowOK
    <2>7. StoreOK(db')
      BY <1>1, <1>3, <2>1, <2>3, <2>6, PlainStep
    <2>8. Later(db.op[o], b)
      BY <1>3, <1>5, <2>3 DEF Later, Ended
    <2>9. /\ \A j \in 1..b.uploaded : j <= db.op[o].uploaded
          /\ \A j \in 1..b.swept : j <= db.op[o].swept
      BY <1>5, <2>3
    <2> QED BY <2>9, <1>2, <1>3, <1>5, <2>1, <2>3, <2>4, <2>7, <2>8, ClientRow
  <1>7. ASSUME NEW i \in 1..Objects, AdmitUpload(o, i) PROVE IInv'
    <2> PICK b : b = Renewed(db.op[o])
      OBVIOUS
    <2>1. /\ db' = Store(db, o, b)
          /\ UNCHANGED <<plan, durable, objects, doomed, worker, acked, struck, emptied>>
          /\ puts' = puts \cup {[op |-> o, object |-> i, at |-> "sent"]}
          /\ i <= db.op[o].staged
          /\ TokenHeld(o)
      BY <1>7 DEF AdmitUpload, Rows, RowsKept
    <2>2. durable.op[o].phase # "None" /\ i <= durable.op[o].staged
      <3>1. durable.op[o] \in OpRows
        BY <1>1, RowFields
      <3>2. durable.op[o].phase = db.op[o].phase /\ durable.op[o].staged = db.op[o].staged
        BY <2>1, <3>1 DEF TokenHeld, OpRows
      <3> QED BY <1>3, <2>1, <3>2
    <2>3. /\ b \in OpRows /\ b.phase = db.op[o].phase /\ b.staged = db.op[o].staged
          /\ b.uploaded = db.op[o].uploaded /\ b.manifest = db.op[o].manifest
          /\ b.swept = db.op[o].swept
      BY <1>4 DEF Rephased
    <2>4. /\ db'.op = [db.op EXCEPT ![o] = b] /\ db'.claim = db.claim
          /\ db'.manifest = db.manifest
      BY <1>1, <2>1, <2>3, StoreFacts
    <2>5. db'.op[o] = b
      BY <1>1, <2>4 DEF Stores
    <2>6. RowOK(db', o)
      BY <1>1, <1>3, <2>3, <2>4, <2>5 DEF RowOK
    <2>7. StoreOK(db')
      BY <1>1, <1>3, <2>1, <2>3, <2>6, PlainStep
    <2>8. Later(db.op[o], b)
      BY <1>5, <2>3, LaterFacts
    <2>9. /\ \A j \in 1..b.uploaded : j <= db.op[o].uploaded
          /\ \A j \in 1..b.swept : j <= db.op[o].swept
      BY <1>5, <2>3
    <2> QED BY <1>2, <1>3, <1>5, <2>1, <2>2, <2>3, <2>4, <2>7, <2>8, <2>9, ClientRow
  <1> QED BY <1>6, <1>7

(* The changes of phase that leave the claim where it is.                  *)
PhaseMoves ==
    {<<"Uploading", "Uploading">>, <<"Uploading", "Finalizing">>,
     <<"Finalizing", "Finalizing">>, <<"Uploading", "Aborting">>,
     <<"Finalizing", "Aborting">>, <<"Aborting", "Cleaning">>,
     <<"Cleaning", "Quarantined">>, <<"Quarantined", "Cleaning">>}

LEMMA PhaseStep ==
    ASSUME plan \in Plans, NEW d, StoreOK(d), NEW o \in Operations, NEW b, NEW phase,
           Rephased(d.op[o], b, phase), <<d.op[o].phase, phase>> \in PhaseMoves,
           phase = "Finalizing" => b.uploaded = Objects /\ b.manifest = ManifestRows
    PROVE  /\ StoreOK(Store(d, o, b)) /\ Later(d.op[o], b)
           /\ Store(d, o, b).op = [d.op EXCEPT ![o] = b]
  <1> PICK d2 : d2 = Store(d, o, b)
    OBVIOUS
  <1>1. /\ d \in Stores /\ d.op[o] \in OpRows /\ RowOK(d, o) /\ d.op[o].staged \in Nat
        /\ d.op[o].swept <= d.op[o].staged
    BY RowFields
  <1>2. /\ b \in OpRows /\ b.phase = phase /\ b.staged = d.op[o].staged
        /\ b.manifest = d.op[o].manifest /\ b.swept = d.op[o].swept
    BY DEF Rephased
  <1>3. /\ d2.op = [d.op EXCEPT ![o] = b] /\ d2.claim = d.claim
        /\ d2.manifest = d.manifest
    BY <1>1, <1>2, StoreFacts
  <1>4. d2.op[o] = b
    BY <1>1, <1>3 DEF Stores
  <1>5. /\ d.op[o].phase \in Holding
        /\ phase \in LivePhases => d.op[o].phase \in LivePhases
        /\ phase \notin {"None", "Published", "Cleaned"}
        /\ d.op[o].phase \notin {"None", "Published", "Cleaned"}
    BY DEF PhaseMoves, Holding, ActivePhases, LivePhases
  <1>6. RowOK(d2, o)
    BY <1>1, <1>2, <1>3, <1>4, <1>5 DEF RowOK
  <1>7. StoreOK(d2)
    BY <1>2, <1>5, <1>6, PlainStep
  <1>8. Later(d.op[o], b)
    BY <1>1, <1>2 DEF PhaseMoves, Later, Ended
  <1> QED BY <1>3, <1>7, <1>8

LEMMA PhaseTypes ==
    /\ {"Uploading", "Finalizing", "Published", "Aborting", "Cleaning", "Quarantined",
        "Cleaned"} \subseteq Phases
    /\ LivePhases = {"Uploading", "Finalizing"}
  BY DEF Phases, ActivePhases, LivePhases

(* The client's own changes of phase, and the deadline that passes.        *)
LEMMA ClientPhases ==
    ASSUME IInv, NEW o \in Operations,
           \/ BeginFinalization(o)
           \/ FailAppendConflict(o)
           \/ AbortPublish(o)
           \/ RetryAppendCleanup(o)
    PROVE  IInv'
  <1>1. plan \in Plans /\ StoreOK(db) /\ db.op[o] \in OpRows
    BY InvFacts
  <1>2. ASSUME NEW b, NEW phase, Rephased(db.op[o], b, phase), db' = Store(db, o, b),
               <<db.op[o].phase, phase>> \in PhaseMoves,
               phase = "Finalizing" => b.uploaded = Objects /\ b.manifest = ManifestRows,
               phase # "Quarantined", db.op[o].phase # "Cleaning",
               UNCHANGED <<plan, durable, objects, doomed, worker, acked, puts, struck, emptied>>
        PROVE  IInv'
    <2>1. /\ StoreOK(db') /\ Later(db.op[o], b) /\ db'.op = [db.op EXCEPT ![o] = b]
      BY <1>1, <1>2, PhaseStep
    <2>2. phase \in LivePhases \cup {"Published"} => db.op[o].phase \in LivePhases
      BY <1>2 DEF PhaseMoves, LivePhases
    <2> QED BY <1>2, <2>1, <2>2, ClientPhase
  <1>3. CASE BeginFinalization(o)
    <2> PICK a : a = Renewed(db.op[o])
      OBVIOUS
    <2> PICK b : b = [a EXCEPT !.phase = "Finalizing"]
      OBVIOUS
    <2>1. /\ db.op[o].phase = "Uploading"
          /\ db.op[o].uploaded = Objects /\ db.op[o].manifest = ManifestRows
          /\ db' = Store(db, o, b)
          /\ UNCHANGED <<plan, durable, objects, doomed, worker, acked, puts, struck, emptied>>
      BY <1>3 DEF BeginFinalization, Rows, RowsKept
    <2>2. Rephased(db.op[o], a, "Uploading")
      BY <1>1, <2>1, RowEdits
    <2>3. Rephased(a, b, "Finalizing")
      <3>1. a \in OpRows /\ "Finalizing" \in Phases
        BY <2>2, PhaseTypes DEF Rephased
      <3> QED BY <1>1, <3>1, RowEdits
    <2>4. Rephased(db.op[o], b, "Finalizing")
      BY <2>2, <2>3 DEF Rephased
    <2>5. b.uploaded = Objects /\ b.manifest = ManifestRows
      BY <2>1, <2>4 DEF Rephased
    <2> QED BY <1>2, <2>1, <2>4, <2>5 DEF PhaseMoves
  <1>4. CASE FailAppendConflict(o) \/ AbortPublish(o)
    <2> PICK b : b = [db.op[o] EXCEPT !.phase = "Aborting", !.fresh = FALSE]
      OBVIOUS
    <2>1. /\ db.op[o].phase \in {"Uploading", "Finalizing"}
          /\ db' = Store(db, o, b)
          /\ UNCHANGED <<plan, durable, objects, doomed, worker, acked, puts, struck, emptied>>
      <3>1. CASE FailAppendConflict(o)
        BY <3>1 DEF FailAppendConflict, Rows, RowsKept
      <3>2. CASE AbortPublish(o)
        BY <3>2 DEF AbortPublish, Rows, RowsKept
      <3> QED BY <1>4, <3>1, <3>2
    <2>2. Rephased(db.op[o], b, "Aborting")
      BY <1>1, RowEdits, PhaseTypes
    <2>3. <<db.op[o].phase, "Aborting">> \in PhaseMoves
      BY <2>1 DEF PhaseMoves
    <2> QED BY <1>2, <2>1, <2>2, <2>3
  <1>5. CASE RetryAppendCleanup(o)
    <2> PICK b : b = [db.op[o] EXCEPT !.phase = "Cleaning", !.retries = @ + 1]
      OBVIOUS
    <2>1. /\ db.op[o].phase = "Quarantined"
          /\ db' = Store(db, o, b)
          /\ UNCHANGED <<plan, durable, objects, doomed, worker, acked, puts, struck, emptied>>
      BY <1>5 DEF RetryAppendCleanup, Rows, RowsKept
    <2>2. Rephased(db.op[o], b, "Cleaning")
      BY <1>1, RowEdits, PhaseTypes
    <2>3. <<"Quarantined", "Cleaning">> \in PhaseMoves
      BY DEF PhaseMoves
    <2> QED BY <1>2, <2>1, <2>2, <2>3
  <1> QED BY <1>3, <1>4, <1>5

LEMMA ExpireStep ==
    ASSUME IInv, NEW o \in Operations, Expire(o)
    PROVE  IInv'
  <1> PICK b : b = [db.op[o] EXCEPT !.fresh = FALSE]
    OBVIOUS
  <1>1. plan \in Plans /\ StoreOK(db) /\ db \in Stores /\ db.op[o] \in OpRows
        /\ db.op \in [Operations -> OpRows]
    BY InvFacts
  <1>2. /\ db.op[o].phase \in LivePhases
        /\ db' = [db EXCEPT !.op = [db.op EXCEPT ![o] = b]]
        /\ UNCHANGED <<plan, durable, objects, doomed, worker, acked, puts, struck, emptied>>
    BY DEF Expire
  <1>3. Rephased(db.op[o], b, db.op[o].phase)
    BY <1>1, RowEdits
  <1>4. b \in OpRows
    BY <1>3 DEF Rephased
  <1>5. /\ db' \in Stores /\ db'.op = [db.op EXCEPT ![o] = b]
        /\ db'.claim = db.claim /\ db'.revision = db.revision
        /\ db'.manifest = db.manifest /\ db'.parent = db.parent
    BY <1>1, <1>2, <1>4 DEF Stores
  <1>6. StoreOK(db')
    <2> PICK u : u = db'
      OBVIOUS
    <2>1. \A q \in Operations :
            /\ u.op[q].phase = db.op[q].phase /\ u.op[q].staged = db.op[q].staged
            /\ u.op[q].uploaded = db.op[q].uploaded
            /\ u.op[q].manifest = db.op[q].manifest /\ u.op[q].swept = db.op[q].swept
      BY <1>1, <1>3, <1>5 DEF Rephased
    <2>2. /\ u \in Stores /\ u.claim = db.claim /\ u.revision = db.revision
          /\ u.manifest = db.manifest /\ u.parent = db.parent
      BY <1>5
    <2>3. SameRows(db, u)
      BY <2>1, <2>2 DEF SameRows
    <2>4. StoreOK(u)
      BY <1>1, <2>3, SameStore
    <2> QED BY <2>4
  <1>7. Later(db.op[o], b)
    <2>1. db.op[o].staged \in Nat
      BY <1>1, RowFields
    <2> QED BY <1>3, <2>1, LaterFacts DEF Rephased
  <1> QED BY <1>2, <1>3, <1>5, <1>6, <1>7, ClientPhase DEF LivePhases

(* The manifest rows of a live operation are counted as they are written.  *)
LEMMA StageManifestStep ==
    ASSUME IInv, NEW o \in Operations, NEW n \in 1..ManifestRows, StageManifest(o, n)
    PROVE  IInv'
  <1> DEFINE r == Rev(o)
  <1> PICK a : a = Renewed(db.op[o])
    OBVIOUS
  <1> PICK b : b = [a EXCEPT !.manifest = @ + n]
    OBVIOUS
  <1> PICK s : s = Store(db, o, b)
    OBVIOUS
  <1>1. /\ plan \in Plans /\ StoreOK(db) /\ db \in Stores /\ db.op[o] \in OpRows
        /\ RowOK(db, o) /\ r \in Revisions
    BY InvFacts
  <1>2. /\ db.op[o].phase = "Uploading" /\ db.op[o].manifest + n <= ManifestRows
        /\ db' = [s EXCEPT !.manifest[r] = @ + n]
        /\ UNCHANGED <<plan, durable, objects, doomed, worker, acked, puts, struck, emptied>>
    BY DEF StageManifest, Rows, RowsKept
  <1>3. /\ db.claim[r] = o /\ db.revision[r] = None
        /\ db.manifest[r] = db.op[o].manifest
    BY <1>2, LiveFacts DEF LivePhases
  <1>4. /\ db.op[o].staged \in Nat /\ db.op[o].uploaded \in Nat /\ db.op[o].swept \in Nat
        /\ db.op[o].swept <= db.op[o].staged /\ db.op[o].manifest \in Nat /\ n \in Nat
        /\ ManifestRows \in Nat
    BY <1>1, RowFields, PublicationAssumption
  <1>5. /\ a \in OpRows /\ a.phase = "Uploading" /\ a.staged = db.op[o].staged
        /\ a.uploaded = db.op[o].uploaded /\ a.manifest = db.op[o].manifest
        /\ a.swept = db.op[o].swept
    BY <1>1, <1>2, RowEdits DEF Rephased
  <1>6. /\ b \in OpRows /\ b.phase = "Uploading" /\ b.staged = db.op[o].staged
        /\ b.uploaded = db.op[o].uploaded /\ b.manifest = db.op[o].manifest + n
        /\ b.swept = db.op[o].swept
    BY <1>4, <1>5 DEF OpRows
  <1>7. /\ s \in Stores /\ s.op = [db.op EXCEPT ![o] = b] /\ s.claim = db.claim
        /\ s.revision = db.revision /\ s.manifest = db.manifest /\ s.parent = db.parent
    BY <1>1, <1>6, StoreFacts
  <1>8. /\ db' \in Stores /\ db'.op = [db.op EXCEPT ![o] = b] /\ db'.claim = db.claim
        /\ db'.revision = db.revision /\ db'.parent = db.parent
        /\ db'.manifest = [db.manifest EXCEPT ![r] = @ + n]
    <2> PICK f : f = [db.manifest EXCEPT ![r] = @ + n]
      OBVIOUS
    <2>1. db' = [s EXCEPT !.manifest = f]
      BY <1>2, <1>7
    <2>2. f \in [Revisions -> Nat]
      <3>1. db.manifest \in [Revisions -> Nat]
        BY <1>1 DEF Stores
      <3>2. db.manifest[r] + n \in Nat
        BY <1>1, <1>4, <3>1
      <3> QED BY <3>1, <3>2
    <2> QED BY <1>7, <2>1, <2>2, ZenonT(60) DEF Stores
  <1>9. /\ db'.op[o] = b /\ db'.manifest[r] = b.manifest
        /\ \A x \in Revisions : x # r => db'.manifest[x] = db.manifest[x]
    BY <1>1, <1>3, <1>6, <1>8 DEF Stores
  <1>10. RowOK(db', o)
    BY <1>3, <1>4, <1>6, <1>8, <1>9 DEF RowOK
  <1>11. StoreOK(db')
    <2> PICK d2 : d2 = db'
      OBVIOUS
    <2>1. Exchanged(db, d2, o, b)
      BY <1>2, <1>3, <1>6, <1>8, <1>9, <1>10 DEF Exchanged
    <2>2. StoreOK(d2)
      BY <1>1, <2>1, StoreStep
    <2> QED BY <2>2
  <1>12. Later(db.op[o], b)
    BY <1>2, <1>4, <1>6, LaterFacts
  <1>13. /\ \A j \in 1..b.uploaded : j <= db.op[o].uploaded
         /\ \A j \in 1..b.swept : j <= db.op[o].swept
    BY <1>4, <1>6
  <1> QED BY <1>2, <1>6, <1>8, <1>11, <1>12, <1>13, ClientRow DEF LivePhases

(* The operation becomes the publisher of its revision.                    *)
LEMMA FinalizeStep ==
    ASSUME IInv, NEW o \in Operations, FinalizePublish(o)
    PROVE  IInv'
  <1> DEFINE r == Rev(o)
             parent == IF IsAppend(o) THEN [db.parent EXCEPT !.done = TRUE] ELSE db.parent
  <1> PICK b : b = [db.op[o] EXCEPT !.phase = "Published", !.fresh = FALSE]
    OBVIOUS
  <1> PICK s : s = Store(db, o, b)
    OBVIOUS
  <1>1. /\ plan \in Plans /\ StoreOK(db) /\ db \in Stores /\ db.op[o] \in OpRows
        /\ RowOK(db, o) /\ r \in Revisions /\ db.op[o].staged \in Nat
        /\ db.op[o].swept <= db.op[o].staged
    BY InvFacts, RowFields
  <1>2. /\ db.op[o].phase = "Finalizing" /\ db.manifest[r] = db.op[o].manifest
        /\ AppendAuthority(o)
        /\ db' = [s EXCEPT !.revision[r] = o, !.claim[r] = IF @ = o THEN None ELSE @,
                           !.generation = @ + 1,
                           !.parent = IF IsAppend(o) THEN [@ EXCEPT !.done = TRUE] ELSE @]
        /\ UNCHANGED <<plan, durable, objects, doomed, worker, acked, puts, struck, emptied>>
    BY DEF FinalizePublish, Rows, RowsKept, Heartbeat
  <1>3. db.claim[r] = o /\ db.revision[r] = None /\ o # None
    BY <1>2, LiveFacts DEF LivePhases
  <1>4. Rephased(db.op[o], b, "Published")
    BY <1>1, RowEdits, PhaseTypes
  <1>5. /\ b \in OpRows /\ b.phase = "Published" /\ b.staged = db.op[o].staged
        /\ b.uploaded = Objects /\ b.manifest = ManifestRows
        /\ b.uploaded = db.op[o].uploaded
        /\ b.swept = db.op[o].swept /\ db.manifest[r] = ManifestRows
    BY <1>1, <1>2, <1>4 DEF Rephased, RowOK
  <1>6. /\ s \in Stores /\ s.op = [db.op EXCEPT ![o] = b] /\ s.claim = db.claim
        /\ s.revision = db.revision /\ s.manifest = db.manifest /\ s.parent = db.parent
        /\ s.generation = db.generation
    BY <1>1, <1>5, StoreFacts
  <1>7. /\ parent \in [attempt : Nat \cup {None}, done : BOOLEAN]
        /\ IsAppend(o) => parent = [attempt |-> plan.attempt[o], done |-> TRUE]
    <2>1. db.parent \in [attempt : Nat \cup {None}, done : BOOLEAN]
      BY <1>1 DEF Stores
    <2>2. CASE IsAppend(o)
      <3>1. db.parent = [attempt |-> plan.attempt[o], done |-> FALSE]
        BY <1>2, <2>2 DEF AppendAuthority
      <3>2. plan.attempt[o] \in Nat \cup {None}
        BY <1>1, PlanFacts
      <3>3. parent = [[attempt |-> plan.attempt[o], done |-> FALSE] EXCEPT !.done = TRUE]
        BY <2>2, <3>1
      <3>4. parent = [attempt |-> plan.attempt[o], done |-> TRUE]
        BY <3>3
      <3> HIDE DEF parent
      <3> QED BY <3>2, <3>4
    <2>3. CASE ~IsAppend(o)
      BY <2>1, <2>3
    <2> QED BY <2>2, <2>3
  <1>8. ASSUME NEW q \in Operations, IsAppend(q), db.op[q].phase = "Published"
        PROVE  parent = db.parent
    <2>1. db.parent = [attempt |-> plan.attempt[q], done |-> TRUE]
      BY <1>1, <1>8 DEF StoreOK, RowOK
    <2>2. db.parent.done = TRUE
      BY <2>1
    <2>3. CASE IsAppend(o)
      <3>1. db.parent = [attempt |-> plan.attempt[o], done |-> FALSE]
        BY <1>2, <2>3 DEF AppendAuthority
      <3>2. db.parent.done = FALSE
        BY <3>1
      <3> QED BY <2>2, <3>2
    <2>4. CASE ~IsAppend(o)
      BY <2>4
    <2> QED BY <2>3, <2>4
  <1>9. db' = [s EXCEPT !.revision = [db.revision EXCEPT ![r] = o],
                        !.claim = [db.claim EXCEPT ![r] = None],
                        !.generation = db.generation + 1, !.parent = parent]
    BY <1>2, <1>3, <1>6
  <1> HIDE DEF parent
  <1>10. /\ db' \in Stores /\ db'.op = [db.op EXCEPT ![o] = b]
         /\ db'.claim = [db.claim EXCEPT ![r] = None]
         /\ db'.revision = [db.revision EXCEPT ![r] = o]
         /\ db'.manifest = db.manifest /\ db'.parent = parent
    <2>1. /\ [db.revision EXCEPT ![r] = o] \in [Revisions -> Operations \cup {None}]
          /\ [db.claim EXCEPT ![r] = None] \in [Revisions -> Operations \cup {None}]
          /\ db.generation + 1 \in Nat
      BY <1>1 DEF Stores
    <2> PICK f, g, c : /\ f = [db.revision EXCEPT ![r] = o]
                       /\ g = [db.claim EXCEPT ![r] = None]
                       /\ c = db.generation + 1
      OBVIOUS
    <2>2. db' = [s EXCEPT !.revision = f, !.claim = g, !.generation = c, !.parent = parent]
      BY <1>9
    <2>3. /\ db' \in Stores /\ db'.op = s.op /\ db'.claim = g /\ db'.revision = f
          /\ db'.manifest = s.manifest /\ db'.parent = parent
      BY <1>6, <1>7, <2>1, <2>2, ZenonT(60) DEF Stores
    <2> QED BY <1>6, <2>3
  <1>11. /\ db'.op[o] = b /\ db'.claim[r] = None /\ db'.revision[r] = o
         /\ \A x \in Revisions : x # r =>
              db'.claim[x] = db.claim[x] /\ db'.revision[x] = db.revision[x]
    BY <1>1, <1>10 DEF Stores
  <1>12. RowOK(db', o)
    <2>1. b.phase \notin Holding \cup LivePhases
      BY <1>5 DEF Holding, ActivePhases, LivePhases
    <2> QED BY <1>1, <1>5, <1>7, <1>10, <1>11, <2>1 DEF RowOK
  <1>13. StoreOK(db')
    <2> PICK d2 : d2 = db'
      OBVIOUS
    <2>1. Exchanged(db, d2, o, b)
      BY <1>2, <1>3, <1>5, <1>8, <1>10, <1>11, <1>12 DEF Exchanged
    <2>2. StoreOK(d2)
      BY <1>1, <2>1, StoreStep
    <2> QED BY <2>2
  <1>14. Later(db.op[o], b)
    BY <1>1, <1>2, <1>5 DEF Later, Ended
  <1> QED BY <1>2, <1>4, <1>10, <1>13, <1>14, ClientPhase DEF LivePhases

LEMMA FewerPuts ==
    ASSUME NEW d, NEW u, NEW ob, NEW ps, NEW dm, NEW w, NEW ac, NEW sk, NEW em,
           AllOK(d, u, ob, ps, dm, w, ac, sk, em), NEW ps2, ps2 \subseteq ps
    PROVE  AllOK(d, u, ob, ps2, dm, w, ac, sk, em)
  BY DEF AllOK, PutsOK

LEMMA RecordStep ==
    ASSUME IInv, NEW p \in puts, RecordUpload(p)
    PROVE  IInv'
  <1> PICK o, i : o = p.op /\ i = p.object
    OBVIOUS
  <1>1. /\ plan \in Plans
        /\ AllOK(db, durable, objects, puts, doomed, worker, acked, struck, emptied)
        /\ PutsOK(db, durable, objects, puts, struck)
    BY DEF IInv, AllOK
  <1>2. /\ p.at = "stored" /\ puts' = puts \ {p}
        /\ UNCHANGED <<plan, durable, objects, doomed, worker, acked, struck, emptied>>
    BY DEF RecordUpload, Rows, RowsKept
  <1>3. /\ o \in Operations /\ i \in 1..Objects
        /\ db.op[o].phase \in LivePhases => Standing(o, i, objects, struck)
    BY <1>1, <1>2 DEF PutsOK
  <1>4. CASE db' = db
    <2>1. AllOK(db', durable', objects', puts', doomed', worker', acked', struck', emptied')
      BY <1>1, <1>2, <1>4, FewerPuts
    <2> QED BY <1>2, <2>1, Concluded
  <1>5. CASE db' # db
    <2> PICK b : b = [db.op[o] EXCEPT !.uploaded = @ + 1]
      OBVIOUS
    <2>1. /\ db.op[o].phase = "Uploading" /\ i = db.op[o].uploaded + 1
          /\ db' = Store(db, o, b)
      BY <1>5 DEF RecordUpload, Rows, RowsKept
    <2>2. /\ StoreOK(db) /\ db \in Stores /\ db.op[o] \in OpRows
          /\ RowOK(db, o) /\ Rev(o) \in Revisions
      BY <1>3, InvFacts
    <2>3. /\ db.op[o].staged \in Nat /\ db.op[o].uploaded \in Nat
          /\ db.op[o].swept \in Nat /\ db.op[o].swept <= db.op[o].staged
      BY <1>1, <1>3, <2>2, RowFields
    <2>4. /\ b \in OpRows /\ b.phase = "Uploading" /\ b.staged = db.op[o].staged
          /\ b.uploaded = db.op[o].uploaded + 1 /\ b.manifest = db.op[o].manifest
          /\ b.swept = db.op[o].swept
      <3>1. PICK k \in 0..Objects : k = db.op[o].uploaded + 1
        BY <1>1, <1>3, <2>1, <2>3, PlanFacts
      <3>2. b = [db.op[o] EXCEPT !.uploaded = k]
        BY <3>1
      <3> QED BY <2>1, <2>2, <3>1, <3>2 DEF OpRows
    <2>5. /\ db'.op = [db.op EXCEPT ![o] = b] /\ db'.claim = db.claim
          /\ db'.manifest = db.manifest
      BY <1>3, <2>1, <2>2, <2>4, StoreFacts
    <2>6. db'.op[o] = b
      BY <1>3, <2>2, <2>5 DEF Stores
    <2>7. db.claim[Rev(o)] = o /\ db.manifest[Rev(o)] = db.op[o].manifest
      BY <1>3, <2>1, LiveFacts DEF LivePhases
    <2>8. RowOK(db', o)
      BY <2>3, <2>4, <2>5, <2>6, <2>7 DEF RowOK
    <2>9. StoreOK(db')
      BY <1>1, <1>3, <2>1, <2>2, <2>4, <2>8, PlainStep
    <2>10. Later(db.op[o], b)
      BY <2>1, <2>3, <2>4, LaterFacts
    <2>11. \A j \in 1..b.uploaded :
             j <= db.op[o].uploaded \/ Standing(o, j, objects, struck)
      <3>1. Standing(o, i, objects, struck)
        BY <1>3, <2>1 DEF LivePhases
      <3>2. \A j \in 1..b.uploaded : j <= db.op[o].uploaded \/ j = i
        BY <2>1, <2>3, <2>4
      <3> QED BY <3>1, <3>2
    <2>12. (\A z \in puts' : z \in puts) /\ \A j \in 1..b.swept : j <= db.op[o].swept
      BY <1>2, <2>3, <2>4
    <2> QED BY <1>2, <1>3, <2>1, <2>4, <2>5, <2>9, <2>10, <2>11, <2>12, ClientRow
            DEF LivePhases
  <1> QED BY <1>4, <1>5

(* Staged rows, or the manifest rows, of an operation are swept.           *)
LEMMA SweepStore ==
    ASSUME IInv, NEW o \in Operations, db.op[o].phase \in {"Cleaning", "Quarantined"},
           NEW n \in Nat, db.op[o].swept + n <= db.op[o].staged
    PROVE  \E b \in OpRows :
             /\ Sweep(o, n).op = [db.op EXCEPT ![o] = b]
             /\ StoreOK(Sweep(o, n))
             /\ Later(db.op[o], b) /\ b.phase = db.op[o].phase
             /\ b.swept = IF db.op[o].swept < db.op[o].staged THEN db.op[o].swept + n
                          ELSE db.op[o].swept
  <1> DEFINE r == Rev(o)
  <1>1. /\ plan \in Plans /\ StoreOK(db) /\ db \in Stores /\ db.op[o] \in OpRows
        /\ RowOK(db, o) /\ r \in Revisions
    BY InvFacts
  <1>2. /\ db.op[o].staged \in Nat /\ db.op[o].staged <= Objects
        /\ db.op[o].swept \in Nat /\ db.op[o].swept <= db.op[o].staged
        /\ db.op[o].manifest \in Nat /\ Objects \in Nat
    BY <1>1, RowFields, PlanFacts
  <1>3. db.claim[r] = o
    BY <1>1 DEF RowOK, Holding, ActivePhases
  <1>4. CASE db.op[o].swept < db.op[o].staged
    <2>1. PICK k \in 0..Objects : k = db.op[o].swept + n
      BY <1>2
    <2> PICK b : b = [db.op[o] EXCEPT !.swept = k]
      OBVIOUS
    <2> PICK d2 : d2 = Store(db, o, b)
      OBVIOUS
    <2>2. /\ b \in OpRows /\ b.phase = db.op[o].phase /\ b.staged = db.op[o].staged
          /\ b.swept = k
      BY <1>1, <2>1 DEF OpRows
    <2>3. d2 = Sweep(o, n)
      BY <1>4, <2>1 DEF Sweep
    <2>4. d2.op = [db.op EXCEPT ![o] = b] /\ d2.claim = db.claim
      BY <1>1, <2>2, StoreFacts
    <2>5. d2.op[o] = b
      BY <1>1, <2>4 DEF Stores
    <2>6. RowOK(d2, o)
      BY <1>2, <1>3, <2>1, <2>2, <2>4, <2>5 DEF RowOK, LivePhases
    <2>7. StoreOK(d2)
      BY <1>1, <2>2, <2>6, PlainStep
    <2>8. Later(db.op[o], b)
      BY <1>2, <2>2, LaterFacts
    <2> QED BY <1>4, <2>1, <2>2, <2>3, <2>4, <2>7, <2>8
  <1>5. CASE ~(db.op[o].swept < db.op[o].staged)
    <2> PICK b : b = [db.op[o] EXCEPT !.sweptRows = db.op[o].manifest]
      OBVIOUS
    <2> PICK s : s = Store(db, o, b)
      OBVIOUS
    <2> PICK d2 : d2 = [s EXCEPT !.manifest[r] = 0]
      OBVIOUS
    <2>1. /\ b \in OpRows /\ b.phase = db.op[o].phase /\ b.staged = db.op[o].staged
          /\ b.swept = db.op[o].swept
      BY <1>1, <1>2 DEF OpRows
    <2>2. d2 = Sweep(o, n)
      BY <1>5 DEF Sweep
    <2>3. /\ s \in Stores /\ s.op = [db.op EXCEPT ![o] = b] /\ s.claim = db.claim
          /\ s.revision = db.revision /\ s.manifest = db.manifest /\ s.parent = db.parent
      BY <1>1, <2>1, StoreFacts
    <2>4. /\ d2 \in Stores /\ d2.op = [db.op EXCEPT ![o] = b] /\ d2.claim = db.claim
          /\ d2.revision = db.revision /\ d2.parent = db.parent
          /\ \A x \in Revisions : x # r => d2.manifest[x] = db.manifest[x]
      BY <1>1, <2>3, ZenonT(60) DEF Stores
    <2>5. d2.op[o] = b
      <3>1. db.op \in [Operations -> OpRows]
        BY <1>1 DEF Stores
      <3> QED BY <2>4, <3>1
    <2>6. RowOK(d2, o)
      BY <1>2, <1>3, <2>1, <2>4, <2>5 DEF RowOK, LivePhases
    <2>7. d2.claim[r] # None => d2.revision[r] = None
      BY <1>1, <2>4 DEF StoreOK
    <2>8. Exchanged(db, d2, o, b)
      BY <1>3, <2>1, <2>4, <2>6, <2>7 DEF Exchanged
    <2>9. StoreOK(d2)
      BY <1>1, <2>8, StoreStep
    <2>10. Later(db.op[o], b)
      BY <1>2, <2>1, LaterFacts
    <2> QED BY <1>5, <2>1, <2>2, <2>4, <2>9, <2>10
  <1> QED BY <1>4, <1>5

(* The operation ends: it gives its claim back, unless it is an append.    *)
LEMMA CleanedStore ==
    ASSUME IInv, NEW o \in Operations, db.op[o].phase \in {"Cleaning", "Quarantined"},
           ~Unswept(db.op[o]), NEW b, Rephased(db.op[o], b, "Cleaned"), NEW d2,
           d2 = IF IsAppend(o) THEN Store(db, o, b) ELSE Released(Store(db, o, b), o)
    PROVE  StoreOK(d2) /\ d2.op = [db.op EXCEPT ![o] = b] /\ Later(db.op[o], b)
  <1> DEFINE r == Rev(o)
  <1>1. /\ plan \in Plans /\ StoreOK(db) /\ db \in Stores /\ db.op[o] \in OpRows
        /\ RowOK(db, o) /\ r \in Revisions
    BY InvFacts
  <1>2. /\ db.op[o].staged \in Nat /\ db.op[o].swept \in Nat
        /\ db.op[o].swept <= db.op[o].staged
    BY <1>1, RowFields
  <1>3. db.claim[r] = o /\ db.op[o].swept >= db.op[o].staged
    BY <1>1, <1>2 DEF RowOK, Holding, ActivePhases, Unswept
  <1>4. /\ b \in OpRows /\ b.phase = "Cleaned" /\ b.staged = db.op[o].staged
        /\ b.swept = db.op[o].swept
    BY DEF Rephased
  <1> PICK s : s = Store(db, o, b)
    OBVIOUS
  <1>5. /\ s \in Stores /\ s.op = [db.op EXCEPT ![o] = b] /\ s.claim = db.claim
        /\ s.revision = db.revision /\ s.manifest = db.manifest /\ s.parent = db.parent
    BY <1>1, <1>4, StoreFacts
  <1>6. Later(db.op[o], b)
    BY <1>2, <1>4 DEF Later, Ended
  <1>7. s.op[o] = b /\ b.phase \notin Holding
    BY <1>1, <1>4, <1>5 DEF Stores, Holding, ActivePhases, LivePhases
  <1>8. CASE IsAppend(o)
    <2>1. RowOK(s, o)
      BY <1>2, <1>3, <1>4, <1>5, <1>7 DEF RowOK, LivePhases
    <2>2. StoreOK(s)
      BY <1>1, <1>4, <2>1, PlainStep
    <2> QED BY <1>5, <1>6, <1>8, <2>2
  <1>9. CASE ~IsAppend(o)
    <2>1. d2 = [s EXCEPT !.claim = [db.claim EXCEPT ![r] = None]]
      BY <1>3, <1>5, <1>9 DEF Released
    <2>2. [db.claim EXCEPT ![r] = None] \in [Revisions -> Operations \cup {None}]
      BY <1>1 DEF Stores
    <2>3. /\ d2 \in Stores /\ d2.op = [db.op EXCEPT ![o] = b]
          /\ d2.claim = [db.claim EXCEPT ![r] = None]
          /\ d2.revision = db.revision /\ d2.manifest = db.manifest
          /\ d2.parent = db.parent
      BY <1>5, <2>1, <2>2 DEF Stores
    <2>4. /\ d2.op[o] = b /\ d2.claim[r] = None
          /\ \A x \in Revisions : x # r => d2.claim[x] = db.claim[x]
      BY <1>1, <2>3 DEF Stores
    <2>5. RowOK(d2, o)
      BY <1>2, <1>3, <1>4, <1>7, <1>9, <2>3, <2>4 DEF RowOK, LivePhases
    <2>6. Exchanged(db, d2, o, b)
      BY <1>3, <1>4, <2>3, <2>4, <2>5 DEF Exchanged
    <2>7. StoreOK(d2)
      BY <1>1, <2>6, StoreStep
    <2> QED BY <1>6, <2>3, <2>7
  <1> QED BY <1>8, <1>9

(* The operator's steps on the rows of a quarantined operation.            *)
LEMMA ReconcileStep ==
    ASSUME IInv, NEW o \in Operations, ReconcileBatch(o) \/ ReconcileFinish(o)
    PROVE  IInv'
  <1>1. /\ plan \in Plans /\ StoreOK(db) /\ db \in Stores /\ db.op[o] \in OpRows
    BY InvFacts
  <1>2. /\ db.op[o].staged \in Nat /\ db.op[o].swept \in Nat
        /\ db.op[o].swept <= db.op[o].staged
    BY <1>1, RowFields
  <1>3. CASE ReconcileBatch(o)
    <2>1. PICK n \in Nat : n = db.op[o].staged - db.op[o].swept
      BY <1>2
    <2>2. /\ db.op[o].phase = "Quarantined" /\ ~IsAppend(o) /\ db' = Sweep(o, n)
          /\ UNCHANGED <<plan, durable, objects, doomed, worker, acked, puts, struck>>
          /\ emptied' = emptied \cup {<<o, i>> : i \in (db.op[o].swept + 1)..db.op[o].staged}
      BY <1>3, <2>1 DEF ReconcileBatch, RowsKept
    <2>3. db.op[o].swept + n <= db.op[o].staged
      BY <1>2, <2>1
    <2> PICK d2 : d2 = Sweep(o, n)
      OBVIOUS
    <2>4. PICK b \in OpRows :
             /\ d2.op = [db.op EXCEPT ![o] = b] /\ StoreOK(d2)
             /\ Later(db.op[o], b) /\ b.phase = db.op[o].phase
             /\ b.swept = IF db.op[o].swept < db.op[o].staged THEN db.op[o].swept + n
                          ELSE db.op[o].swept
      <3>1. db.op[o].phase \in {"Cleaning", "Quarantined"}
        BY <2>2
      <3>2. \E b \in OpRows :
              /\ Sweep(o, n).op = [db.op EXCEPT ![o] = b]
              /\ StoreOK(Sweep(o, n))
              /\ Later(db.op[o], b) /\ b.phase = db.op[o].phase
              /\ b.swept = IF db.op[o].swept < db.op[o].staged THEN db.op[o].swept + n
                           ELSE db.op[o].swept
        BY <2>3, <3>1, SweepStore
      <3> QED BY <3>2
    <2>5. db' = d2 /\ b.phase = "Quarantined"
      BY <2>2, <2>4
    <2>6. \A i \in 1..b.swept : i <= db.op[o].swept \/ Gone(o, i, objects, emptied')
      <3>1. b.swept = db.op[o].staged
        BY <1>2, <2>1, <2>4
      <3>2. \A i \in 1..b.swept : i > db.op[o].swept => <<o, i>> \in emptied'
        BY <1>2, <2>2, <3>1
      <3> QED BY <1>2, <2>2, <3>1, <3>2 DEF Gone
    <2> QED BY <2>2, <2>4, <2>5, <2>6, ClientRow DEF LivePhases
  <1>4. CASE ReconcileFinish(o)
    <2> PICK b : b = [db.op[o] EXCEPT !.phase = "Cleaned"]
      OBVIOUS
    <2>1. /\ db.op[o].phase = "Quarantined" /\ ~IsAppend(o) /\ ~Unswept(db.op[o])
          /\ db' = Released(Store(db, o, b), o)
          /\ UNCHANGED <<plan, durable, objects, doomed, worker, acked, puts, struck, emptied>>
      BY <1>4 DEF ReconcileFinish, Rows, RowsKept
    <2>2. Rephased(db.op[o], b, "Cleaned")
      BY <1>1, RowEdits, PhaseTypes
    <2>3. StoreOK(db') /\ db'.op = [db.op EXCEPT ![o] = b] /\ Later(db.op[o], b)
      <3> PICK d2 : d2 = Released(Store(db, o, b), o)
        OBVIOUS
      <3>1. StoreOK(d2) /\ d2.op = [db.op EXCEPT ![o] = b] /\ Later(db.op[o], b)
        BY <2>1, <2>2, CleanedStore
      <3> QED BY <2>1, <3>1
    <2> QED BY <2>1, <2>2, <2>3, ClientPhase DEF LivePhases
  <1> QED BY <1>3, <1>4

LEMMA PathStep ==
    ASSUME IInv, PathMoves
    PROVE  IInv'
  <1>1. /\ plan \in Plans
        /\ AllOK(db, durable, objects, puts, doomed, worker, acked, struck, emptied)
        /\ StoreOK(db) /\ db \in Stores
    BY DEF IInv, AllOK, StoreOK
  <1>2. /\ db' = [db EXCEPT !.generation = @ + 1]
        /\ UNCHANGED <<plan, durable, objects, doomed, worker, acked, puts, struck, emptied>>
    BY DEF PathMoves, Rows, RowsKept
  <1>3. PICK g \in Nat : g = db.generation + 1
    BY <1>1 DEF Stores
  <1> PICK u : u = [db EXCEPT !.generation = g]
    OBVIOUS
  <1>4. /\ u \in Stores /\ u.op = db.op /\ u.claim = db.claim /\ u.revision = db.revision
        /\ u.manifest = db.manifest /\ u.parent = db.parent
    BY <1>1 DEF Stores
  <1>5. StoreOK(u)
    BY <1>1, <1>4, SameStore DEF SameRows
  <1>6. db' = u
    BY <1>2, <1>3
  <1>7. AllOK(u, durable, objects, puts, doomed, worker, acked, struck, emptied)
    BY <1>1, <1>4, <1>5, RowsAlone
  <1> QED BY <1>2, <1>6, <1>7, Concluded

LEMMA AnswerStep ==
    ASSUME IInv, NEW o \in Operations, Answer(o)
    PROVE  IInv'
  <1>1. /\ durable.op[o].phase = "Published" /\ acked' = acked \cup {o}
        /\ UNCHANGED <<plan, db, durable, objects, puts, doomed, worker, struck, emptied>>
    BY DEF Answer
  <1>2. AllOK(db, durable, objects, puts, doomed, worker, acked', struck, emptied)
    BY <1>1 DEF IInv, AllOK
  <1> QED BY <1>1, <1>2, Concluded

-----------------------------------------------------------------------------
(* The provider.                                                           *)

LEMMA UploadStep ==
    ASSUME IInv, NEW p \in puts, CreateImmutable(p) \/ CreateCollides(p)
                                 \/ CreateFails(p) \/ LateCreate(p)
    PROVE  IInv'
  <1>1. /\ plan \in Plans
        /\ AllOK(db, durable, objects, puts, doomed, worker, acked, struck, emptied)
        /\ PutsOK(db, durable, objects, puts, struck)
        /\ objects \in [Keys -> Operations \cup {None, "Sealed"}]
    BY DEF IInv, AllOK
  <1>2. /\ UNCHANGED <<plan, db, durable, acked, doomed, worker, struck, emptied>>
    BY DEF CreateImmutable, CreateCollides, CreateFails, LateCreate, Provider
  <1> DEFINE k == Key(p.op, p.object)
  <1>3. CASE CreateImmutable(p)
    <2> PICK ob2 : ob2 = [objects EXCEPT ![k] = p.op]
      OBVIOUS
    <2>1. /\ objects[k] \in {None, p.op} /\ objects' = ob2
          /\ puts' = (puts \ {p}) \cup {[p EXCEPT !.at = "stored"]}
      BY <1>3 DEF CreateImmutable
    <2> PICK ps2 : ps2 = puts'
      OBVIOUS
    <2>2. Filled(p, objects, ob2, puts, ps2)
      BY <2>1 DEF Filled
    <2>3. AllOK(db, durable, ob2, ps2, doomed, worker, acked, struck, emptied)
      BY <1>1, <2>2, FillStep
    <2> QED BY <1>2, <2>1, <2>3, Concluded
  <1>4. CASE CreateCollides(p)
    <2>1. objects' = objects /\ puts' \subseteq puts
      BY <1>4 DEF CreateCollides
    <2>2. AllOK(db, durable, objects', puts', doomed, worker, acked, struck, emptied)
      BY <1>1, <2>1, FewerPuts
    <2> QED BY <1>2, <2>2, Concluded
  <1>5. CASE CreateFails(p)
    <2> PICK s : s = [p EXCEPT !.at = "late"]
      OBVIOUS
    <2>1. objects' = objects /\ puts' = (puts \ {p}) \cup {s}
      BY <1>5 DEF CreateFails
    <2>2. /\ s.op \in Operations /\ s.object \in 1..Objects
          /\ s = [op |-> s.op, object |-> s.object, at |-> s.at]
          /\ s.at = "late"
          /\ durable.op[s.op].phase # "None" /\ s.object <= durable.op[s.op].staged
      <3>1. /\ p.op \in Operations /\ p.object \in 1..Objects
            /\ p = [op |-> p.op, object |-> p.object, at |-> p.at]
            /\ durable.op[p.op].phase # "None" /\ p.object <= durable.op[p.op].staged
        BY <1>1 DEF PutsOK
      <3>2. s = [op |-> p.op, object |-> p.object, at |-> "late"]
        BY <3>1
      <3> QED BY <3>1, <3>2
    <2>3. PutsOK(db, durable, objects, puts', struck)
      BY <1>1, <2>1, <2>2 DEF PutsOK
    <2>4. AllOK(db, durable, objects', puts', doomed, worker, acked, struck, emptied)
      BY <1>1, <2>1, <2>3 DEF AllOK
    <2> QED BY <1>2, <2>4, Concluded
  <1>6. CASE LateCreate(p)
    <2>1. /\ objects' = [objects EXCEPT ![k] = IF @ = None THEN p.op ELSE @]
          /\ puts' = puts \ {p}
      BY <1>6 DEF LateCreate
    <2>2. CASE objects[k] = None
      <3> PICK ob2 : ob2 = [objects EXCEPT ![k] = p.op]
        OBVIOUS
      <3>1. objects' = ob2
        BY <2>1, <2>2
      <3> PICK ps2 : ps2 = (puts \ {p}) \cup {[p EXCEPT !.at = "stored"]}
        OBVIOUS
      <3>2. AllOK(db, durable, ob2, ps2, doomed, worker, acked, struck, emptied)
        <4>1. Filled(p, objects, ob2, puts, ps2)
          BY <2>2 DEF Filled
        <4> QED BY <1>1, <4>1, FillStep
      <3>3. puts' \subseteq ps2
        BY <2>1
      <3>4. AllOK(db, durable, ob2, puts', doomed, worker, acked, struck, emptied)
        BY <3>2, <3>3, FewerPuts
      <3> QED BY <1>2, <3>1, <3>4, Concluded
    <2>3. CASE objects[k] # None
      <3>1. objects' = objects
        BY <1>1, <2>1, <2>3
      <3>2. AllOK(db, durable, objects', puts', doomed, worker, acked, struck, emptied)
        BY <1>1, <2>1, <3>1, FewerPuts
      <3> QED BY <1>2, <3>2, Concluded
    <2> QED BY <2>2, <2>3
  <1> QED BY <1>3, <1>4, <1>5, <1>6

(* The worker counts on sealed keys only.                                  *)
LEMMA WorkerSealed ==
    ASSUME plan \in Plans, NEW d, NEW u, NEW ob, NEW ob2, NEW w, NEW em, NEW o,
           StoreOK(d), WorkerOK(d, u, ob, w, em), EmptiedOf(o, ob, ob2)
    PROVE  WorkerOK(d, u, ob2, w, em)
  <1>1. ASSUME NEW q \in Operations, NEW i \in 1..Objects, Gone(q, i, ob, em)
        PROVE  Gone(q, i, ob2, em)
    BY <1>1 DEF EmptiedOf, Gone
  <1>2. ASSUME w.pc \in {"publish", "cleanup", "batch"}, w.row.swept < w.row.staged
        PROVE  /\ BatchEnd(w.row) \in Nat /\ BatchEnd(w.row) <= Objects /\ Objects \in Nat
               /\ w.op \in Operations
               /\ w.pc # "batch" => w.at \in Nat /\ w.at <= Objects
    <2>1. w.op \in Operations /\ w.row = d.op[w.op]
      BY <1>2 DEF WorkerOK
    <2>2. /\ w.row.staged \in Nat /\ w.row.staged <= Objects /\ w.row.swept \in Nat
          /\ Objects \in Nat
      BY <2>1, RowFields, PlanFacts
    <2>3. BatchEnd(w.row) \in Nat /\ BatchEnd(w.row) <= Objects
      BY <2>2, PublicationAssumption DEF BatchEnd
    <2>4. w.pc # "batch" => w.at \in (w.row.swept + 1)..BatchEnd(w.row)
      BY <1>2 DEF WorkerOK
    <2> QED BY <2>1, <2>2, <2>3, <2>4
  <1>3. w.pc \in {"publish", "cleanup"} =>
          \A i \in 1..w.at : i < w.at => Gone(w.op, i, ob2, em)
    BY <1>1, <1>2 DEF WorkerOK
  <1>4. w.pc = "batch" /\ w.row.swept < w.row.staged =>
          \A i \in 1..BatchEnd(w.row) : Gone(w.op, i, ob2, em)
    BY <1>1, <1>2 DEF WorkerOK
  <1> QED BY <1>3, <1>4 DEF WorkerOK

LEMMA WorkerRecord ==
    ASSUME NEW w, NEW pc, NEW o, NEW row, NEW at,
           w = [pc |-> pc, op |-> o, row |-> row, at |-> at]
    PROVE  /\ w.pc = pc /\ w.op = o /\ w.row = row /\ w.at = at
           /\ w = [pc |-> w.pc, op |-> w.op, row |-> w.row, at |-> w.at]
  OBVIOUS

(* What the worker knows of the operation it cleans up.                    *)
LEMMA CleaningFacts ==
    ASSUME IInv, worker.pc \in {"publish", "cleanup", "batch", "quarantine"}
    PROVE  /\ worker.op \in Operations /\ worker.row = db.op[worker.op]
           /\ worker.row \in OpRows /\ worker.row.phase = "Cleaning"
           /\ worker.row.staged \in Nat /\ worker.row.staged <= Objects
           /\ worker.row.swept \in Nat /\ worker.row.swept <= worker.row.staged
           /\ BatchEnd(worker.row) \in Nat /\ BatchEnd(worker.row) <= worker.row.staged
           /\ worker.row.swept <= BatchEnd(worker.row)
           /\ worker.pc \in {"publish", "cleanup"} =>
                worker.at \in 1..Objects /\ worker.at <= BatchEnd(worker.row)
           /\ Given(db, Rev(worker.op))
  <1>1. plan \in Plans /\ StoreOK(db) /\ WorkerOK(db, durable, objects, worker, emptied)
    BY DEF IInv, AllOK
  <1>2. /\ worker.op \in Operations /\ worker.row = db.op[worker.op]
        /\ worker.row.phase = "Cleaning"
        /\ worker.pc \in {"publish", "cleanup"} =>
             worker.at \in (worker.row.swept + 1)..BatchEnd(worker.row)
    BY <1>1 DEF WorkerOK
  <1>3. /\ worker.row \in OpRows
        /\ worker.row.staged \in Nat /\ worker.row.staged <= Objects
        /\ worker.row.swept \in Nat /\ worker.row.swept <= worker.row.staged
        /\ Objects \in Nat
    BY <1>1, <1>2, RowFields, PlanFacts
  <1>4. /\ BatchEnd(worker.row) \in Nat /\ BatchEnd(worker.row) <= worker.row.staged
        /\ worker.row.swept <= BatchEnd(worker.row)
    BY <1>3, PublicationAssumption DEF BatchEnd
  <1>5. Given(db, Rev(worker.op))
    BY <1>1, <1>2, HeldIsGiven
  <1> QED BY <1>2, <1>3, <1>4, <1>5

LEMMA OperatorStep ==
    ASSUME IInv, NEW o \in Operations, OperatorRemoves(o)
    PROVE  IInv'
  <1>1. /\ plan \in Plans
        /\ AllOK(db, durable, objects, puts, doomed, worker, acked, struck, emptied)
        /\ StoreOK(db) /\ StoreOK(durable) /\ WorkerOK(db, durable, objects, worker, emptied)
        /\ DoomedOK(durable, doomed) /\ CleanupDurable(db, durable)
        /\ objects \in [Keys -> Operations \cup {None, "Sealed"}]
    BY DEF IInv, AllOK
  <1> PICK ob2 : ob2 = [k \in Keys |-> IF k \in UnsweptKeys(o) THEN None ELSE objects[k]]
    OBVIOUS
  <1>2. /\ db.op[o].phase = "Quarantined" /\ ~IsAppend(o) /\ objects' = ob2
        /\ UNCHANGED <<plan, db, durable, puts, doomed, worker, acked, struck, emptied>>
    BY DEF OperatorRemoves, Provider
  <1>3. Given(db, Rev(o)) /\ Given(durable, Rev(o))
    <2>1. durable.op[o].phase \in {"Cleaning", "Quarantined"}
      BY <1>1, <1>2 DEF CleanupDurable
    <2> QED BY <1>1, <1>2, <2>1, HeldIsGiven
  <1>4. EmptiedOf(o, objects, ob2)
    <2>1. ob2 \in [Keys -> Operations \cup {None, "Sealed"}]
      BY <1>1
    <2>2. ASSUME NEW q \in Operations, NEW i \in 1..Objects,
                 ob2[Key(q, i)] # objects[Key(q, i)]
          PROVE  Rev(q) = Rev(o) /\ ob2[Key(q, i)] = None /\ ~IsAppend(q)
      <3>1. Key(q, i) \in Keys
        BY KeyFacts
      <3>2. Key(q, i) \in UnsweptKeys(o) /\ ob2[Key(q, i)] = None
        BY <2>2, <3>1
      <3>3. Rev(q) = Rev(o)
        BY <3>2, KeyFacts DEF UnsweptKeys
      <3> QED BY <1>1, <1>2, <3>2, <3>3, PlanFacts
    <2> QED BY <2>1, <2>2 DEF EmptiedOf
  <1>5. WorkerOK(db, durable, ob2, worker, emptied)
    BY <1>1, <1>4, WorkerSealed
  <1>6. AllOK(db, durable, ob2, puts, doomed, worker, acked, struck, emptied)
    BY <1>1, <1>3, <1>4, <1>5, EmptyStep
  <1> QED BY <1>2, <1>6, Concluded

(* The worker calls the provider for the next object of its batch.         *)
LEMMA CleanupStep ==
    ASSUME IInv, CleanupObject \/ CleanupAmbiguous
    PROVE  IInv'
  <1> PICK o, j : o = worker.op /\ j = worker.at
    OBVIOUS
  <1> DEFINE k == Key(o, j)
  <1> PICK ob2 : ob2 = Emptied(k)
    OBVIOUS
  <1>1. /\ plan \in Plans
        /\ AllOK(db, durable, objects, puts, doomed, worker, acked, struck, emptied)
        /\ StoreOK(db) /\ StoreOK(durable) /\ WorkerOK(db, durable, objects, worker, emptied)
        /\ DoomedOK(durable, doomed)
        /\ objects \in [Keys -> Operations \cup {None, "Sealed"}]
    BY DEF IInv, AllOK
  <1>2. worker.pc = "cleanup" /\ UNCHANGED <<plan, db, durable, puts, acked, struck>>
    BY DEF CleanupObject, CleanupAmbiguous, Provider
  <1>3. /\ o \in Operations /\ worker.row = db.op[o]
        /\ worker.row \in OpRows /\ worker.row.phase = "Cleaning"
        /\ worker.row.swept \in Nat
        /\ BatchEnd(worker.row) \in Nat
        /\ j \in 1..Objects /\ j <= BatchEnd(worker.row)
        /\ Given(db, Rev(o))
    BY <1>2, CleaningFacts
  <1>4. /\ durable.op[o].phase \in {"Cleaning", "Quarantined"}
        /\ worker.row.swept < worker.row.staged
        /\ j \in (worker.row.swept + 1)..BatchEnd(worker.row)
        /\ \A i \in 1..j : i < j => Gone(o, i, objects, emptied)
    BY <1>1, <1>2 DEF WorkerOK
  <1>5. Given(durable, Rev(o))
    BY <1>1, <1>3, <1>4, HeldIsGiven
  <1>6. /\ EmptiedOf(o, objects, ob2)
        /\ ob2[k] = IF IsAppend(o) THEN "Sealed" ELSE None
    BY <1>1, <1>3, EmptiedFacts
  <1>7. worker = [pc |-> worker.pc, op |-> o, row |-> worker.row, at |-> j]
    BY <1>1 DEF WorkerOK
  <1>8. CASE CleanupObject
    <2> PICK w2 : w2 = IF j < BatchEnd(worker.row)
                       THEN [worker EXCEPT !.pc = "publish", !.at = @ + 1]
                       ELSE [worker EXCEPT !.pc = "batch"]
      OBVIOUS
    <2> PICK em2 : em2 = emptied \cup {<<o, j>>}
      OBVIOUS
    <2>1. objects' = ob2 /\ worker' = w2 /\ doomed' = doomed /\ emptied' = em2
      BY <1>8 DEF CleanupObject
    <2>2. \A i \in 1..j : Gone(o, i, ob2, em2)
      <3> SUFFICES ASSUME NEW i \in 1..j PROVE Gone(o, i, ob2, em2)
        OBVIOUS
      <3>1. CASE i = j
        BY <1>6, <3>1 DEF Gone
      <3>2. CASE i # j
        <4>1. i < j /\ i \in 1..Objects
          BY <1>1, <1>3, <3>2, PlanFacts
        <4>2. Gone(o, i, objects, emptied)
          BY <1>4, <4>1
        <4> QED BY <1>3, <1>6, <4>1, <4>2 DEF EmptiedOf, Gone
      <3> QED BY <3>1, <3>2
    <2>3. WorkerOK(db, durable, ob2, w2, em2)
      <3>1. CASE j < BatchEnd(worker.row)
        <4>1. w2 = [pc |-> "publish", op |-> o, row |-> worker.row, at |-> j + 1]
          <5> PICK pc, row : pc = worker.pc /\ row = worker.row
            OBVIOUS
          <5>1. worker = [pc |-> pc, op |-> o, row |-> row, at |-> j]
            BY <1>7
          <5>2. w2 = [[pc |-> pc, op |-> o, row |-> row, at |-> j]
                        EXCEPT !.pc = "publish", !.at = @ + 1]
            BY <3>1, <5>1
          <5> QED BY <5>2
        <4>2. /\ w2.pc = "publish" /\ w2.at = j + 1 /\ w2.op = o /\ w2.row = worker.row
              /\ w2 = [pc |-> w2.pc, op |-> w2.op, row |-> w2.row, at |-> w2.at]
          BY <4>1
        <4>3. /\ j + 1 \in (worker.row.swept + 1)..BatchEnd(worker.row)
              /\ \A i \in 1..(j + 1) : i < j + 1 => i \in 1..j
          BY <1>3, <1>4, <3>1
        <4> QED BY <1>3, <1>4, <2>2, <4>2, <4>3 DEF WorkerOK
      <3>2. CASE ~(j < BatchEnd(worker.row))
        <4>1. /\ w2.pc = "batch" /\ w2.op = o /\ w2.row = worker.row
              /\ w2 = [pc |-> w2.pc, op |-> w2.op, row |-> w2.row, at |-> w2.at]
          <5>1. w2 = [pc |-> "batch", op |-> o, row |-> worker.row, at |-> j]
            BY <1>7, <3>2
          <5> PICK row : row = worker.row
            OBVIOUS
          <5> PICK w3 : w3 = [pc |-> "batch", op |-> o, row |-> row, at |-> j]
            OBVIOUS
          <5>2. /\ w3.pc = "batch" /\ w3.op = o /\ w3.row = row
                /\ w3 = [pc |-> w3.pc, op |-> w3.op, row |-> w3.row, at |-> w3.at]
            BY Zenon, WorkerRecord
          <5>3. w2 = w3
            BY <5>1
          <5> QED BY Zenon, <5>2, <5>3
        <4>2. BatchEnd(worker.row) = j
          BY <1>3, <3>2
        <4> QED BY <1>3, <2>2, <4>1, <4>2 DEF WorkerOK
      <3> QED BY <3>1, <3>2
    <2>4. AllOK(db, durable, ob2, puts, doomed, w2, acked, struck, em2)
      BY <1>1, <1>3, <1>5, <1>6, <2>3, EmptyStep
    <2> QED BY <1>2, <2>1, <2>4, Concluded
  <1>9. CASE CleanupAmbiguous
    <2> PICK w2 : w2 = [worker EXCEPT !.pc = "quarantine"]
      OBVIOUS
    <2> PICK ob3, dm2 : ob3 = objects' /\ dm2 = doomed'
      OBVIOUS
    <2>1. /\ ob3 \in {objects, ob2} /\ worker' = w2 /\ dm2 = doomed \cup {k}
          /\ emptied' = emptied
      BY <1>9 DEF CleanupAmbiguous
    <2>2. EmptiedOf(o, objects, ob3)
      BY <1>1, <1>6, <2>1 DEF EmptiedOf
    <2>3. DoomedOK(durable, dm2)
      BY <1>1, <1>3, <1>4, <2>1 DEF DoomedOK, Ended
    <2>4. WorkerOK(db, durable, ob3, w2, emptied)
      <3>1. /\ w2.pc = "quarantine" /\ w2.op = o /\ w2.row = worker.row
            /\ w2 = [pc |-> w2.pc, op |-> w2.op, row |-> w2.row, at |-> w2.at]
        <4>1. w2 = [pc |-> "quarantine", op |-> o, row |-> worker.row, at |-> j]
          BY <1>7
        <4> QED BY <4>1
      <3> QED BY <1>3, <1>4, <3>1 DEF WorkerOK
    <2>5. AllOK(db, durable, ob3, puts, dm2, w2, acked, struck, emptied)
      BY <1>1, <1>3, <1>5, <2>2, <2>3, <2>4, EmptyStep
    <2> QED BY <1>2, <2>1, <2>5, Concluded
  <1> QED BY <1>8, <1>9

(* A cleanup request nobody waits for reaches its key, whatever stands     *)
(* there by now.                                                           *)
LEMMA LateCleanupStep ==
    ASSUME IInv, NEW k \in doomed, LateCleanup(k)
    PROVE  IInv'
  <1>1. /\ plan \in Plans
        /\ AllOK(db, durable, objects, puts, doomed, worker, acked, struck, emptied)
        /\ StoreOK(db) /\ WorkerOK(db, durable, objects, worker, emptied)
        /\ DoomedOK(durable, doomed)
        /\ objects \in [Keys -> Operations \cup {None, "Sealed"}]
    BY DEF IInv, AllOK
  <1> PICK ob2 : ob2 = Emptied(k)
    OBVIOUS
  <1> PICK dm2 : dm2 = doomed \ {k}
    OBVIOUS
  <1> PICK sk2 : sk2 = IF objects[k] \in Operations THEN struck \cup {k} ELSE struck
    OBVIOUS
  <1>2. /\ objects' = ob2 /\ doomed' = dm2 /\ struck' = sk2
        /\ UNCHANGED <<plan, db, durable, puts, worker, acked, emptied>>
    BY DEF LateCleanup, Provider
  <1>3. PICK o \in Operations, i \in 1..Objects :
          k = Key(o, i) /\ durable.op[o].phase \in Ended
    BY <1>1 DEF DoomedOK
  <1>4. /\ EmptiedOf(o, objects, ob2)
        /\ \A x \in Keys : x # Key(o, i) => ob2[x] = objects[x]
    BY <1>1, <1>3, EmptiedFacts
  <1>5. Strikes(o, i, objects, ob2, struck, sk2)
    BY <1>3, <1>4 DEF Strikes
  <1>6. WorkerOK(db, durable, ob2, worker, emptied)
    BY <1>1, <1>4, WorkerSealed
  <1>7. AllOK(db, durable, ob2, puts, dm2, worker, acked, sk2, emptied)
    BY <1>1, <1>3, <1>5, <1>6, StrikeStep
  <1> QED BY <1>2, <1>7, Concluded

-----------------------------------------------------------------------------
(* The lifecycle worker.                                                   *)

LEMMA WorkerShapes ==
    /\ \A d, u, ob, em : WorkerOK(d, u, ob, Idle, em)
    /\ \A d, u, ob, em : WorkerOK(d, u, ob, [Idle EXCEPT !.pc = "failed"], em)
    /\ \A d, u, ob, em, e, w :
         WorkerOK(d, u, ob, w, em) /\ w.pc = "idle" => WorkerOK(e, u, ob, w, em)
  <1>1. \A d, u, ob, em : WorkerOK(d, u, ob, Idle, em)
    BY DEF WorkerOK, Idle
  <1>2. ASSUME NEW d, NEW u, NEW ob, NEW em, NEW w, w = [Idle EXCEPT !.pc = "failed"]
        PROVE  WorkerOK(d, u, ob, w, em)
    <2>1. w = [pc |-> "failed", op |-> None, row |-> NoOperation, at |-> 0]
      BY <1>2 DEF Idle
    <2> QED BY <2>1 DEF WorkerOK
  <1>3. \A d, u, ob, em, e, w :
          WorkerOK(d, u, ob, w, em) /\ w.pc = "idle" => WorkerOK(e, u, ob, w, em)
    BY DEF WorkerOK
  <1> QED BY <1>1, <1>2, <1>3

LEMMA WorkerOnly ==
    ASSUME IInv, NEW w2, worker' = w2, WorkerOK(db, durable, objects, w2, emptied),
           UNCHANGED <<plan, db, durable, objects, puts, doomed, acked, struck, emptied>>
    PROVE  IInv'
  <1>1. AllOK(db, durable, objects, puts, doomed, w2, acked, struck, emptied)
    BY DEF IInv, AllOK
  <1> QED BY <1>1, Concluded

(* The worker changes the row of an operation that is given up.            *)
LEMMA WorkerRow ==
    ASSUME IInv, NEW o \in Operations, NEW b \in OpRows,
           StoreOK(db'), db'.op = [db.op EXCEPT ![o] = b],
           Later(db.op[o], b), b.phase \notin LivePhases \cup {"Published"},
           \A i \in 1..b.swept : i <= db.op[o].swept \/ Gone(o, i, objects, emptied),
           b.phase = "Quarantined" => durable.op[o].phase \in {"Cleaning", "Quarantined"},
           WorkerOK(db', durable, objects, worker', emptied),
           UNCHANGED <<plan, durable, objects, puts, doomed, acked, struck, emptied>>
    PROVE  IInv'
  <1> PICK d2, w2 : d2 = db' /\ w2 = worker'
    OBVIOUS
  <1>1. /\ plan \in Plans
        /\ AllOK(db, durable, objects, puts, doomed, worker, acked, struck, emptied)
    BY DEF IInv
  <1>2. AllOK(d2, durable, objects, puts, doomed, w2, acked, struck, emptied)
    BY <1>1, RowStep
  <1> QED BY <1>2, Concluded

(* The worker's changes of phase: takeover, cleaning and quarantine.       *)
LEMMA WorkerPhase ==
    ASSUME IInv, NEW o \in Operations, NEW b, NEW phase \in {"Aborting", "Cleaning", "Quarantined"},
           Rephased(db.op[o], b, phase), <<db.op[o].phase, phase>> \in PhaseMoves,
           db' = Store(db, o, b),
           phase = "Quarantined" => durable.op[o].phase \in {"Cleaning", "Quarantined"},
           worker' = Idle \/ (worker' = worker /\ worker.pc = "idle"),
           UNCHANGED <<plan, durable, objects, puts, doomed, acked, struck, emptied>>
    PROVE  IInv'
  <1>1. plan \in Plans /\ StoreOK(db) /\ db.op[o] \in OpRows
        /\ WorkerOK(db, durable, objects, worker, emptied)
    BY InvFacts
  <1>2. /\ StoreOK(db') /\ Later(db.op[o], b) /\ db'.op = [db.op EXCEPT ![o] = b]
    BY <1>1, PhaseStep
  <1>3. b \in OpRows /\ b.phase = phase /\ b.swept = db.op[o].swept /\ b.swept \in Nat
    BY <1>1, RowFields DEF Rephased
  <1>4. WorkerOK(db', durable, objects, worker', emptied)
    BY <1>1, WorkerShapes
  <1>5. \A i \in 1..b.swept : i <= db.op[o].swept
    BY <1>3
  <1>6. b.phase \notin LivePhases \cup {"Published"}
    BY <1>3 DEF LivePhases
  <1> QED BY <1>2, <1>3, <1>4, <1>5, <1>6, WorkerRow

(* What was observed of a live operation is still its row.                 *)
LEMMA TakeOverStep ==
    ASSUME IInv, TakeOver
    PROVE  IInv'
  <1> PICK o, row : o = worker.op /\ row = worker.row
    OBVIOUS
  <1> PICK b : b = [row EXCEPT !.phase = "Aborting", !.fresh = FALSE]
    OBVIOUS
  <1>1. /\ o \in Operations /\ row \in OpRows /\ row.phase \in LivePhases
    BY DEF TakeOver, IInv, AllOK, WorkerOK
  <1>2. plan \in Plans /\ db.op[o] \in OpRows
    BY <1>1, InvFacts
  <1>3. /\ db' = Store(db, o, b) /\ worker' = Idle
        /\ UNCHANGED <<plan, durable, objects, puts, doomed, acked, struck, emptied>>
        /\ db.op[o] = IF row.older THEN [row EXCEPT !.fresh = db.op[o].fresh] ELSE row
    BY DEF TakeOver, RowUnchanged, WorkerRows
  <1>4. /\ db.op[o].phase = row.phase /\ db.op[o].staged = row.staged
        /\ db.op[o].uploaded = row.uploaded /\ db.op[o].manifest = row.manifest
        /\ db.op[o].swept = row.swept /\ db.op[o].sweptRows = row.sweptRows
    <2> PICK x \in BOOLEAN : x = db.op[o].fresh
      BY <1>2 DEF OpRows
    <2>1. CASE db.op[o] = row
      BY <2>1
    <2>2. CASE db.op[o] = [row EXCEPT !.fresh = x]
      BY <1>1, <2>2 DEF OpRows
    <2> QED BY <1>3, <2>1, <2>2
  <1>5. Rephased(row, b, "Aborting")
    BY <1>1, <1>2, RowEdits, PhaseTypes
  <1>6. Rephased(db.op[o], b, "Aborting")
    BY <1>4, <1>5 DEF Rephased
  <1>7. <<db.op[o].phase, "Aborting">> \in PhaseMoves
    BY <1>1, <1>4 DEF PhaseMoves, LivePhases
  <1> QED BY <1>1, <1>3, <1>6, <1>7, WorkerPhase

LEMMA WorkerEdits ==
    ASSUME NEW w, NEW pc, NEW o, NEW row, NEW at, NEW x,
           w = [pc |-> pc, op |-> o, row |-> row, at |-> at]
    PROVE  /\ [w EXCEPT !.pc = x] = [pc |-> x, op |-> o, row |-> row, at |-> at]
           /\ [w EXCEPT !.op = x] = [pc |-> pc, op |-> x, row |-> row, at |-> at]
           /\ [w EXCEPT !.row = x] = [pc |-> pc, op |-> o, row |-> x, at |-> at]
           /\ [w EXCEPT !.at = x] = [pc |-> pc, op |-> o, row |-> row, at |-> x]
  <1>1. [w EXCEPT !.pc = x] = [pc |-> x, op |-> o, row |-> row, at |-> at]
    OBVIOUS
  <1>2. [w EXCEPT !.op = x] = [pc |-> pc, op |-> x, row |-> row, at |-> at]
    OBVIOUS
  <1>3. [w EXCEPT !.row = x] = [pc |-> pc, op |-> o, row |-> x, at |-> at]
    OBVIOUS
  <1>4. [w EXCEPT !.at = x] = [pc |-> pc, op |-> o, row |-> row, at |-> x]
    OBVIOUS
  <1> QED BY <1>1, <1>2, <1>3, <1>4

LEMMA VisitStep ==
    ASSUME IInv, NEW o \in Operations, Visit(o)
    PROVE  IInv'
  <1>1. /\ plan \in Plans /\ StoreOK(db) /\ db.op[o] \in OpRows /\ RowOK(db, o)
        /\ WorkerOK(db, durable, objects, worker, emptied) /\ Rev(o) \in Revisions
    BY InvFacts
  <1>2. worker = [pc |-> worker.pc, op |-> worker.op, row |-> worker.row, at |-> worker.at]
    BY <1>1 DEF WorkerOK
  <1>3. ASSUME NEW pc, NEW at
        PROVE  LET w == Enter(o, pc, at)
               IN  /\ w.pc = pc /\ w.op = o /\ w.row = db.op[o] /\ w.at = at
                   /\ w = [pc |-> w.pc, op |-> w.op, row |-> w.row, at |-> w.at]
    <2> PICK row : row = db.op[o]
      OBVIOUS
    <2> PICK w : w = [pc |-> pc, op |-> o, row |-> row, at |-> at]
      OBVIOUS
    <2>1. Enter(o, pc, at) = w
      <3> PICK a1, a2, a3, a4 : worker = [pc |-> a1, op |-> a2, row |-> a3, at |-> a4]
        BY <1>2
      <3> PICK w1 : w1 = [worker EXCEPT !.pc = pc]
        OBVIOUS
      <3> PICK w2 : w2 = [w1 EXCEPT !.op = o]
        OBVIOUS
      <3> PICK w3 : w3 = [w2 EXCEPT !.row = row]
        OBVIOUS
      <3>1. w1 = [pc |-> pc, op |-> a2, row |-> a3, at |-> a4]
        BY Zenon, WorkerEdits
      <3>2. w2 = [pc |-> pc, op |-> o, row |-> a3, at |-> a4]
        BY Zenon, <3>1, WorkerEdits
      <3>3. w3 = [pc |-> pc, op |-> o, row |-> row, at |-> a4]
        BY Zenon, <3>2, WorkerEdits
      <3> PICK w4 : w4 = [w3 EXCEPT !.at = at]
        OBVIOUS
      <3>4. w4 = [pc |-> pc, op |-> o, row |-> row, at |-> at]
        BY Zenon, <3>3, WorkerEdits
      <3> QED BY Zenon, <3>4 DEF Enter
    <2>2. /\ w.pc = pc /\ w.op = o /\ w.row = row /\ w.at = at
          /\ w = [pc |-> w.pc, op |-> w.op, row |-> w.row, at |-> w.at]
      BY Zenon, WorkerRecord
    <2> QED BY Zenon, <2>1, <2>2
  <1>4. CASE ObserveOrphan(o)
    <2> PICK w2 : w2 = Enter(o, "takeover", 0)
      OBVIOUS
    <2>1. /\ db.op[o].phase \in LivePhases /\ (db.op[o].older \/ ~db.op[o].fresh)
          /\ worker' = w2
          /\ UNCHANGED <<plan, db, durable, objects, puts, doomed, acked, struck, emptied>>
      BY <1>4 DEF ObserveOrphan, WorkerRows
    <2>2. /\ w2.pc = "takeover" /\ w2.op = o /\ w2.row = db.op[o]
          /\ w2 = [pc |-> w2.pc, op |-> w2.op, row |-> w2.row, at |-> w2.at]
      BY <1>3
    <2>3. WorkerOK(db, durable, objects, w2, emptied)
      BY <1>1, <2>1, <2>2 DEF WorkerOK
    <2> QED BY <2>1, <2>3, WorkerOnly
  <1>5. CASE BeginCleaning(o)
    <2> PICK b : b = [db.op[o] EXCEPT !.phase = "Cleaning"]
      OBVIOUS
    <2>1. /\ db.op[o].phase = "Aborting" /\ db' = Store(db, o, b)
          /\ worker' = worker /\ worker.pc = "idle"
          /\ UNCHANGED <<plan, durable, objects, puts, doomed, acked, struck, emptied>>
      BY <1>5 DEF BeginCleaning, Visits, WorkerRows
    <2>2. Rephased(db.op[o], b, "Cleaning")
      BY <1>1, RowEdits, PhaseTypes
    <2>3. <<db.op[o].phase, "Cleaning">> \in PhaseMoves
      BY <2>1 DEF PhaseMoves
    <2> QED BY <2>1, <2>2, <2>3, WorkerPhase
  <1>6. CASE BeginCleanup(o)
    <2> PICK pc : pc = IF db.op[o].swept < db.op[o].staged THEN "publish" ELSE "batch"
      OBVIOUS
    <2> PICK at : at = db.op[o].swept + 1
      OBVIOUS
    <2> PICK w2 : w2 = Enter(o, pc, at)
      OBVIOUS
    <2>1. /\ db.op[o].phase = "Cleaning"
          /\ worker' = Enter(o, IF db.revision[Rev(o)] # None THEN "quarantine"
                                ELSE IF db.op[o].swept < db.op[o].staged THEN "publish"
                                ELSE "batch", at)
          /\ UNCHANGED <<plan, db, durable, objects, puts, doomed, acked, struck, emptied>>
      BY <1>6 DEF BeginCleanup, WorkerRows
    <2>2. db.revision[Rev(o)] = None
      <3>1. db.claim[Rev(o)] = o /\ o # None
        BY <1>1, <2>1, PlanFacts DEF RowOK, Holding, ActivePhases
      <3> QED BY <1>1, <3>1 DEF StoreOK
    <2>3. worker' = w2
      BY <2>1, <2>2
    <2>4. /\ w2.pc = pc /\ w2.op = o /\ w2.row = db.op[o] /\ w2.at = at
          /\ w2 = [pc |-> w2.pc, op |-> w2.op, row |-> w2.row, at |-> w2.at]
      BY <1>3
    <2>5. /\ db.op[o].swept \in Nat /\ db.op[o].staged \in Nat
          /\ db.op[o].swept < db.op[o].staged =>
               at \in (db.op[o].swept + 1)..BatchEnd(db.op[o])
      <3>1. db.op[o].swept \in Nat /\ db.op[o].staged \in Nat
        BY <1>1, RowFields
      <3> QED BY <3>1, PublicationAssumption DEF BatchEnd
    <2>6. \A i \in 1..at : i < at => Gone(o, i, objects, emptied)
      <3>1. \A i \in 1..at : i < at => i \in 1..db.op[o].swept
        BY <2>5
      <3>2. SweptEmpty(db, objects, emptied)
        BY DEF IInv, AllOK
      <3> QED BY <3>1, <3>2 DEF SweptEmpty
    <2>7. WorkerOK(db, durable, objects, w2, emptied)
      <3>1. CASE db.op[o].swept < db.op[o].staged
        <4>1. pc = "publish"
          BY <3>1
        <4> QED BY <1>1, <2>1, <2>4, <2>5, <2>6, <3>1, <4>1 DEF WorkerOK
      <3>2. CASE ~(db.op[o].swept < db.op[o].staged)
        <4>1. pc = "batch"
          BY <3>2
        <4> QED BY <1>1, <2>1, <2>4, <3>2, <4>1 DEF WorkerOK
      <3> QED BY <3>1, <3>2
    <2> QED BY <2>1, <2>3, <2>7, WorkerOnly
  <1>7. CASE FinishCleanup(o)
    <2> PICK b : b = [db.op[o] EXCEPT !.phase = "Cleaned"]
      OBVIOUS
    <2> PICK d2 : d2 = IF IsAppend(o) THEN Store(db, o, b) ELSE Released(Store(db, o, b), o)
      OBVIOUS
    <2>1. /\ db.op[o].phase = "Cleaning" /\ ~Unswept(db.op[o]) /\ db' = d2
          /\ worker' = worker /\ worker.pc = "idle"
          /\ UNCHANGED <<plan, durable, objects, puts, doomed, acked, struck, emptied>>
      BY <1>7 DEF FinishCleanup, Visits, WorkerRows
    <2>2. Rephased(db.op[o], b, "Cleaned")
      BY <1>1, RowEdits, PhaseTypes
    <2>3. StoreOK(d2) /\ d2.op = [db.op EXCEPT ![o] = b] /\ Later(db.op[o], b)
      BY <2>1, <2>2, CleanedStore
    <2>4. WorkerOK(d2, durable, objects, worker, emptied)
      BY <1>1, <2>1, WorkerShapes
    <2>5. b \in OpRows /\ b.phase = "Cleaned" /\ b.swept = db.op[o].swept /\ b.swept \in Nat
      BY <1>1, <2>2, RowFields DEF Rephased
    <2>6. \A i \in 1..b.swept : i <= db.op[o].swept
      BY <2>5
    <2> QED BY <2>1, <2>3, <2>4, <2>5, <2>6, WorkerRow DEF LivePhases
  <1> QED BY <1>4, <1>5, <1>6, <1>7 DEF Visit

LEMMA TakeOverEnds ==
    ASSUME IInv, TakeOverRaced \/ TakeOverFails
    PROVE  IInv'
  <1>1. CASE TakeOverRaced
    <2>1. /\ worker' = Idle
          /\ UNCHANGED <<plan, db, durable, objects, puts, doomed, acked, struck, emptied>>
      BY <1>1 DEF TakeOverRaced, WorkerRows
    <2> QED BY <2>1, WorkerOnly, WorkerShapes
  <1>2. CASE TakeOverFails
    <2> PICK w2, u2 : w2 = [Idle EXCEPT !.pc = "failed"] /\ u2 = Recovered(db)
      OBVIOUS
    <2>1. /\ worker' = w2 /\ durable' = u2
          /\ UNCHANGED <<plan, db, objects, puts, doomed, acked, struck, emptied>>
      BY <1>2 DEF TakeOverFails
    <2>2. /\ plan \in Plans
          /\ AllOK(db, durable, objects, puts, doomed, worker, acked, struck, emptied)
      BY DEF IInv
    <2>3. WorkerOK(db, u2, objects, w2, emptied)
      BY WorkerShapes
    <2>4. AllOK(db, u2, objects, puts, doomed, w2, acked, struck, emptied)
      BY <2>2, <2>3, PublishStep
    <2> QED BY <2>1, <2>4, Concluded
  <1> QED BY <1>1, <1>2

(* The rows become durable, between any two steps or before a cleanup.     *)
LEMMA PublishedStep ==
    ASSUME IInv, PublishCurrent \/ PublishBeforeCleanup
    PROVE  IInv'
  <1> PICK u2 : u2 = Recovered(db)
    OBVIOUS
  <1>1. /\ plan \in Plans
        /\ AllOK(db, durable, objects, puts, doomed, worker, acked, struck, emptied)
        /\ StoreOK(db) /\ db \in Stores /\ WorkerOK(db, durable, objects, worker, emptied)
    BY DEF IInv, AllOK, StoreOK
  <1>2. /\ durable' = u2
        /\ UNCHANGED <<plan, db, objects, puts, doomed, acked, struck, emptied>>
    BY DEF PublishCurrent, PublishBeforeCleanup
  <1>3. \A o \in Operations : u2.op[o].phase = db.op[o].phase
    BY <1>1, RecoveredFacts
  <1>4. CASE PublishCurrent
    <2>1. worker' = worker
      BY <1>4 DEF PublishCurrent
    <2>2. WorkerOK(db, u2, objects, worker, emptied)
      BY <1>1, <1>3 DEF WorkerOK
    <2>3. AllOK(db, u2, objects, puts, doomed, worker, acked, struck, emptied)
      BY <1>1, <2>2, PublishStep
    <2> QED BY <1>2, <2>1, <2>3, Concluded
  <1>5. CASE PublishBeforeCleanup
    <2> PICK w2 : w2 = [worker EXCEPT !.pc = "cleanup"]
      OBVIOUS
    <2>1. worker' = w2 /\ worker.pc = "publish"
      BY <1>5 DEF PublishBeforeCleanup
    <2>2. /\ w2.pc = "cleanup" /\ w2.op = worker.op /\ w2.row = worker.row
          /\ w2.at = worker.at
          /\ w2 = [pc |-> w2.pc, op |-> w2.op, row |-> w2.row, at |-> w2.at]
      <3> PICK a1, a2, a3, a4 : /\ a1 = worker.pc /\ a2 = worker.op
                                /\ a3 = worker.row /\ a4 = worker.at
        OBVIOUS
      <3>1. worker = [pc |-> a1, op |-> a2, row |-> a3, at |-> a4]
        BY <1>1 DEF WorkerOK
      <3>2. w2 = [pc |-> "cleanup", op |-> a2, row |-> a3, at |-> a4]
        BY Zenon, <3>1, WorkerEdits
      <3> PICK w3 : w3 = [pc |-> "cleanup", op |-> a2, row |-> a3, at |-> a4]
        OBVIOUS
      <3>3. /\ w3.pc = "cleanup" /\ w3.op = a2 /\ w3.row = a3 /\ w3.at = a4
            /\ w3 = [pc |-> w3.pc, op |-> w3.op, row |-> w3.row, at |-> w3.at]
        BY Zenon, WorkerRecord
      <3> QED BY Zenon, <3>2, <3>3
    <2>3. WorkerOK(db, u2, objects, w2, emptied)
      BY <1>1, <1>3, <2>1, <2>2 DEF WorkerOK
    <2>4. AllOK(db, u2, objects, puts, doomed, w2, acked, struck, emptied)
      BY <1>1, <2>3, PublishStep
    <2> QED BY <1>2, <2>1, <2>4, Concluded
  <1> QED BY <1>4, <1>5

LEMMA SweepStep ==
    ASSUME IInv, CleanupBatch \/ Quarantine
    PROVE  IInv'
  <1> PICK o, row : o = worker.op /\ row = worker.row
    OBVIOUS
  <1>1. /\ plan \in Plans /\ WorkerOK(db, durable, objects, worker, emptied)
    BY DEF IInv, AllOK
  <1>2. /\ worker.pc \in {"batch", "quarantine"} /\ worker' = Idle
        /\ UNCHANGED <<plan, durable, objects, puts, doomed, acked, struck, emptied>>
    BY DEF CleanupBatch, Quarantine, WorkerRows
  <1>3. /\ o \in Operations /\ row = db.op[o] /\ row \in OpRows /\ row.phase = "Cleaning"
        /\ row.staged \in Nat /\ row.staged <= Objects
        /\ row.swept \in Nat /\ row.swept <= row.staged
        /\ BatchEnd(row) \in Nat /\ BatchEnd(row) <= row.staged
        /\ row.swept <= BatchEnd(row)
    BY <1>2, CleaningFacts
  <1>4. CASE CleanupBatch
    <2>1. PICK n \in Nat : n = BatchEnd(row) - row.swept
      BY <1>3
    <2> PICK d2 : d2 = Sweep(o, n)
      OBVIOUS
    <2>2. db' = d2 /\ worker.pc = "batch"
      BY <1>4, <2>1 DEF CleanupBatch, WorkerRows
    <2>3. PICK b \in OpRows :
             /\ d2.op = [db.op EXCEPT ![o] = b] /\ StoreOK(d2)
             /\ Later(db.op[o], b) /\ b.phase = db.op[o].phase
             /\ b.swept = IF db.op[o].swept < db.op[o].staged THEN db.op[o].swept + n
                          ELSE db.op[o].swept
      <3>1. db.op[o].phase \in {"Cleaning", "Quarantined"}
            /\ db.op[o].swept + n <= db.op[o].staged
        BY <1>3, <2>1
      <3>2. \E b \in OpRows :
              /\ Sweep(o, n).op = [db.op EXCEPT ![o] = b]
              /\ StoreOK(Sweep(o, n))
              /\ Later(db.op[o], b) /\ b.phase = db.op[o].phase
              /\ b.swept = IF db.op[o].swept < db.op[o].staged THEN db.op[o].swept + n
                           ELSE db.op[o].swept
        BY <1>3, <3>1, SweepStore
      <3> QED BY <3>2
    <2>4. \A i \in 1..b.swept : i <= db.op[o].swept \/ Gone(o, i, objects, emptied)
      <3>1. CASE row.swept < row.staged
        <4>1. b.swept = BatchEnd(row)
          BY <1>3, <2>1, <2>3, <3>1
        <4>2. \A i \in 1..BatchEnd(row) : Gone(o, i, objects, emptied)
          BY <1>1, <2>2, <3>1 DEF WorkerOK
        <4> QED BY <4>1, <4>2
      <3>2. CASE ~(row.swept < row.staged)
        <4>1. b.swept = db.op[o].swept /\ b.swept \in Nat
          BY <1>3, <2>3, <3>2
        <4> QED BY <4>1
      <3> QED BY <3>1, <3>2
    <2>5. WorkerOK(d2, durable, objects, Idle, emptied)
      BY WorkerShapes
    <2>6. b.phase = "Cleaning"
      BY <1>3, <2>3
    <2> QED BY <1>2, <1>3, <2>2, <2>3, <2>4, <2>5, <2>6, WorkerRow DEF LivePhases
  <1>5. CASE Quarantine
    <2> PICK b : b = [row EXCEPT !.phase = "Quarantined"]
      OBVIOUS
    <2>1. db' = Store(db, o, b) /\ worker.pc = "quarantine"
      BY <1>5 DEF Quarantine, WorkerRows
    <2>2. Rephased(db.op[o], b, "Quarantined")
      BY <1>1, <1>3, RowEdits, PhaseTypes
    <2>3. <<db.op[o].phase, "Quarantined">> \in PhaseMoves
      BY <1>3 DEF PhaseMoves
    <2>4. durable.op[o].phase \in {"Cleaning", "Quarantined"}
      BY <1>1, <2>1 DEF WorkerOK
    <2> QED BY <1>2, <1>3, <2>1, <2>2, <2>3, <2>4, WorkerPhase
  <1> QED BY <1>4, <1>5

LEMMA RecoveryStep ==
    ASSUME IInv, Recover
    PROVE  IInv'
  <1>1. /\ plan \in Plans
        /\ AllOK(db, durable, objects, puts, doomed, worker, acked, struck, emptied)
        /\ StoreOK(durable) /\ durable \in Stores /\ DoomedOK(durable, doomed)
        /\ WorkerOK(db, durable, objects, worker, emptied)
    BY DEF IInv, AllOK, StoreOK
  <1>2. PICK behind \in BOOLEAN :
          db' = [durable EXCEPT !.op = [o \in Operations |->
                   [@[o] EXCEPT !.fresh = behind /\ durable.op[o].phase \in LivePhases]]]
    BY DEF Recover
  <1> PICK d2, dm2 : d2 = db' /\ dm2 = doomed'
    OBVIOUS
  <1> PICK ps2 : ps2 = {[p EXCEPT !.at = "late"] : p \in {q \in puts : q.at # "stored"}}
    OBVIOUS
  <1>3. /\ puts' = ps2 /\ worker' = Idle
        /\ UNCHANGED <<plan, durable, objects, acked, struck, emptied>>
        /\ dm2 = IF worker.pc = "cleanup"
                 THEN doomed \cup {Key(worker.op, worker.at)} ELSE doomed
    BY DEF Recover
  <1>4. DoomedOK(durable, dm2)
    <2>1. CASE worker.pc = "cleanup"
      <3>1. worker.op \in Operations /\ worker.at \in 1..Objects
        BY <2>1, CleaningFacts
      <3>2. durable.op[worker.op].phase \in Ended
        BY <1>1, <2>1 DEF WorkerOK, Ended
      <3> QED BY <1>1, <1>3, <2>1, <3>1, <3>2 DEF DoomedOK
    <2>2. CASE worker.pc # "cleanup"
      BY <1>1, <1>3, <2>2
    <2> QED BY <2>1, <2>2
  <1>5. AllOK(d2, durable, objects, ps2, dm2, Idle, acked, struck, emptied)
    BY <1>1, <1>2, <1>4, RecoverStep
  <1> QED BY <1>3, <1>5, Concluded

-----------------------------------------------------------------------------
(* The invariant.                                                          *)

LEMMA InitInv == Init => IInv
  <1> SUFFICES ASSUME Init PROVE IInv
    OBVIOUS
  <1>1. plan \in Plans /\ durable = Recovered(db) /\ objects = [k \in Keys |-> None]
        /\ puts = {} /\ doomed = {} /\ worker = Idle /\ acked = {}
        /\ struck = {} /\ emptied = {}
    BY DEF Init
  <1> PICK f, g, m : /\ f = [o \in Operations |-> NoOperation]
                     /\ g = [r \in Revisions |-> None]
                     /\ m = [r \in Revisions |-> 0]
    OBVIOUS
  <1>2. db = [op |-> f, claim |-> g, revision |-> g, manifest |-> m, parent |-> NoParent,
              generation |-> 0, active |-> {}]
    BY DEF Init
  <1>3. /\ f \in [Operations -> OpRows] /\ g \in [Revisions -> Operations \cup {None}]
        /\ m \in [Revisions -> Nat]
        /\ NoParent \in [attempt : Nat \cup {None}, done : BOOLEAN]
    BY <1>1, RowTypes DEF NoParent
  <1>4. db \in Stores /\ db.op = f /\ db.claim = g /\ db.revision = g
    BY <1>2, <1>3 DEF Stores
  <1>5. /\ NoOperation.phase = "None" /\ NoOperation.staged = 0 /\ NoOperation.swept = 0
        /\ NoOperation.uploaded = 0
    BY DEF NoOperation
  <1>6. \A o \in Operations :
          /\ db.op[o].phase = "None" /\ db.op[o].staged = 0 /\ db.op[o].swept = 0
    BY <1>4, <1>5
  <1>7. \A o \in Operations : RowOK(db, o)
    BY <1>6 DEF RowOK, Holding, ActivePhases, LivePhases
  <1>8. StoreOK(db)
    BY <1>4, <1>7 DEF StoreOK
  <1> PICK u : u = durable
    OBVIOUS
  <1>9. /\ u \in Stores /\ u.claim = db.claim /\ u.revision = db.revision
        /\ u.manifest = db.manifest /\ u.parent = db.parent
        /\ \A o \in Operations :
             /\ u.op[o].phase = db.op[o].phase /\ u.op[o].staged = db.op[o].staged
             /\ u.op[o].uploaded = db.op[o].uploaded
             /\ u.op[o].manifest = db.op[o].manifest /\ u.op[o].swept = db.op[o].swept
    BY <1>1, <1>4, RecoveredFacts
  <1>10. StoreOK(u)
    BY <1>8, <1>9, SameStore DEF SameRows
  <1>11. \A o \in Operations : Later(u.op[o], db.op[o])
    BY <1>6, <1>9, LaterFacts
  <1>12. /\ UploadsKept(db, objects, struck) /\ UploadsKept(u, objects, struck)
         /\ SweptEmpty(db, objects, emptied) /\ SweptEmpty(u, objects, emptied)
         /\ CleanupDurable(db, u)
    <2>1. \A o \in Operations : /\ db.op[o].phase \notin LivePhases \cup {"Published"}
                                /\ db.op[o].phase # "Quarantined"
      BY <1>6 DEF LivePhases
    <2> QED BY <1>6, <1>9, <2>1 DEF UploadsKept, SweptEmpty, CleanupDurable
  <1>13. /\ objects \in [Keys -> Operations \cup {None, "Sealed"}]
         /\ Ledgered(u, objects)
    <2>1. \A o \in Operations : \A i \in 1..Objects : objects[Key(o, i)] = None
      BY <1>1, KeyFacts
    <2> QED BY <1>1, <2>1, PlanFacts DEF Ledgered
  <1>14. PutsOK(db, u, objects, puts, struck) /\ DoomedOK(u, doomed)
         /\ DoomedOK(u, struck)
    BY <1>1 DEF PutsOK, DoomedOK
  <1>15. WorkerOK(db, u, objects, worker, emptied)
    BY <1>1, WorkerShapes
  <1>16. AllOK(db, u, objects, puts, doomed, worker, acked, struck, emptied)
    BY <1>1, <1>8, <1>10, <1>11, <1>12, <1>13, <1>14, <1>15 DEF AllOK
  <1> QED BY <1>1, <1>16 DEF IInv

LEMMA StepInv == IInv /\ [Next]_vars => IInv'
  <1> SUFFICES ASSUME IInv, [Next]_vars PROVE IInv'
    OBVIOUS
  <1>1. ASSUME NEW o \in Operations, Client(o) PROVE IInv'
    BY <1>1, BeginStep, StageStep, StageManifestStep, FinalizeStep, ClientPhases, AnswerStep
       DEF Client
  <1>2. ASSUME NEW o \in Operations, Operator(o) PROVE IInv'
    BY <1>2, OperatorStep, ReconcileStep DEF Operator
  <1>3. ASSUME NEW p \in puts, Upload(p) PROVE IInv'
    BY <1>3, UploadStep, RecordStep DEF Upload
  <1>4. CASE WorkerStep
    BY <1>4, TakeOverStep, TakeOverEnds, PublishedStep, CleanupStep, SweepStep DEF WorkerStep
  <1>5. CASE Crash \/ Restart
    BY <1>5, RecoveryStep DEF Crash, Restart
  <1>6. CASE UNCHANGED vars
    <2>1. /\ plan' = plan
          /\ AllOK(db', durable', objects', puts', doomed', worker', acked', struck', emptied')
      BY <1>6 DEF vars, IInv
    <2> QED BY <2>1, Concluded
  <1> QED BY <1>1, <1>2, <1>3, <1>4, <1>5, <1>6, ExpireStep, LateCleanupStep, VisitStep,
             PathStep, PublishedStep DEF Next

LEMMA Invariance == Spec => []IInv
  BY InitInv, StepInv, PTL DEF Spec

-----------------------------------------------------------------------------
(* What the invariant means.                                               *)

\* A published revision has its manifest and its objects, in the serving store
\* and in what a successor recovers, whatever uploads and cleanups, of any
\* operation and any owner, arrive in whatever order (finalize_publish against
\* clean_publication and the provider).  The only exception the code leaves is an
\* object struck by a cleanup request that outlived its caller, and then another
\* operation of the same revision was cleaned up before (release_revision_claim).
THEOREM Readable == Spec => []ReadableUnlessReused
  <1>1. IInv => ReadableUnlessReused
    <2> SUFFICES ASSUME IInv, NEW d \in {db, durable}, NEW r \in Revisions,
                        d.revision[r] # None
                 PROVE  /\ d.manifest[r] = ManifestRows
                        /\ \A i \in 1..Objects :
                              \/ objects[<<r, i>>] = d.revision[r]
                              \/ /\ <<r, i>> \in struck
                                 /\ \E o \in Operations \ {d.revision[r]} :
                                       Rev(o) = r /\ d.op[o].phase = "Cleaned"
      BY DEF ReadableUnlessReused
    <2>1. /\ plan \in Plans /\ StoreOK(d) /\ UploadsKept(d, objects, struck)
          /\ DoomedOK(durable, struck)
          /\ \A q \in Operations : Later(durable.op[q], db.op[q])
      BY DEF IInv, AllOK
    <2>2. PICK o \in Operations : o = d.revision[r]
      BY <2>1 DEF StoreOK, Stores
    <2>3. Rev(o) = r /\ d.op[o].phase = "Published"
      BY <2>1, <2>2 DEF StoreOK
    <2>4. d.op[o].uploaded = Objects /\ d.manifest[r] = ManifestRows
      BY <2>1, <2>3 DEF StoreOK, RowOK
    <2>5. ASSUME NEW i \in 1..Objects, Key(o, i) \in struck
          PROVE  \E q \in Operations \ {o} : Rev(q) = r /\ d.op[q].phase = "Cleaned"
      <3>1. PICK q \in Operations, j \in 1..Objects :
              Key(o, i) = Key(q, j) /\ durable.op[q].phase \in Ended
        BY <2>1, <2>5 DEF DoomedOK
      <3>2. Rev(q) = r /\ d.op[q].phase \in Ended /\ q # o
        BY <2>1, <2>3, <3>1, KeyFacts DEF Later, Ended
      <3>3. d.claim[r] = None
        BY <2>1 DEF StoreOK
      <3>4. d.op[q].phase \in {"Cleaning", "Quarantined"} => d.claim[r] = q
        BY <2>1, <3>2 DEF StoreOK, RowOK, Holding, ActivePhases
      <3> QED BY <2>1, <3>2, <3>3, <3>4, PlanFacts DEF Ended
    <2>6. \A i \in 1..Objects : Standing(o, i, objects, struck)
      BY <2>1, <2>3, <2>4 DEF UploadsKept
    <2>7. \A i : Key(o, i) = <<r, i>>
      BY <2>3 DEF Key
    <2> QED BY <2>2, <2>4, <2>5, <2>6, <2>7 DEF Standing
  <1> QED BY <1>1, Invariance, PTL

\* Whatever stands in the provider was staged in the ledger a successor recovers
\* (admit_upload waits for the ledger to be durable), and its row is there still,
\* unless the key had been emptied before the object came (cleanup_publish_batch
\* deletes a row after its key was emptied).
THEOREM Ledger == Spec => []ObjectsAreLedgered
  <1>1. IInv => ObjectsAreLedgered
    <2> SUFFICES ASSUME IInv, NEW d \in {db, durable}, NEW o \in Operations,
                        NEW i \in 1..Objects, objects[Key(o, i)] = o
                 PROVE  i <= d.op[o].staged /\ (i > d.op[o].swept \/ <<o, i>> \in emptied)
      BY DEF ObjectsAreLedgered
    <2>1. /\ plan \in Plans /\ StoreOK(db) /\ StoreOK(durable) /\ Ledgered(durable, objects)
          /\ SweptEmpty(d, objects, emptied)
          /\ Later(durable.op[o], db.op[o])
      BY DEF IInv, AllOK
    <2>2. /\ durable.op[o].staged \in Nat /\ db.op[o].staged \in Nat
          /\ d.op[o].swept \in Nat /\ Objects \in Nat
      BY <2>1, RowFields, PlanFacts
    <2>3. i <= durable.op[o].staged
      BY <2>1 DEF Ledgered
    <2>4. durable.op[o].staged <= db.op[o].staged
      BY <2>1 DEF Later
    <2>5. i <= d.op[o].staged
      BY <2>2, <2>3, <2>4
    <2>6. i <= d.op[o].swept => <<o, i>> \in emptied
      BY <2>1, <2>2 DEF SweptEmpty, Gone
    <2> QED BY <2>2, <2>5, <2>6
  <1> QED BY <1>1, Invariance, PTL

\* What a client was told is published stays published, under its own revision,
\* across any number of failovers (the acknowledgement barrier).
THEOREM AckedStays == Spec => []AckedStaysPublished
  <1>1. IInv => AckedStaysPublished
    <2> SUFFICES ASSUME IInv, NEW o \in acked
                 PROVE  db.op[o].phase = "Published" /\ db.revision[Rev(o)] = o
      BY DEF AckedStaysPublished
    <2>1. o \in Operations /\ durable.op[o].phase = "Published"
      BY DEF IInv, AllOK
    <2>2. db.op[o].phase = "Published" /\ RowOK(db, o)
      BY <2>1, InvFacts DEF Later
    <2> QED BY <2>2 DEF RowOK
  <1> QED BY <1>1, Invariance, PTL

\* At most one attempt of the logical append publishes (validate_append_authority
\* on every command of an attempt).
THEOREM Once == Spec => []AppendedOnce
  <1>1. IInv => AppendedOnce
    <2> SUFFICES ASSUME IInv PROVE AppendedOnce
      OBVIOUS
    <2> DEFINE S == {o \in Operations : IsAppend(o) /\ db.op[o].phase = "Published"}
    <2>1. ASSUME NEW o \in S, NEW q \in S PROVE o = q
      <3>1. /\ db.parent = [attempt |-> plan.attempt[o], done |-> TRUE]
            /\ db.parent = [attempt |-> plan.attempt[q], done |-> TRUE]
        BY DEF IInv, AllOK, StoreOK, RowOK
      <3>2. db.parent.attempt = plan.attempt[o] /\ db.parent.attempt = plan.attempt[q]
        BY <3>1
      <3> QED BY <3>2, PlanFacts DEF IInv
    <2> HIDE DEF S
    <2>2. CASE S = {}
      <3>1. Cardinality(S) = 0
        BY <2>2, FS_EmptySet
      <3> QED BY <3>1 DEF AppendedOnce, S
    <2>3. CASE S # {}
      <3>1. PICK o : S = {o}
        BY <2>1, <2>3
      <3>2. Cardinality(S) = 1
        BY <3>1, FS_Singleton
      <3> QED BY <3>2 DEF AppendedOnce, S
    <2> QED BY <2>2, <2>3
  <1> QED BY <1>1, Invariance, PTL

\* The keys of an append attempt that was cleaned are sealed and its revision
\* stays reserved, in the serving store and for a successor (cleanup_publish_batch
\* sweeps a row after its key was sealed).
THEOREM Sealed == Spec => []SealedForGood
  <1>1. IInv => SealedForGood
    <2> SUFFICES ASSUME IInv, NEW d \in {db, durable}, NEW o \in Operations,
                        IsAppend(o), d.op[o].phase = "Cleaned"
                 PROVE  /\ d.claim[Rev(o)] = o
                        /\ \A i \in 1..d.op[o].staged : objects[Key(o, i)] = "Sealed"
      BY DEF SealedForGood
    <2>1. plan \in Plans /\ StoreOK(d) /\ SweptEmpty(d, objects, emptied)
      BY DEF IInv, AllOK
    <2>2. /\ RowOK(d, o) /\ d.op[o].staged \in Nat /\ d.op[o].swept \in Nat
      BY <2>1, RowFields
    <2>3. d.claim[Rev(o)] = o /\ d.op[o].swept >= d.op[o].staged
      BY <2>2 DEF RowOK
    <2>4. \A i \in 1..d.op[o].staged : i \in 1..d.op[o].swept
      BY <2>2, <2>3
    <2> QED BY <2>1, <2>3, <2>4 DEF SweptEmpty, Gone
  <1> QED BY <1>1, Invariance, PTL

\* The worker ends an operation of its own epoch only if its lease is expired at
\* that moment (take_over_orphaned_publish compares the row it observed).
THEOREM LiveLeftAlone == Spec => LiveIsLeftAlone
  <1>1. ASSUME IInv, [Next]_vars
        PROVE  [\A o \in Operations :
                  worker.pc = "takeover" /\ db.op[o].phase \in LivePhases
                    /\ db'.op[o].phase = "Aborting" /\ worker' # worker
                    => db.op[o].older \/ ~db.op[o].fresh]_vars
    <2> SUFFICES ASSUME NEW o \in Operations,
                        worker.pc = "takeover", db.op[o].phase \in LivePhases,
                        db'.op[o].phase = "Aborting", worker' # worker
                 PROVE  db.op[o].older \/ ~db.op[o].fresh
      OBVIOUS
    <2>1. /\ plan \in Plans /\ db.op \in [Operations -> OpRows] /\ db \in Stores
          /\ Later(durable.op[o], db.op[o]) /\ db.op[o] \in OpRows
          /\ WorkerOK(db, durable, objects, worker, emptied) /\ StoreOK(durable)
      BY <1>1, InvFacts
    <2>2. db' # db
      BY DEF LivePhases
    <2>3. TakeOver \/ Recover
      BY <1>1, <2>2, ZenonT(60) DEF Next, vars, Client, Begin, StageObjects, AdmitUpload, StageManifest,
         BeginFinalization, FinalizePublish, FailAppendConflict, AbortPublish, Answer,
         RetryAppendCleanup, Operator, OperatorRemoves, ReconcileBatch, ReconcileFinish,
         Expire, Upload, CreateImmutable, CreateCollides, CreateFails, LateCreate,
         RecordUpload, Provider, LateCleanup, Visit, ObserveOrphan, BeginCleaning,
         BeginCleanup, FinishCleanup, Visits, WorkerStep, TakeOverRaced, TakeOverFails,
         PublishBeforeCleanup, CleanupObject, CleanupAmbiguous, CleanupBatch, Quarantine,
         PathMoves, PublishCurrent, Crash, Restart, Rows, RowsKept, WorkerRows
    <2>4. CASE TakeOver
      <3> PICK q, row : q = worker.op /\ row = worker.row
        OBVIOUS
      <3> PICK b : b = [row EXCEPT !.phase = "Aborting", !.fresh = FALSE]
        OBVIOUS
      <3>1. /\ q \in Operations /\ row \in OpRows /\ (row.older \/ ~row.fresh)
            /\ row.phase \in LivePhases
        BY <2>1 DEF WorkerOK
      <3>2. /\ db' = Store(db, q, b)
            /\ db.op[q] = IF row.older THEN [row EXCEPT !.fresh = db.op[q].fresh] ELSE row
        BY <2>4 DEF TakeOver, RowUnchanged, WorkerRows
      <3>3. b \in OpRows
        BY <2>1, <3>1, RowEdits, PhaseTypes DEF Rephased
      <3>4. db'.op = [db.op EXCEPT ![q] = b]
        BY <2>1, <3>1, <3>2, <3>3, StoreFacts
      <3>5. o = q
        BY <2>1, <3>4 DEF LivePhases
      <3>6. CASE row.older
        <4> PICK x \in BOOLEAN : x = db.op[q].fresh
          BY <2>1, <3>5 DEF OpRows
        <4>1. db.op[q] = [row EXCEPT !.fresh = x]
          BY <3>2, <3>6
        <4>2. db.op[q].older = row.older
          BY <3>1, <4>1 DEF OpRows
        <4> QED BY <3>5, <3>6, <4>2
      <3>7. CASE ~row.older
        BY <3>1, <3>2, <3>5, <3>7
      <3> QED BY <3>6, <3>7
    <2>5. CASE Recover
      <3>1. PICK behind \in BOOLEAN :
              db' = [durable EXCEPT !.op = [x \in Operations |->
                       [@[x] EXCEPT !.fresh = behind /\ durable.op[x].phase \in LivePhases]]]
        BY <2>5 DEF Recover
      <3>2. PICK new \in BOOLEAN : new = (behind /\ durable.op[o].phase \in LivePhases)
        OBVIOUS
      <3>3. durable \in Stores /\ durable.op[o] \in OpRows
        BY <2>1, RowFields
      <3>4. db'.op[o] = [durable.op[o] EXCEPT !.fresh = new]
        BY <3>1, <3>2, <3>3 DEF Stores
      <3>5. db'.op[o].phase = durable.op[o].phase
        BY <3>3, <3>4 DEF OpRows
      <3> QED BY <2>1, <3>5 DEF Later, Ended, LivePhases
    <2> QED BY <2>3, <2>4, <2>5
  <1> QED BY <1>1, Invariance, PTL DEF Spec, LiveIsLeftAlone

=============================================================================
