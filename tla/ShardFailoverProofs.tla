------------------------ MODULE ShardFailoverProofs -------------------------
(***************************************************************************)
(* Proofs about ShardFailover, for every set of nodes and requests and     *)
(* every number of ownership acquisitions: what is acknowledged is         *)
(* durable, every serving owner has it, the durable log only grows, and    *)
(* recovery leaves no epoch gap.                                           *)
(*                                                                         *)
(* The argument does not mention the session: only the process whose lease *)
(* the record names can write the record, and the record names a lease     *)
(* until somebody acquires the shard under a new lease id.                 *)
(***************************************************************************)
EXTENDS ShardFailover, TLAPS

RowSet == [epoch : Nat, request : Requests \cup {RootFence, None}]

\* Epochs never decrease along a chain.
Chains == {c \in Seq(RowSet) :
             \A i, j \in 1..Len(c) : i <= j => c[i].epoch <= c[j].epoch}

Segments == [first : Nat, last : Nat, digest : Chains]
Intents == [first : Nat, last : Nat, prev : Chains, digest : Chains]
Leases == [owner : Owners, epoch : Nat, id : Nat]
Records == [owner : Owners \cup {None}, epoch : Nat, lease : Nat,
            state : {"Unassigned", "Recovering", "Serving"},
            checkpoint : {None}, log : Seq(Segments),
            durable : Nat, pending : {None} \cup Intents]

Rounds == [step : {"sample", "prove", "prepare", "upload", "finalize", "confirm"},
           covers : SUBSET Requests, required : {None} \cup Chains,
           intent : {None} \cup Intents]

Stages == {"new", "arrived", "admitted", "executed", "waiting", "acked", "lost"}
Opens == {None, "New", "Existing", "RecoverLog"}
Seen == {None} \cup [epoch : Nat, state : {"Unassigned", "Recovering", "Serving"}]
               \cup [durable : Nat]

\* How far a process has come.
PublishingPcs == {"first", "second", "serving", "releasing"}
AnnouncedPcs == {"attach", "second", "mark", "serving", "releasing", "release"}
ActivePcs == {"first"} \cup AnnouncedPcs
ReconciledPcs == {"reconciled"} \cup ActivePcs
LeasedPcs == {"admitted", "cleanup", "abort", "failed"} \cup ReconciledPcs
Procs == [pc : {"down", "opened"} \cup LeasedPcs, open : Opens, record : Seen,
          lease : {None} \cup Leases, intent : {None} \cup Intents]

TypeOK ==
    /\ deployment \in Deployments
    /\ control \in Records
    /\ nextLease \in Nat
    /\ store \in [Owners -> {None} \cup Chains]
    /\ synced \in [Owners -> Nat]
    /\ proc \in [Owners -> Procs]
    /\ round \in [Owners -> {None} \cup Rounds]
    /\ req \in [Requests -> [at : {None} \cup Owners, stage : Stages]]

\* The digest of an upload extends the one it follows.
IntentOK(intent) ==
    /\ intent.first = Len(intent.prev) + 1
    /\ intent.last = Len(intent.digest)
    /\ IsPrefix(intent.prev, intent.digest)

\* The record ends where its last digest does, and a pending upload follows it.
RecordOK(record) ==
    /\ record.durable = Len(DurableChain(record))
    /\ record.log # <<>> => LogLsn(record.log) = record.durable
    /\ record.pending # None =>
         IntentOK(record.pending) /\ record.pending.prev = DurableChain(record)

\* The epochs in which the durable chain and the pending one may end.
Ends(record) == IF record.state = "Recovering" THEN {record.epoch, record.epoch - 1}
                                               ELSE {record.epoch}
EpochsOK(record) ==
    /\ LocalEpoch(DurableChain(record)) \in Ends(record)
    /\ record.pending # None => LocalEpoch(record.pending.digest) \in Ends(record)

\* What a process knows of its store, and of the record while that names its lease.
ProcOK(n) ==
    /\ proc[n].pc # "down" =>
         /\ n \in deployment.nodes /\ store[n] \in Chains
         /\ proc[n].open = "RecoverLog" => Shared
    /\ proc[n].pc \in LeasedPcs =>
         /\ proc[n].lease \in Leases /\ proc[n].lease.owner = n
         /\ 0 < proc[n].lease.id /\ proc[n].lease.id <= nextLease
    /\ proc[n].pc \in ActivePcs => LocalEpoch(store[n]) = proc[n].lease.epoch
    /\ proc[n].pc = "mark" => proc[n].record \in [durable : Nat]
    /\ Shared /\ proc[n].pc \in LeasedPcs /\ NamesLease(control, proc[n].lease) =>
         /\ proc[n].pc \in ReconciledPcs => IsPrefix(DurableChain(control), store[n])
         /\ proc[n].pc \in AnnouncedPcs =>
              LocalEpoch(DurableChain(control)) = proc[n].lease.epoch

\* What a round has sampled and planned, and whom it covers.
RoundOK(n) ==
    round[n] # None =>
      /\ proc[n].pc \in PublishingPcs
      /\ round[n].step = "confirm" <=> ~Shared
      /\ \A r \in round[n].covers : req[r].at = n /\ req[r].stage \in {"arrived", "waiting"}
      /\ proc[n].pc = "serving" => round[n].covers # {}
      /\ proc[n].pc = "releasing" /\ round[n].covers = {} => InFlight(n) = {}
      /\ round[n].step \in {"prove", "prepare", "upload", "finalize"} =>
           /\ round[n].required \in Chains
           /\ LocalEpoch(round[n].required) = proc[n].lease.epoch
           /\ IsPrefix(round[n].required, store[n])
           /\ \A r \in round[n].covers :
                req[r].stage = "waiting" => r \in Rows(round[n].required)
      /\ round[n].step \in {"prepare", "upload", "finalize"} =>
           /\ round[n].intent \in Intents /\ IntentOK(round[n].intent)
           /\ IsPrefix(round[n].intent.digest, store[n])
           /\ LocalEpoch(round[n].intent.digest)
                \in {proc[n].lease.epoch, proc[n].lease.epoch - 1}

\* Where the row of a request is.
ReqOK(r) ==
    LET n == req[r].at IN
    /\ req[r].stage \notin {"new", "lost", "acked"} =>
         n \in Owners /\ proc[n].pc \in {"serving", "releasing"}
    /\ req[r].stage \in {"executed", "waiting"} => r \in Rows(store[n])
    /\ Shared /\ req[r].stage = "acked" => r \in Rows(DurableChain(control))
    /\ ~Shared /\ req[r].stage \in {"waiting", "acked"} =>
         /\ n \in deployment.nodes /\ store[n] \in Chains
         /\ \E i \in 1..Len(store[n]) : i <= synced[n] /\ store[n][i].request = r

IInv ==
    /\ TypeOK
    /\ RecordOK(control)
    /\ Shared => EpochsOK(control)
    /\ \A n \in Owners : ProcOK(n)
    /\ \A n \in Owners : RoundOK(n)
    /\ \A r \in Requests : ReqOK(r)

-----------------------------------------------------------------------------
(* Chains.                                                                 *)

LEMMA ChainType ==
    ASSUME NEW c \in Chains
    PROVE  /\ c \in Seq(RowSet) /\ Len(c) \in Nat
           /\ \A i \in 1..Len(c) : c[i] \in RowSet
           /\ LocalEpoch(c) \in Nat
  <1>1. c \in Seq(RowSet) /\ Len(c) \in Nat /\ \A i \in 1..Len(c) : c[i] \in RowSet
    BY DEF Chains
  <1>2. c # <<>> => Len(c) \in 1..Len(c)
    BY <1>1
  <1>3. LocalEpoch(c) \in Nat
    BY <1>1, <1>2 DEF LocalEpoch, RowSet
  <1> QED BY <1>1, <1>3

LEMMA EmptyChain == <<>> \in Chains /\ LocalEpoch(<<>>) = 0
  BY DEF Chains, LocalEpoch

(* A prefix, position by position.                                         *)
LEMMA PrefixAt ==
    ASSUME NEW p \in Chains, NEW c \in Chains
    PROVE  IsPrefix(p, c) <=> Len(p) <= Len(c) /\ \A i \in 1..Len(p) : p[i] = c[i]
  <1>1. /\ p \in Seq(RowSet) /\ c \in Seq(RowSet) /\ Len(p) \in Nat /\ Len(c) \in Nat
    BY ChainType
  <1>2. SubSeq(p, 1, Len(p)) = p
    BY <1>1
  <1>3. ASSUME Len(p) <= Len(c)
        PROVE  /\ SubSeq(c, 1, Len(p)) \in Seq(RowSet)
               /\ Len(SubSeq(c, 1, Len(p))) = Len(p)
               /\ \A i \in 1..Len(p) : SubSeq(c, 1, Len(p))[i] = c[i]
    BY <1>1, <1>3
  <1>4. ASSUME Len(p) <= Len(c), \A i \in 1..Len(p) : p[i] = c[i]
        PROVE  SubSeq(c, 1, Len(p)) = p
    <2>1. \A i \in 1..Len(p) : SubSeq(c, 1, Len(p))[i] = p[i]
      BY <1>3, <1>4
    <2> QED BY <1>1, <1>3, <1>4, <2>1
  <1> QED BY <1>1, <1>2, <1>3, <1>4 DEF IsPrefix

LEMMA PrefixRefl ==
    ASSUME NEW c \in Chains PROVE IsPrefix(c, c) /\ IsPrefix(<<>>, c)
  <1>1. Len(c) \in Nat /\ Len(<<>>) = 0
    BY ChainType
  <1> QED BY <1>1, EmptyChain, PrefixAt

LEMMA PrefixTrans ==
    ASSUME NEW p \in Chains, NEW q \in Chains, NEW c \in Chains,
           IsPrefix(p, q), IsPrefix(q, c)
    PROVE  IsPrefix(p, c)
  <1>1. Len(p) \in Nat /\ Len(q) \in Nat /\ Len(c) \in Nat
    BY ChainType
  <1>2. /\ Len(p) <= Len(q) /\ \A i \in 1..Len(p) : p[i] = q[i]
        /\ Len(q) <= Len(c) /\ \A i \in 1..Len(q) : q[i] = c[i]
    BY PrefixAt
  <1>3. Len(p) <= Len(c) /\ \A i \in 1..Len(p) : p[i] = c[i]
    BY <1>1, <1>2
  <1> QED BY <1>3, PrefixAt

(* Two prefixes of one chain are ordered by their lengths.                 *)
LEMMA PrefixOrder ==
    ASSUME NEW p \in Chains, NEW q \in Chains, NEW c \in Chains,
           IsPrefix(p, c), IsPrefix(q, c), Len(p) <= Len(q)
    PROVE  IsPrefix(p, q)
  <1>1. Len(p) \in Nat /\ Len(q) \in Nat /\ Len(c) \in Nat
    BY ChainType
  <1>2. /\ \A i \in 1..Len(p) : p[i] = c[i]
        /\ Len(q) <= Len(c) /\ \A i \in 1..Len(q) : q[i] = c[i]
    BY PrefixAt
  <1>3. \A i \in 1..Len(p) : p[i] = q[i]
    BY <1>1, <1>2
  <1> QED BY <1>3, PrefixAt

(* A longer chain has the rows of a shorter one and ends no earlier.       *)
LEMMA PrefixRows ==
    ASSUME NEW p \in Chains, NEW c \in Chains, IsPrefix(p, c)
    PROVE  Rows(p) \subseteq Rows(c) /\ LocalEpoch(p) <= LocalEpoch(c)
  <1>1. /\ Len(p) \in Nat /\ Len(c) \in Nat /\ LocalEpoch(c) \in Nat
        /\ \A i \in 1..Len(c) : c[i] \in RowSet
    BY ChainType
  <1>2. Len(p) <= Len(c) /\ \A i \in 1..Len(p) : p[i] = c[i]
    BY PrefixAt
  <1>3. Rows(p) \subseteq Rows(c)
    BY <1>1, <1>2 DEF Rows
  <1>4. CASE p = <<>>
    BY <1>1, <1>3, <1>4, EmptyChain
  <1>5. CASE p # <<>>
    <2>1. Len(p) \in 1..Len(p) /\ Len(p) \in 1..Len(c) /\ Len(c) \in 1..Len(c) /\ c # <<>>
      BY <1>1, <1>2, <1>5, ChainType
    <2>2. c[Len(p)].epoch <= c[Len(c)].epoch
      BY <1>2, <2>1 DEF Chains
    <2> QED BY <1>2, <1>3, <1>5, <2>1, <2>2 DEF LocalEpoch
  <1> QED BY <1>4, <1>5

(* Appending a row.                                                        *)
LEMMA AppendChain ==
    ASSUME NEW c \in Chains, NEW row \in RowSet, LocalEpoch(c) <= row.epoch
    PROVE  /\ Append(c, row) \in Chains /\ IsPrefix(c, Append(c, row))
           /\ LocalEpoch(Append(c, row)) = row.epoch
           /\ row.request \in Rows(Append(c, row)) /\ Rows(c) \subseteq Rows(Append(c, row))
           /\ Len(Append(c, row)) = Len(c) + 1
           /\ \A i \in 1..Len(c) : Append(c, row)[i] = c[i]
  <1>1. /\ c \in Seq(RowSet) /\ Len(c) \in Nat /\ LocalEpoch(c) \in Nat
        /\ \A i \in 1..Len(c) : c[i] \in RowSet
    BY ChainType
  <1> PICK d : d = Append(c, row)
    OBVIOUS
  <1>2. /\ d \in Seq(RowSet) /\ Len(d) = Len(c) + 1 /\ d[Len(c) + 1] = row
        /\ \A i \in 1..Len(c) : d[i] = c[i]
    BY <1>1
  <1>3. \A i \in 1..Len(c) : c[i].epoch <= row.epoch
    <2> SUFFICES ASSUME NEW i \in 1..Len(c) PROVE c[i].epoch <= row.epoch
      OBVIOUS
    <2>1. Len(c) \in 1..Len(c) /\ i <= Len(c) /\ c # <<>>
      BY <1>1
    <2>2. c[i].epoch <= c[Len(c)].epoch /\ c[Len(c)].epoch = LocalEpoch(c)
      BY <2>1 DEF Chains, LocalEpoch
    <2>3. c[i].epoch \in Nat /\ row.epoch \in Nat
      BY <1>1 DEF RowSet
    <2> QED BY <1>1, <2>2, <2>3
  <1>4. \A i, j \in 1..Len(d) : i <= j => d[i].epoch <= d[j].epoch
    <2> SUFFICES ASSUME NEW i \in 1..Len(d), NEW j \in 1..Len(d), i <= j
                 PROVE  d[i].epoch <= d[j].epoch
      OBVIOUS
    <2>1. CASE j \in 1..Len(c)
      <3>1. i \in 1..Len(c)
        BY <1>1, <2>1
      <3>2. c[i].epoch <= c[j].epoch
        BY <2>1, <3>1 DEF Chains
      <3> QED BY <1>2, <2>1, <3>1, <3>2
    <2>2. CASE j = Len(c) + 1
      <3>1. row.epoch \in Nat
        BY DEF RowSet
      <3>2. CASE i \in 1..Len(c)
        BY <1>2, <1>3, <2>2, <3>2
      <3>3. CASE i = Len(c) + 1
        BY <1>2, <2>2, <3>1, <3>3
      <3> QED BY <1>1, <1>2, <3>2, <3>3
    <2> QED BY <1>1, <1>2, <2>1, <2>2
  <1>5. d \in Chains
    BY <1>2, <1>4 DEF Chains
  <1>6. IsPrefix(c, d)
    <2>1. Len(c) <= Len(d) /\ \A i \in 1..Len(c) : c[i] = d[i]
      BY <1>1, <1>2
    <2> QED BY <1>5, <2>1, PrefixAt, Zenon
  <1>7. LocalEpoch(d) = row.epoch /\ row.request \in Rows(d)
    <2>1. d # <<>> /\ Len(c) + 1 \in 1..Len(d)
      BY <1>1, <1>2
    <2> QED BY <1>2, <2>1 DEF LocalEpoch, Rows
  <1> QED BY <1>2, <1>5, <1>6, <1>7, PrefixRows

(* Cutting a chain.                                                        *)
LEMMA CutChain ==
    ASSUME NEW c \in Chains, NEW k \in 0..Len(c)
    PROVE  /\ SubSeq(c, 1, k) \in Chains /\ Len(SubSeq(c, 1, k)) = k
           /\ \A i \in 1..k : SubSeq(c, 1, k)[i] = c[i]
           /\ IsPrefix(SubSeq(c, 1, k), c)
  <1>1. c \in Seq(RowSet) /\ Len(c) \in Nat
    BY ChainType
  <1> PICK d : d = SubSeq(c, 1, k)
    OBVIOUS
  <1>2. d \in Seq(RowSet) /\ Len(d) = k /\ \A i \in 1..k : d[i] = c[i]
    BY <1>1
  <1>3. \A i, j \in 1..k : i <= j => c[i].epoch <= c[j].epoch
    BY <1>1 DEF Chains
  <1>4. d \in Chains
    <2>1. \A i, j \in 1..Len(d) : i <= j => d[i].epoch <= d[j].epoch
      <3> SUFFICES ASSUME NEW i \in 1..k, NEW j \in 1..k, i <= j
                   PROVE  d[i].epoch <= d[j].epoch
        BY <1>2
      <3> QED BY <1>2, <1>3
    <2> QED BY <1>2, <2>1, Zenon DEF Chains
  <1>5. IsPrefix(d, c)
    <2>1. Len(d) <= Len(c) /\ \A i \in 1..Len(d) : d[i] = c[i]
      BY <1>1, <1>2
    <2> QED BY <1>4, <2>1, PrefixAt, Zenon
  <1> QED BY <1>2, <1>4, <1>5

-----------------------------------------------------------------------------
(* The record.                                                             *)

LEMMA DurableType ==
    ASSUME NEW record \in Records
    PROVE  /\ DurableChain(record) \in Chains
           /\ LocalEpoch(DurableChain(record)) \in Nat
  <1>1. record.log \in Seq(Segments)
    BY DEF Records
  <1>2. record.log # <<>> => Len(record.log) \in 1..Len(record.log)
    BY <1>1
  <1>3. record.log # <<>> => record.log[Len(record.log)] \in Segments
    BY <1>1, <1>2
  <1>4. DurableChain(record) \in Chains
    BY <1>3, EmptyChain DEF DurableChain, Segments
  <1> QED BY <1>4, ChainType

(* The tail digest the control store compares is the durable chain.        *)
LEMMA TailIsDurable ==
    ASSUME NEW record \in Records, RecordOK(record), NEW intent \in Intents,
           IntentOK(intent), IntentAccepted(record, intent)
    PROVE  intent.prev = DurableChain(record)
  <1>1. /\ record.log \in Seq(Segments) /\ DurableChain(record) \in Chains
        /\ intent.prev \in Chains
    BY DurableType DEF Records, Intents
  <1>2. CASE record.log = <<>>
    <2>1. record.durable = 0 /\ DurableChain(record) = <<>>
      BY <1>2 DEF RecordOK, DurableChain
    <2>2. Len(intent.prev) = 0
      BY <1>1, <2>1, ChainType DEF IntentAccepted, IntentOK
    <2>3. intent.prev = <<>>
      BY <1>1, <2>2, ChainType
    <2> QED BY <2>1, <2>3
  <1>3. CASE record.log # <<>>
    <2>1. TailDigest(record) = DurableChain(record)
      BY <1>3 DEF RecordOK, TailDigest, DurableChain
    <2>2. TailDigest(record) # None
      BY <1>1, <2>1, FailoverBounds, ChainType DEF RowSet
    <2> QED BY <2>1, <2>2 DEF IntentAccepted
  <1> QED BY <1>2, <1>3

-----------------------------------------------------------------------------
(* Steps of one node.                                                      *)

\* The store of n keeps its rows, and what was synced stays synced.
Extends(n) ==
    store[n] \in Chains =>
      /\ store'[n] \in Chains /\ IsPrefix(store[n], store'[n])
      /\ \A i \in 1..Len(store[n]) : i <= synced[n] => i <= synced'[n]

\* A step of n alone: every other node keeps what is its own, and the record,
\* if it changes, names the lease of no other process.
OnlyNode(n) ==
    /\ deployment' = deployment /\ nextLease <= nextLease'
    /\ \/ control' = control
       \/ \A m \in Owners \ {n} : proc[m].pc \in LeasedPcs =>
            ~NamesLease(control', proc[m].lease)
    /\ Rows(DurableChain(control)) \subseteq Rows(DurableChain(control'))
    /\ \A m \in Owners \ {n} :
         /\ proc'[m] = proc[m] /\ round'[m] = round[m]
         /\ store'[m] = store[m] /\ synced'[m] = synced[m]
    /\ \A r \in Requests :
         \/ req'[r] = req[r]
         \/ (req[r].stage = "new" \/ req[r].at = n) /\ req'[r].at = n

NodeOK(n) ==
    /\ ProcOK(n) /\ RoundOK(n)
    /\ \A r \in Requests : req[r].at = n => ReqOK(r)

LEMMA NodesAreOwners == ASSUME TypeOK PROVE deployment.nodes \subseteq Owners
  BY DeploymentAssumption DEF TypeOK

(* Only the node that steps has to be looked at.                           *)
LEMMA NodeStep ==
    ASSUME IInv, NEW n \in Owners, OnlyNode(n), TypeOK', RecordOK(control)',
           (Shared => EpochsOK(control))', NodeOK(n)'
    PROVE  IInv'
  <1> USE DEF OnlyNode
  <1>0. Shared' = Shared /\ TypeOK /\ nextLease \in Nat /\ nextLease' \in Nat
    BY DEF Shared, IInv, TypeOK
  <1>1. ASSUME NEW m \in Owners PROVE ProcOK(m)'
    <2>1. CASE m = n
      BY <2>1 DEF NodeOK
    <2>2. CASE m # n
      <3>1. /\ proc'[m] = proc[m] /\ store'[m] = store[m]
            /\ deployment' = deployment
        BY <2>2
      <3>2. ProcOK(m)
        BY DEF IInv
      <3>3. proc[m].pc \in LeasedPcs => proc[m].lease.id \in Nat
        BY <3>2 DEF ProcOK, Leases
      <3>4. CASE control' = control
        BY <1>0, <3>1, <3>2, <3>3, <3>4 DEF ProcOK, NamesLease
      <3>5. CASE proc[m].pc \in LeasedPcs => ~NamesLease(control', proc[m].lease)
        BY <1>0, <3>1, <3>2, <3>3, <3>5 DEF ProcOK
      <3> QED BY <2>2, <3>4, <3>5
    <2> QED BY <2>1, <2>2
  <1>2. ASSUME NEW m \in Owners PROVE RoundOK(m)'
    <2>1. CASE m = n
      BY <2>1 DEF NodeOK
    <2>2. CASE m # n
      <3>1. proc'[m] = proc[m] /\ store'[m] = store[m] /\ round'[m] = round[m]
        BY <2>2
      <3>2. RoundOK(m) /\ round[m] \in {None} \cup Rounds
        BY DEF IInv, TypeOK
      <3>3. ASSUME round[m] # None, NEW r \in round[m].covers
            PROVE  req'[r] = req[r]
        <4>1. r \in Requests /\ req[r].at = m /\ req[r].stage # "new"
          BY <3>2, <3>3 DEF RoundOK, Rounds
        <4> QED BY <2>2, <4>1
      <3>4. ASSUME InFlight(m) = {} PROVE InFlight(m)' = {}
        <4>1. ASSUME NEW r \in Requests, req'[r].at = m PROVE req'[r] = req[r]
          BY <2>2, <4>1
        <4> QED BY <3>4, <4>1 DEF InFlight
      <3> QED BY <1>0, <3>1, <3>2, <3>3, <3>4 DEF RoundOK
    <2> QED BY <2>1, <2>2
  <1>3. ASSUME NEW r \in Requests PROVE ReqOK(r)'
    <2>1. CASE req'[r].at = n
      BY <2>1 DEF NodeOK
    <2>2. CASE req'[r].at # n
      <3>1. req'[r] = req[r] /\ ReqOK(r)
        BY <2>2 DEF IInv
      <3>2. CASE req[r].at \in Owners
        <4> PICK m \in Owners \ {n} : m = req[r].at
          BY <2>2, <3>1, <3>2
        <4>1. /\ proc'[m] = proc[m] /\ store'[m] = store[m] /\ synced'[m] = synced[m]
              /\ req'[r].at = m
          BY <3>1
        <4> QED BY <1>0, <3>1, <4>1 DEF ReqOK
      <3>3. CASE req[r].at \notin Owners
        <4>1. /\ req[r].stage \notin {"executed", "waiting"}
              /\ req[r].stage \in {"new", "lost", "acked"}
              /\ ~Shared => req[r].stage # "acked"
          BY <3>1, <3>3, <1>0, NodesAreOwners DEF ReqOK, IInv, TypeOK, Stages
        <4> QED BY <1>0, <3>1, <4>1 DEF ReqOK
      <3> QED BY <3>2, <3>3
    <2> QED BY <2>1, <2>2
  <1> QED BY <1>1, <1>2, <1>3 DEF IInv

(* A request that is left alone stays where it is.                         *)
LEMMA ReqSame ==
    ASSUME IInv, NEW n \in Owners, NEW r \in Requests, req'[r] = req[r], req[r].at = n,
           deployment' = deployment, Extends(n),
           Rows(DurableChain(control)) \subseteq Rows(DurableChain(control')),
           proc[n].pc \in {"serving", "releasing"} =>
             \/ proc'[n].pc \in {"serving", "releasing"}
             \/ InFlight(n) = {}
    PROVE  ReqOK(r)'
  <1>0. Shared' = Shared
    BY DEF Shared
  <1>1. ReqOK(r) /\ ProcOK(n) /\ req[r].stage \in Stages
    BY DEF IInv, TypeOK
  <1>2. req[r].stage \notin {"new", "lost", "acked"} =>
          /\ proc[n].pc \in {"serving", "releasing"} /\ r \in InFlight(n)
          /\ store[n] \in Chains
    BY <1>1 DEF ReqOK, ProcOK, InFlight, Stages
  <1>3. req[r].stage \in {"executed", "waiting"} => r \in Rows(store'[n])
    <2> SUFFICES ASSUME req[r].stage \in {"executed", "waiting"} PROVE r \in Rows(store'[n])
      OBVIOUS
    <2>1. store[n] \in Chains /\ r \in Rows(store[n])
      BY <1>1, <1>2 DEF ReqOK
    <2> QED BY <2>1, PrefixRows DEF Extends
  <1>4. ~Shared /\ req[r].stage \in {"waiting", "acked"} =>
          /\ n \in deployment.nodes /\ store'[n] \in Chains
          /\ \E i \in 1..Len(store'[n]) : i <= synced'[n] /\ store'[n][i].request = r
    <2> SUFFICES ASSUME ~Shared, req[r].stage \in {"waiting", "acked"}
                 PROVE  /\ n \in deployment.nodes /\ store'[n] \in Chains
                        /\ \E i \in 1..Len(store'[n]) :
                             i <= synced'[n] /\ store'[n][i].request = r
      OBVIOUS
    <2>1. n \in deployment.nodes /\ store[n] \in Chains
      BY <1>1 DEF ReqOK
    <2>2. PICK i \in 1..Len(store[n]) : i <= synced[n] /\ store[n][i].request = r
      BY <1>1 DEF ReqOK
    <2>3. store'[n] \in Chains /\ IsPrefix(store[n], store'[n]) /\ i <= synced'[n]
      BY <2>1, <2>2 DEF Extends
    <2>4. Len(store[n]) <= Len(store'[n]) /\ store[n][i] = store'[n][i]
      BY <2>1, <2>3, PrefixAt
    <2>5. i \in 1..Len(store'[n])
      BY <2>1, <2>3, <2>4, ChainType
    <2> QED BY <2>1, <2>2, <2>3, <2>4, <2>5
  <1> QED BY <1>0, <1>1, <1>2, <1>3, <1>4 DEF ReqOK

(* A round that is left alone stays as it is while the store grows.        *)
LEMMA RoundSame ==
    ASSUME IInv, NEW n \in Owners, deployment' = deployment, Extends(n),
           round'[n] = round[n], proc'[n].lease = proc[n].lease,
           \/ proc'[n].pc = proc[n].pc
           \/ proc[n].pc = "serving" /\ proc'[n].pc = "releasing",
           \A r \in Requests :
             req[r].at = n /\ req[r].stage \in {"arrived", "waiting"} => req'[r] = req[r],
           proc'[n].pc = "releasing" /\ InFlight(n) = {} => InFlight(n)' = {}
    PROVE  RoundOK(n)'
  <1>0. Shared' = Shared
    BY DEF Shared
  <1>1. RoundOK(n) /\ ProcOK(n) /\ round[n] \in {None} \cup Rounds
    BY DEF IInv, TypeOK
  <1> SUFFICES ASSUME round[n] # None PROVE RoundOK(n)'
    BY DEF RoundOK
  <1>2. /\ proc[n].pc \in PublishingPcs /\ proc'[n].pc \in PublishingPcs
        /\ round[n].covers \subseteq Requests
    BY <1>1 DEF RoundOK, PublishingPcs, Rounds
  <1>3. \A r \in round[n].covers :
          req'[r] = req[r] /\ req[r].at = n /\ req[r].stage \in {"arrived", "waiting"}
    BY <1>1, <1>2 DEF RoundOK
  <1>4. /\ store[n] \in Chains /\ store'[n] \in Chains /\ IsPrefix(store[n], store'[n])
    BY <1>1, <1>2 DEF ProcOK, PublishingPcs, Extends
  <1>5. \A c \in Chains : IsPrefix(c, store[n]) => IsPrefix(c, store'[n])
    BY <1>4, PrefixTrans
  <1>6. round[n].step \in {"prepare", "upload", "finalize"} =>
          round[n].intent.digest \in Chains
    BY <1>1 DEF RoundOK, Intents
  <1>7. /\ proc'[n].pc = "serving" => round[n].covers # {}
        /\ proc'[n].pc = "releasing" /\ round[n].covers = {} => InFlight(n)' = {}
    BY <1>1 DEF RoundOK
  <1> QED BY <1>0, <1>1, <1>2, <1>3, <1>5, <1>6, <1>7 DEF RoundOK

-----------------------------------------------------------------------------
(* Updates of one process and of one round.                                *)

LEMMA ProcPc ==
    ASSUME NEW p \in [Owners -> Procs], NEW n \in Owners,
           NEW x \in {"down", "opened"} \cup LeasedPcs,
           NEW q, q = [p EXCEPT ![n].pc = x]
    PROVE  /\ q \in [Owners -> Procs]
           /\ q[n].pc = x /\ q[n].open = p[n].open /\ q[n].record = p[n].record
           /\ q[n].lease = p[n].lease /\ q[n].intent = p[n].intent
           /\ \A m \in Owners \ {n} : q[m] = p[m]
  <1>1. p[n] \in Procs
    OBVIOUS
  <1> PICK w : w = [p[n] EXCEPT !.pc = x]
    OBVIOUS
  <1>2. /\ w \in Procs /\ w.pc = x /\ w.open = p[n].open /\ w.record = p[n].record
        /\ w.lease = p[n].lease /\ w.intent = p[n].intent
    BY <1>1 DEF Procs
  <1>3. q = [p EXCEPT ![n] = w]
    OBVIOUS
  <1>4. q[n] = w /\ q \in [Owners -> Procs] /\ \A m \in Owners \ {n} : q[m] = p[m]
    BY <1>2, <1>3
  <1> QED BY <1>2, <1>4

LEMMA ProcSet ==
    ASSUME NEW p \in [Owners -> Procs], NEW n \in Owners, NEW w \in Procs,
           NEW q, q = [p EXCEPT ![n] = w]
    PROVE  q \in [Owners -> Procs] /\ q[n] = w /\ \A m \in Owners \ {n} : q[m] = p[m]
  OBVIOUS

LEMMA DownType ==
    Down \in Procs /\ Down.pc = "down"
  BY DEF Down, Procs, Opens, Seen

LEMMA RoundSet ==
    ASSUME NEW p \in [Owners -> {None} \cup Rounds], NEW n \in Owners,
           NEW w \in {None} \cup Rounds, NEW q, q = [p EXCEPT ![n] = w]
    PROVE  /\ q \in [Owners -> {None} \cup Rounds] /\ q[n] = w
           /\ \A m \in Owners \ {n} : q[m] = p[m]
  OBVIOUS

(* What the invariant says of one node.                                    *)
LEMMA NodeFacts ==
    ASSUME IInv, NEW n \in Owners
    PROVE  /\ TypeOK /\ ProcOK(n) /\ RoundOK(n) /\ RecordOK(control)
           /\ proc \in [Owners -> Procs] /\ proc[n] \in Procs
           /\ round \in [Owners -> {None} \cup Rounds] /\ round[n] \in {None} \cup Rounds
           /\ store \in [Owners -> {None} \cup Chains] /\ store[n] \in {None} \cup Chains
           /\ synced \in [Owners -> Nat]
           /\ req \in [Requests -> [at : {None} \cup Owners, stage : Stages]]
           /\ control \in Records /\ DurableChain(control) \in Chains /\ nextLease \in Nat
           /\ \A r \in Requests : ReqOK(r)
  BY DurableType DEF IInv, TypeOK

(* A store that does not change extends itself.                            *)
LEMMA StoreSame ==
    ASSUME NEW n \in Owners, store'[n] = store[n], synced'[n] = synced[n]
    PROVE  Extends(n)
  BY PrefixRefl DEF Extends

(* Nothing of n is on the way unless it serves.                            *)
LEMMA NotInFlight ==
    ASSUME IInv, NEW n \in Owners, proc[n].pc \notin {"serving", "releasing"}
    PROVE  /\ InFlight(n) = {}
           /\ \A r \in Requests : req[r].at = n => req[r].stage \in {"new", "lost", "acked"}
  BY NodeFacts DEF ReqOK, InFlight, Stages

(* Initially no process runs and nothing was asked for.                    *)
LEMMA InitInv == Init => IInv
  <1> SUFFICES ASSUME Init PROVE IInv
    OBVIOUS
  <1> USE DEF Init
  <1>1. control \in Records
    BY DEF Unassigned, Records
  <1>2. TypeOK
    BY <1>1, DownType DEF TypeOK, Stages
  <1>3. DurableChain(control) = <<>> /\ control.pending = None /\ control.epoch = 0
    BY DEF DurableChain, Unassigned
  <1>4. RecordOK(control)
    BY <1>3 DEF RecordOK, Unassigned
  <1>5. EpochsOK(control)
    BY <1>3, EmptyChain DEF EpochsOK, Ends, Unassigned
  <1>6. \A n \in Owners : ProcOK(n)
    <2>1. \A n \in Owners : proc[n].pc = "down"
      BY DownType
    <2> QED BY <2>1 DEF ProcOK, LeasedPcs, ReconciledPcs, ActivePcs, AnnouncedPcs
  <1>7. \A n \in Owners : RoundOK(n)
    BY DEF RoundOK
  <1>8. \A r \in Requests : ReqOK(r)
    BY DEF ReqOK
  <1> QED BY <1>2, <1>4, <1>5, <1>6, <1>7, <1>8 DEF IInv

(* Requests that are all left alone.                                       *)
LEMMA ReqsSame ==
    ASSUME IInv, NEW n \in Owners, req' = req, deployment' = deployment, Extends(n),
           Rows(DurableChain(control)) \subseteq Rows(DurableChain(control')),
           proc[n].pc \in {"serving", "releasing"} =>
             \/ proc'[n].pc \in {"serving", "releasing"}
             \/ InFlight(n) = {}
    PROVE  \A r \in Requests : (req[r].at = n)' => ReqOK(r)'
  <1> SUFFICES ASSUME NEW r \in Requests, req[r].at = n PROVE ReqOK(r)'
    OBVIOUS
  <1>1. req'[r] = req[r]
    OBVIOUS
  <1> QED BY <1>1, ReqSame

LEMMA NoneIsNoChain == None \notin Chains
  BY FailoverBounds DEF Chains, RowSet

-----------------------------------------------------------------------------
(* bootstrap_shard.                                                        *)

(* Installing the durable log extends the local chain.                     *)
LEMMA InstallExtends ==
    ASSUME IInv, NEW c \in Chains, CanInstall(control, c)
    PROVE  /\ Installed(control, c) \in Chains
           /\ IsPrefix(c, Installed(control, c))
           /\ IsPrefix(DurableChain(control), Installed(control, c))
  <1>1. DurableChain(control) \in Chains
    BY DurableType DEF IInv, TypeOK
  <1>2. CASE Len(c) >= control.durable
    BY <1>1, <1>2, PrefixRefl DEF CanInstall, Installed, DurablePrefix
  <1>3. CASE ~(Len(c) >= control.durable)
    BY <1>1, <1>3, PrefixRefl DEF CanInstall, Installed
  <1> QED BY <1>2, <1>3

LEMMA OpenedType ==
    ASSUME NEW open \in Opens, NEW v \in Seen, NEW w,
           w = [Down EXCEPT !.pc = "opened", !.open = open, !.record = v]
    PROVE  w \in Procs /\ w.pc = "opened" /\ w.open = open
  <1>1. Down \in Procs
    BY DownType
  <1> PICK x : x = [Down EXCEPT !.pc = "opened"]
    OBVIOUS
  <1>2. x \in Procs /\ x.pc = "opened"
    BY <1>1 DEF Procs
  <1> PICK y : y = [x EXCEPT !.open = open]
    OBVIOUS
  <1>3. y \in Procs /\ y.pc = "opened" /\ y.open = open
    BY <1>2 DEF Procs
  <1>4. w = [y EXCEPT !.record = v]
    OBVIOUS
  <1> HIDE DEF Down
  <1> QED BY <1>3, <1>4 DEF Procs

LEMMA BootStep ==
    ASSUME IInv, NEW n \in Owners, NEW open \in {"New", "Existing", "RecoverLog"},
           NEW previous \in 0..MaxLeases, Boot(n, open, previous), deployment' = deployment
    PROVE  IInv'
  <1> PICK found : found = IF store[n] = None THEN <<>> ELSE store[n]
    OBVIOUS
  <1> PICK chain : chain = IF open = "RecoverLog" THEN Installed(control, found) ELSE found
    OBVIOUS
  <1>1. /\ TypeOK /\ proc \in [Owners -> Procs] /\ store \in [Owners -> {None} \cup Chains]
        /\ store[n] \in {None} \cup Chains /\ synced \in [Owners -> Nat]
        /\ RoundOK(n) /\ control.state \in {"Unassigned", "Recovering", "Serving"}
    BY NodeFacts DEF Records
  <1>2. /\ proc[n].pc = "down" /\ n \in deployment.nodes
        /\ open = "RecoverLog" => Shared /\ CanInstall(control, found)
        /\ store' = [store EXCEPT ![n] = chain]
        /\ synced' = [synced EXCEPT ![n] = Len(chain)]
        /\ UNCHANGED <<controlVars, objects, round, req>>
    BY DEF Boot
  <1> PICK w : w = [Down EXCEPT !.pc = "opened", !.open = open,
                                !.record = [epoch |-> previous, state |-> control.state]]
    OBVIOUS
  <1>3. proc' = [proc EXCEPT ![n] = w]
    BY DEF Boot
  <1>4. w \in Procs /\ w.pc = "opened" /\ w.open = open
    <2>1. previous \in Nat
      BY FailoverBounds
    <2> PICK v : v = [epoch |-> previous, state |-> control.state]
      OBVIOUS
    <2>2. v \in Seen
      BY <1>1, <2>1 DEF Seen
    <2>3. open \in Opens
      BY DEF Opens
    <2>4. w = [Down EXCEPT !.pc = "opened", !.open = open, !.record = v]
      OBVIOUS
    <2> QED BY <2>2, <2>3, <2>4, OpenedType, ZenonT(60)
  <1>5. found \in Chains /\ (store[n] \in Chains => found = store[n])
    BY <1>1, EmptyChain, NoneIsNoChain
  <1>6. chain \in Chains /\ IsPrefix(found, chain)
    BY <1>2, <1>5, InstallExtends, PrefixRefl
  <1>7. Len(chain) \in Nat
    BY <1>6, ChainType
  <1>8. /\ proc' \in [Owners -> Procs] /\ proc'[n] = w
        /\ \A m \in Owners \ {n} : proc'[m] = proc[m]
    BY <1>1, <1>3, <1>4, ProcSet
  <1>9. /\ store' \in [Owners -> {None} \cup Chains] /\ store'[n] = chain
        /\ synced' \in [Owners -> Nat] /\ synced'[n] = Len(chain)
        /\ \A m \in Owners \ {n} : store'[m] = store[m] /\ synced'[m] = synced[m]
    BY <1>1, <1>2, <1>6, <1>7
  <1>10. UNCHANGED <<control, nextLease, round, req>>
    BY <1>2 DEF controlVars
  <1>11. TypeOK'
    BY <1>1, <1>8, <1>9, <1>10 DEF TypeOK
  <1>12. OnlyNode(n)
    BY <1>1, <1>8, <1>9, <1>10 DEF OnlyNode, TypeOK
  <1>13. Extends(n)
    <2> SUFFICES ASSUME store[n] \in Chains
                 PROVE  /\ store'[n] \in Chains /\ IsPrefix(store[n], store'[n])
                        /\ \A i \in 1..Len(store[n]) : i <= synced'[n]
      BY DEF Extends
    <2>1. Len(found) <= Len(chain) /\ Len(found) \in Nat
      BY <1>5, <1>6, PrefixAt, ChainType
    <2> QED BY <1>5, <1>6, <1>7, <1>9, <2>1
  <1>14. ProcOK(n)'
    <2>1. Shared' = Shared
      BY DEF Shared
    <2> QED BY <1>2, <1>4, <1>6, <1>8, <1>9, <2>1
         DEF ProcOK, LeasedPcs, ReconciledPcs, ActivePcs, AnnouncedPcs
  <1>15. RoundOK(n)'
    <2>1. round'[n] = None
      BY <1>1, <1>2, <1>10 DEF RoundOK, PublishingPcs
    <2> QED BY <2>1 DEF RoundOK
  <1>16. \A r \in Requests : (req[r].at = n)' => ReqOK(r)'
    BY <1>2, <1>10, <1>13, ReqsSame
  <1>17. RecordOK(control)' /\ (Shared => EpochsOK(control))'
    BY <1>10 DEF IInv, Shared
  <1> QED BY <1>11, <1>12, <1>14, <1>15, <1>16, <1>17, NodeStep DEF NodeOK

(* Only n's lease is named by a record whose owner is n.                   *)
LEMMA OwnRecord ==
    ASSUME IInv, NEW n \in Owners, proc[n].pc \in LeasedPcs,
           NamesLease(control, proc[n].lease), control'.owner = control.owner
    PROVE  \A m \in Owners \ {n} : proc[m].pc \in LeasedPcs =>
             ~NamesLease(control', proc[m].lease)
  <1>1. control.owner = n
    BY DEF IInv, ProcOK, NamesLease
  <1>2. \A m \in Owners : proc[m].pc \in LeasedPcs => proc[m].lease.owner = m
    BY DEF IInv, ProcOK
  <1> QED BY <1>1, <1>2 DEF NamesLease

(* The record of a new owner, or of a new attempt.                         *)
LEMMA AcquiredRecord ==
    ASSUME NEW record \in Records, NEW n \in Owners, NEW id \in Nat, NEW next,
           next \in {Acquired(record, n, id), Reacquired(record, n, id)}
    PROVE  /\ next \in Records /\ next.owner = n /\ next.lease = id
           /\ next.log = record.log /\ next.durable = record.durable
           /\ next.pending = record.pending /\ next.checkpoint = record.checkpoint
           /\ next = Acquired(record, n, id) =>
                next.epoch = record.epoch + 1 /\ next.state = "Recovering"
           /\ next = Reacquired(record, n, id) =>
                next.epoch = record.epoch /\ next.state = record.state
  <1>1. record.epoch \in Nat /\ record.epoch + 1 \in Nat
    BY DEF Records
  <1>2. CASE next = Acquired(record, n, id)
    <2> PICK e \in Nat : e = record.epoch + 1
      BY <1>1
    <2>1. next = [record EXCEPT !.owner = n, !.epoch = e, !.lease = id, !.state = "Recovering"]
      BY <1>2 DEF Acquired
    <2>2. /\ next \in Records /\ next.owner = n /\ next.lease = id /\ next.epoch = e
          /\ next.state = "Recovering" /\ next.log = record.log
          /\ next.durable = record.durable /\ next.pending = record.pending
          /\ next.checkpoint = record.checkpoint
      BY <2>1 DEF Records
    <2>3. next = Reacquired(record, n, id) =>
            next.epoch = record.epoch /\ next.state = record.state
      BY DEF Reacquired, Records
    <2> QED BY <2>2, <2>3
  <1>3. CASE next = Reacquired(record, n, id)
    <2>1. next = [record EXCEPT !.owner = n, !.lease = id]
      BY <1>3 DEF Reacquired
    <2>2. /\ next \in Records /\ next.owner = n /\ next.lease = id
          /\ next.epoch = record.epoch
          /\ next.state = record.state /\ next.log = record.log
          /\ next.durable = record.durable /\ next.pending = record.pending
          /\ next.checkpoint = record.checkpoint
      BY <2>1 DEF Records
    <2>3. next = Acquired(record, n, id) => next.epoch = record.epoch + 1 /\ next.state = "Recovering"
      BY DEF Acquired, Records
    <2> QED BY <2>2, <2>3
  <1> QED BY <1>2, <1>3

(* A record with the same log, durable LSN and pending upload is as good.  *)
LEMMA SameLog ==
    ASSUME NEW record, NEW next, next.log = record.log, next.durable = record.durable,
           next.pending = record.pending
    PROVE  /\ DurableChain(next) = DurableChain(record)
           /\ RecordOK(record) => RecordOK(next)
  BY DEF DurableChain, RecordOK

LEMMA AdmitStep ==
    ASSUME IInv, NEW n \in Owners, Admit(n), deployment' = deployment
    PROVE  IInv'
  <1>1. /\ TypeOK /\ proc \in [Owners -> Procs] /\ proc[n] \in Procs /\ RoundOK(n)
        /\ control \in Records /\ nextLease \in Nat /\ RecordOK(control)
        /\ DurableChain(control) \in Chains
    BY NodeFacts
  <1> PICK id \in Nat : id = nextLease + 1
    BY <1>1
  <1> PICK next : next = control'
    OBVIOUS
  <1>2. /\ \/ next = Acquired(control, n, id) /\ (control.epoch = 0 \/ control.state # "Recovering")
           \/ next = Reacquired(control, n, id)
        /\ session' = LeaseOf(next) /\ nextLease' = id
    BY DEF Admit, AcquireOwner, ReacquireRecovery, AcquireSuccessor, InstallOwner
  <1>3. /\ proc[n].pc = "opened"
        /\ proc' = [proc EXCEPT ![n].pc = "admitted", ![n].lease = session', ![n].record = None]
        /\ UNCHANGED <<store, synced, round, req>>
    BY DEF Admit
  <1>4. /\ next \in Records /\ next.owner = n /\ next.lease = id
        /\ next.log = control.log /\ next.durable = control.durable
        /\ next.pending = control.pending
        /\ next = Acquired(control, n, id) =>
                next.epoch = control.epoch + 1 /\ next.state = "Recovering"
        /\ next = Reacquired(control, n, id) =>
                next.epoch = control.epoch /\ next.state = control.state
    BY <1>1, <1>2, AcquiredRecord
  <1> PICK lease : lease = LeaseOf(next)
    OBVIOUS
  <1>5. lease \in Leases /\ lease.owner = n /\ lease.id = id
    BY <1>4 DEF LeaseOf, Leases, Records
  <1>6. /\ proc' \in [Owners -> Procs] /\ proc'[n].pc = "admitted"
        /\ proc'[n].open = proc[n].open /\ proc'[n].lease = lease
        /\ \A m \in Owners \ {n} : proc'[m] = proc[m]
    <2> PICK w : w = [proc[n] EXCEPT !.pc = "admitted", !.lease = lease, !.record = None]
      OBVIOUS
    <2>1. w \in Procs /\ w.pc = "admitted" /\ w.open = proc[n].open /\ w.lease = lease
      <3> PICK x : x = [proc[n] EXCEPT !.pc = "admitted"]
        OBVIOUS
      <3>1. x \in Procs /\ x.pc = "admitted" /\ x.open = proc[n].open
        BY <1>1 DEF Procs, LeasedPcs
      <3> PICK y : y = [x EXCEPT !.lease = lease]
        OBVIOUS
      <3>2. y \in Procs /\ y.pc = "admitted" /\ y.open = proc[n].open /\ y.lease = lease
        BY <1>5, <3>1 DEF Procs
      <3>3. w = [y EXCEPT !.record = None]
        OBVIOUS
      <3> QED BY <3>2, <3>3 DEF Procs, Seen
    <2>2. proc' = [proc EXCEPT ![n] = w]
      BY <1>2, <1>3
    <2> QED BY <1>1, <2>1, <2>2, ProcSet
  <1>7. DurableChain(next) = DurableChain(control) /\ RecordOK(next)
    BY <1>1, <1>4, SameLog
  <1>8. TypeOK'
    BY <1>1, <1>2, <1>3, <1>4, <1>6 DEF TypeOK
  <1>9. OnlyNode(n)
    <2>1. \A m \in Owners \ {n} : proc[m].pc \in LeasedPcs => ~NamesLease(next, proc[m].lease)
      <3> SUFFICES ASSUME NEW m \in Owners \ {n}, proc[m].pc \in LeasedPcs
                   PROVE  ~NamesLease(next, proc[m].lease)
        OBVIOUS
      <3>1. proc[m].lease.id \in Nat /\ proc[m].lease.id <= nextLease
        BY DEF IInv, ProcOK, Leases
      <3> QED BY <1>1, <1>4, <3>1 DEF NamesLease
    <2> QED BY <1>1, <1>2, <1>3, <1>6, <1>7, <2>1 DEF OnlyNode
  <1>10. ProcOK(n)'
    <2>1. Shared' = Shared
      BY DEF Shared
    <2>2. n \in deployment.nodes /\ store[n] \in Chains /\ (proc[n].open = "RecoverLog" => Shared)
      BY <1>3, NodeFacts DEF ProcOK
    <2>3. 0 < id /\ id <= nextLease'
      BY <1>1, <1>2
    <2> QED BY <1>3, <1>5, <1>6, <2>1, <2>2, <2>3
         DEF ProcOK, LeasedPcs, ReconciledPcs, ActivePcs, AnnouncedPcs
  <1>11. RoundOK(n)'
    <2>1. round'[n] = None
      BY <1>1, <1>3 DEF RoundOK, PublishingPcs
    <2> QED BY <2>1 DEF RoundOK
  <1>12. Extends(n)
    BY <1>3, StoreSame
  <1>13. \A r \in Requests : (req[r].at = n)' => ReqOK(r)'
    BY <1>3, <1>7, <1>12, ReqsSame
  <1>14. RecordOK(control)'
    BY <1>7
  <1>15. (Shared => EpochsOK(control))'
    <2> SUFFICES ASSUME Shared PROVE EpochsOK(next)
      BY DEF Shared
    <2>1. EpochsOK(control) /\ control.epoch \in Nat /\ LocalEpoch(DurableChain(control)) \in Nat
      BY <1>1, DurableType DEF IInv, Records
    <2>2. control.pending # None => LocalEpoch(control.pending.digest) \in Nat
      <3>1. control.pending # None => control.pending.digest \in Chains
        BY <1>1 DEF Records, Intents
      <3> QED BY <3>1, ChainType
    <2> QED BY <1>2, <1>4, <1>7, <2>1, <2>2 DEF EpochsOK, Ends
  <1> QED BY <1>8, <1>9, <1>10, <1>11, <1>13, <1>14, <1>15, NodeStep DEF NodeOK

\* A step of n that leaves the record alone.
QuietStep(n) ==
    /\ UNCHANGED <<control, nextLease, deployment>>
    /\ \A m \in Owners \ {n} :
         /\ proc'[m] = proc[m] /\ round'[m] = round[m]
         /\ store'[m] = store[m] /\ synced'[m] = synced[m]
    /\ \A r \in Requests :
         \/ req'[r] = req[r]
         \/ (req[r].stage = "new" \/ req[r].at = n) /\ req'[r].at = n

LEMMA LocalStep ==
    ASSUME IInv, NEW n \in Owners, QuietStep(n), TypeOK', NodeOK(n)'
    PROVE  IInv'
  <1>1. OnlyNode(n)
    BY NodeFacts DEF QuietStep, OnlyNode
  <1>2. RecordOK(control)' /\ (Shared => EpochsOK(control))'
    BY DEF QuietStep, IInv, Shared
  <1> QED BY <1>1, <1>2, NodeStep

(* The local store after a row was written and synced.                     *)
LEMMA WriteExtends ==
    ASSUME IInv, NEW n \in Owners, store[n] \in Chains, NEW row \in RowSet,
           LocalEpoch(store[n]) <= row.epoch, WriteLocally(n, row)
    PROVE  /\ store' \in [Owners -> {None} \cup Chains] /\ synced' \in [Owners -> Nat]
           /\ Extends(n) /\ LocalEpoch(store'[n]) = row.epoch /\ store'[n] \in Chains
           /\ \A m \in Owners \ {n} : store'[m] = store[m] /\ synced'[m] = synced[m]
  <1>1. /\ store \in [Owners -> {None} \cup Chains] /\ synced \in [Owners -> Nat]
        /\ Len(store[n]) \in Nat
    BY NodeFacts, ChainType
  <1> PICK c : c = Append(store[n], row)
    OBVIOUS
  <1>2. c \in Chains /\ IsPrefix(store[n], c) /\ LocalEpoch(c) = row.epoch
    BY AppendChain
  <1>3. store' = [store EXCEPT ![n] = c] /\ synced' = [synced EXCEPT ![n] = Len(store[n]) + 1]
    BY DEF WriteLocally
  <1>4. /\ store' \in [Owners -> {None} \cup Chains] /\ synced' \in [Owners -> Nat]
        /\ store'[n] = c /\ synced'[n] = Len(store[n]) + 1
        /\ \A m \in Owners \ {n} : store'[m] = store[m] /\ synced'[m] = synced[m]
    BY <1>1, <1>2, <1>3
  <1>5. Extends(n)
    BY <1>1, <1>2, <1>4 DEF Extends
  <1> QED BY <1>2, <1>4, <1>5

LEMMA CleanupPendingStep ==
    ASSUME IInv, NEW n \in Owners, CleanupPending(n), deployment' = deployment
    PROVE  IInv'
  <1>1. /\ TypeOK /\ proc \in [Owners -> Procs] /\ proc[n] \in Procs /\ ProcOK(n) /\ RoundOK(n)
    BY NodeFacts
  <1>2. /\ proc[n].pc = "cleanup" /\ proc' = [proc EXCEPT ![n].pc = "abort"]
        /\ UNCHANGED <<control, nextLease, store, synced, round, req>>
    BY DEF CleanupPending, controlVars
  <1>3. /\ proc' \in [Owners -> Procs] /\ proc'[n].pc = "abort" /\ proc'[n].open = proc[n].open
        /\ proc'[n].lease = proc[n].lease /\ \A m \in Owners \ {n} : proc'[m] = proc[m]
    BY <1>1, <1>2, ProcPc DEF LeasedPcs
  <1>4. TypeOK' /\ QuietStep(n) /\ Extends(n)
    BY <1>1, <1>2, <1>3, StoreSame DEF TypeOK, QuietStep
  <1>5. ProcOK(n)'
    BY <1>1, <1>2, <1>3 DEF ProcOK, LeasedPcs, ReconciledPcs, ActivePcs, AnnouncedPcs, Shared
  <1>6. RoundOK(n)'
    BY <1>1, <1>2 DEF RoundOK, PublishingPcs
  <1>7. \A r \in Requests : (req[r].at = n)' => ReqOK(r)'
    BY <1>2, <1>4, ReqsSame
  <1> QED BY <1>4, <1>5, <1>6, <1>7, LocalStep DEF NodeOK

(* The chain a reconciled store ends with: what was durable or pending.    *)
LEMMA ReconcileStep ==
    ASSUME IInv, NEW n \in Owners, Reconcile(n), deployment' = deployment
    PROVE  IInv'
  <1>1. /\ TypeOK /\ proc \in [Owners -> Procs] /\ proc[n] \in Procs /\ ProcOK(n) /\ RoundOK(n)
        /\ RecordOK(control) /\ control \in Records /\ DurableChain(control) \in Chains
        /\ store \in [Owners -> {None} \cup Chains] /\ synced \in [Owners -> Nat]
    BY NodeFacts
  <1>2. /\ proc[n].pc = "admitted"
        /\ UNCHANGED <<control, nextLease, round, req>>
    BY DEF Reconcile, controlVars
  <1>3. store[n] \in Chains
    BY <1>1, <1>2 DEF ProcOK
  <1> PICK shared : shared = (proc[n].open = "RecoverLog")
    OBVIOUS
  <1> PICK chain : chain = Installed(control, store[n])
    OBVIOUS
  <1>4. IF shared THEN CanInstall(control, store[n]) ELSE LocalPrefix(control, store[n])
    BY DEF Reconcile
  <1>5. shared => /\ chain \in Chains /\ IsPrefix(store[n], chain)
                  /\ IsPrefix(DurableChain(control), chain)
    BY <1>3, <1>4, InstallExtends
  <1>6. control.pending # None =>
          /\ control.pending.digest \in Chains
          /\ IsPrefix(DurableChain(control), control.pending.digest)
    BY <1>1 DEF RecordOK, IntentOK, Records, Intents
  <1>7. \E c \in Chains, pc \in {"cleanup", "reconciled"} :
          /\ store' = [store EXCEPT ![n] = c]
          /\ synced' = [synced EXCEPT ![n] = Len(c)]
          /\ IsPrefix(store[n], c) /\ IsPrefix(DurableChain(control), c)
          /\ \/ proc' = [proc EXCEPT ![n].pc = pc, ![n].intent = control.pending]
             \/ proc' = [proc EXCEPT ![n].pc = pc]
    <2> DEFINE segment == SegmentOf(control.pending)
               adopt == shared /\ control.pending # None /\ Len(chain) < control.pending.last
    <2>1. adopt => chain = DurableChain(control)
      BY DEF Reconcile
    <2>2. CASE adopt /\ segment \notin objects
      <3>1. /\ store' = [store EXCEPT ![n] = chain]
            /\ synced' = [synced EXCEPT ![n] = Len(chain)]
            /\ proc' = [proc EXCEPT ![n].pc = "cleanup", ![n].intent = control.pending]
        BY <2>2 DEF Reconcile
      <3> QED BY <1>5, <2>2, <3>1
    <2>3. CASE ~(adopt /\ segment \notin objects)
      <3> DEFINE final == IF adopt THEN control.pending.digest
                          ELSE IF shared THEN chain ELSE store[n]
      <3>1. /\ store' = [store EXCEPT ![n] = final]
            /\ synced' = [synced EXCEPT ![n] = Len(final)]
            /\ proc' = [proc EXCEPT ![n].pc = "reconciled"]
        BY <2>3 DEF Reconcile
      <3>2. final \in Chains /\ IsPrefix(store[n], final) /\ IsPrefix(DurableChain(control), final)
        <4>1. CASE adopt
          <5>1. IsPrefix(store[n], DurableChain(control)) /\ final = control.pending.digest
            BY <1>5, <2>1, <4>1
          <5>2. IsPrefix(store[n], control.pending.digest)
            BY <1>1, <1>3, <1>6, <4>1, <5>1, PrefixTrans
          <5> QED BY <1>6, <4>1, <5>1, <5>2
        <4>2. CASE ~adopt /\ shared
          BY <1>5, <4>2
        <4>3. CASE ~shared
          BY <1>3, <1>4, <4>3, PrefixRefl DEF LocalPrefix, DurablePrefix
        <4> QED BY <4>1, <4>2, <4>3
      <3> QED BY <3>1, <3>2
    <2> QED BY <2>2, <2>3
  <1>8. PICK c \in Chains, pc \in {"cleanup", "reconciled"} :
          /\ store' = [store EXCEPT ![n] = c]
          /\ synced' = [synced EXCEPT ![n] = Len(c)]
          /\ IsPrefix(store[n], c) /\ IsPrefix(DurableChain(control), c)
          /\ \/ proc' = [proc EXCEPT ![n].pc = pc, ![n].intent = control.pending]
             \/ proc' = [proc EXCEPT ![n].pc = pc]
    BY <1>7
  <1>9. /\ proc' \in [Owners -> Procs] /\ proc'[n].pc = pc /\ proc'[n].open = proc[n].open
        /\ proc'[n].lease = proc[n].lease /\ \A m \in Owners \ {n} : proc'[m] = proc[m]
    <2>1. CASE proc' = [proc EXCEPT ![n].pc = pc]
      BY <1>1, <2>1, ProcPc, SMTT(60) DEF LeasedPcs, ReconciledPcs
    <2>2. CASE proc' = [proc EXCEPT ![n].pc = pc, ![n].intent = control.pending]
      <3> PICK w : w = [proc[n] EXCEPT !.pc = pc]
        OBVIOUS
      <3>1. /\ w \in Procs /\ w.pc = pc /\ w.open = proc[n].open /\ w.lease = proc[n].lease
        BY <1>1 DEF Procs, LeasedPcs, ReconciledPcs
      <3> PICK x : x = [w EXCEPT !.intent = control.pending]
        OBVIOUS
      <3>2. control.pending \in {None} \cup Intents
        BY <1>1 DEF Records
      <3>3. /\ x \in Procs /\ x.pc = pc /\ x.open = proc[n].open /\ x.lease = proc[n].lease
        BY <3>1, <3>2 DEF Procs
      <3>4. proc' = [proc EXCEPT ![n] = x]
        BY <2>2
      <3> QED BY <1>1, <3>3, <3>4, ProcSet
    <2> QED BY <1>8, <2>1, <2>2
  <1>10. Len(c) \in Nat /\ Len(store[n]) \in Nat /\ Len(store[n]) <= Len(c)
    BY <1>3, <1>8, ChainType, PrefixAt
  <1>11. /\ store' \in [Owners -> {None} \cup Chains] /\ store'[n] = c
         /\ synced' \in [Owners -> Nat] /\ synced'[n] = Len(c)
         /\ \A m \in Owners \ {n} : store'[m] = store[m] /\ synced'[m] = synced[m]
    BY <1>1, <1>8, <1>10
  <1>12. TypeOK' /\ QuietStep(n)
    BY <1>1, <1>2, <1>9, <1>11 DEF TypeOK, QuietStep
  <1>13. Extends(n)
    BY <1>8, <1>10, <1>11 DEF Extends
  <1>14. ProcOK(n)'
    BY <1>1, <1>2, <1>8, <1>9, <1>11
       DEF ProcOK, LeasedPcs, ReconciledPcs, ActivePcs, AnnouncedPcs, Shared
  <1>15. RoundOK(n)'
    BY <1>1, <1>2 DEF RoundOK, PublishingPcs
  <1>16. \A r \in Requests : (req[r].at = n)' => ReqOK(r)'
    BY <1>2, <1>13, ReqsSame
  <1> QED BY <1>12, <1>14, <1>15, <1>16, LocalStep DEF NodeOK

LEMMA AbortPendingStep ==
    ASSUME IInv, NEW n \in Owners, AbortPending(n), deployment' = deployment
    PROVE  IInv'
  <1>1. /\ TypeOK /\ proc \in [Owners -> Procs] /\ proc[n] \in Procs /\ ProcOK(n) /\ RoundOK(n)
        /\ RecordOK(control) /\ control \in Records /\ nextLease \in Nat
    BY NodeFacts
  <1> PICK next : next = control'
    OBVIOUS
  <1>2. /\ proc[n].pc = "abort" /\ NamesLease(control, proc[n].lease)
        /\ next = control \/ next = [control EXCEPT !.pending = None]
        /\ IsPrefix(DurableChain(next), store[n])
        /\ proc' = [proc EXCEPT ![n].pc = "reconciled", ![n].intent = None]
        /\ UNCHANGED <<nextLease, store, synced, round, req>>
    BY DEF AbortPending, AbortRecoveryUpload, Holds, LocalPrefix, DurablePrefix
  <1>3. /\ next \in Records /\ next.owner = control.owner /\ next.epoch = control.epoch
        /\ next.lease = control.lease /\ next.state = control.state
        /\ next.log = control.log /\ next.durable = control.durable
        /\ next.pending \in {None, control.pending}
    BY <1>1, <1>2 DEF Records
  <1>4. /\ proc' \in [Owners -> Procs] /\ proc'[n].pc = "reconciled" /\ proc'[n].open = proc[n].open
        /\ proc'[n].lease = proc[n].lease /\ \A m \in Owners \ {n} : proc'[m] = proc[m]
    <2> PICK w : w = [proc[n] EXCEPT !.pc = "reconciled"]
      OBVIOUS
    <2>1. w \in Procs /\ w.pc = "reconciled" /\ w.open = proc[n].open /\ w.lease = proc[n].lease
      BY <1>1 DEF Procs, LeasedPcs, ReconciledPcs
    <2> PICK x : x = [w EXCEPT !.intent = None]
      OBVIOUS
    <2>2. x \in Procs /\ x.pc = "reconciled" /\ x.open = proc[n].open /\ x.lease = proc[n].lease
      BY <2>1 DEF Procs
    <2>3. proc' = [proc EXCEPT ![n] = x]
      BY <1>2
    <2> QED BY <1>1, <2>2, <2>3, ProcSet
  <1>5. DurableChain(next) = DurableChain(control)
    BY <1>3 DEF DurableChain
  <1>6. RecordOK(control)'
    <2>1. RecordOK(next)
      BY <1>1, <1>3, <1>5 DEF RecordOK
    <2> QED BY <2>1
  <1>7. (Shared => EpochsOK(control))'
    <2>1. Shared => EpochsOK(next)
      BY <1>3, <1>5 DEF EpochsOK, Ends, IInv
    <2> QED BY <2>1 DEF Shared
  <1>8. TypeOK'
    BY <1>1, <1>2, <1>3, <1>4 DEF TypeOK
  <1>9. OnlyNode(n)
    <2>1. \A m \in Owners \ {n} : proc[m].pc \in LeasedPcs => ~NamesLease(control', proc[m].lease)
      BY <1>2, <1>3, OwnRecord DEF LeasedPcs
    <2> QED BY <1>1, <1>2, <1>4, <1>5, <2>1 DEF OnlyNode
  <1>10. ProcOK(n)'
    <2>1. IsPrefix(DurableChain(control'), store'[n])
      BY <1>2
    <2> QED BY <1>1, <1>2, <1>4, <2>1
       DEF ProcOK, LeasedPcs, ReconciledPcs, ActivePcs, AnnouncedPcs, Shared
  <1>11. RoundOK(n)'
    BY <1>1, <1>2 DEF RoundOK, PublishingPcs
  <1>12. \A r \in Requests : (req[r].at = n)' => ReqOK(r)'
    BY <1>2, <1>5, StoreSame, ReqsSame
  <1> QED BY <1>6, <1>7, <1>8, <1>9, <1>10, <1>11, <1>12, NodeStep DEF NodeOK

LEMMA ActivateStep ==
    ASSUME IInv, NEW n \in Owners, Activate(n), deployment' = deployment
    PROVE  IInv'
  <1>1. /\ TypeOK /\ proc \in [Owners -> Procs] /\ proc[n] \in Procs /\ ProcOK(n) /\ RoundOK(n)
        /\ DurableChain(control) \in Chains
    BY NodeFacts
  <1>2. /\ proc[n].pc = "reconciled" /\ proc' = [proc EXCEPT ![n].pc = "first"]
        /\ UNCHANGED <<control, nextLease, round, req>>
    BY DEF Activate, controlVars
  <1>3. /\ proc' \in [Owners -> Procs] /\ proc'[n].pc = "first" /\ proc'[n].open = proc[n].open
        /\ proc'[n].lease = proc[n].lease /\ \A m \in Owners \ {n} : proc'[m] = proc[m]
    BY <1>1, <1>2, ProcPc DEF LeasedPcs, ReconciledPcs, ActivePcs
  <1>4. store[n] \in Chains /\ proc[n].lease \in Leases /\ proc[n].lease.epoch \in Nat
    BY <1>1, <1>2 DEF ProcOK, LeasedPcs, ReconciledPcs, Leases
  <1>5. /\ store' \in [Owners -> {None} \cup Chains] /\ synced' \in [Owners -> Nat]
        /\ Extends(n) /\ LocalEpoch(store'[n]) = proc[n].lease.epoch /\ store'[n] \in Chains
        /\ \A m \in Owners \ {n} : store'[m] = store[m] /\ synced'[m] = synced[m]
    <2>1. CASE LocalEpoch(store[n]) = proc[n].lease.epoch
      <3>1. UNCHANGED <<store, synced>>
        BY <2>1 DEF Activate
      <3> QED BY <1>1, <1>4, <2>1, <3>1, StoreSame DEF TypeOK
    <2>2. CASE LocalEpoch(store[n]) # proc[n].lease.epoch
      <3> PICK row : row = Row(proc[n].lease.epoch, None)
        OBVIOUS
      <3>1. LocalEpoch(store[n]) = proc[n].lease.epoch - 1 /\ WriteLocally(n, row)
        BY <2>2 DEF Activate
      <3>2. row \in RowSet /\ row.epoch = proc[n].lease.epoch
        BY <1>4 DEF Row, RowSet
      <3>3. LocalEpoch(store[n]) <= row.epoch
        BY <1>4, <3>1, <3>2
      <3> QED BY <1>4, <3>1, <3>2, <3>3, WriteExtends
    <2> QED BY <2>1, <2>2
  <1>6. TypeOK' /\ QuietStep(n)
    BY <1>1, <1>2, <1>3, <1>5 DEF TypeOK, QuietStep
  <1>7. ASSUME IsPrefix(DurableChain(control), store[n])
        PROVE  IsPrefix(DurableChain(control), store'[n])
    BY <1>1, <1>4, <1>5, <1>7, PrefixTrans DEF Extends
  <1>8. ProcOK(n)'
    BY <1>1, <1>2, <1>3, <1>5, <1>7
       DEF ProcOK, LeasedPcs, ReconciledPcs, ActivePcs, AnnouncedPcs, Shared
  <1>9. RoundOK(n)'
    BY <1>1, <1>2 DEF RoundOK, PublishingPcs
  <1>10. \A r \in Requests : (req[r].at = n)' => ReqOK(r)'
    BY <1>2, <1>5, ReqsSame
  <1> QED BY <1>6, <1>8, <1>9, <1>10, LocalStep DEF NodeOK

LEMMA AttachStep ==
    ASSUME IInv, NEW n \in Owners, Attach(n), deployment' = deployment
    PROVE  IInv'
  <1>1. /\ TypeOK /\ proc \in [Owners -> Procs] /\ proc[n] \in Procs /\ ProcOK(n) /\ RoundOK(n)
        /\ DurableChain(control) \in Chains
    BY NodeFacts
  <1>2. /\ proc[n].pc = "attach" /\ proc' = [proc EXCEPT ![n].pc = "second"]
        /\ UNCHANGED <<control, nextLease, round, req>>
    BY DEF Attach, controlVars
  <1>3. /\ proc' \in [Owners -> Procs] /\ proc'[n].pc = "second" /\ proc'[n].open = proc[n].open
        /\ proc'[n].lease = proc[n].lease /\ \A m \in Owners \ {n} : proc'[m] = proc[m]
    BY <1>1, <1>2, ProcPc DEF LeasedPcs, ReconciledPcs, ActivePcs, AnnouncedPcs
  <1>4. /\ store[n] \in Chains /\ proc[n].lease \in Leases /\ proc[n].lease.epoch \in Nat
        /\ LocalEpoch(store[n]) = proc[n].lease.epoch
    BY <1>1, <1>2 DEF ProcOK, LeasedPcs, ReconciledPcs, ActivePcs, AnnouncedPcs, Leases
  <1>5. /\ store' \in [Owners -> {None} \cup Chains] /\ synced' \in [Owners -> Nat]
        /\ Extends(n) /\ LocalEpoch(store'[n]) = proc[n].lease.epoch /\ store'[n] \in Chains
        /\ \A m \in Owners \ {n} : store'[m] = store[m] /\ synced'[m] = synced[m]
    <2>1. CASE UNCHANGED <<store, synced>>
      BY <1>1, <1>4, <2>1, StoreSame DEF TypeOK
    <2>2. CASE WriteLocally(n, Row(proc[n].lease.epoch, RootFence))
      <3> PICK row : row = Row(proc[n].lease.epoch, RootFence)
        OBVIOUS
      <3>1. row \in RowSet /\ row.epoch = proc[n].lease.epoch
        BY <1>4 DEF Row, RowSet
      <3>2. LocalEpoch(store[n]) <= row.epoch
        BY <1>4, <3>1
      <3> QED BY <1>4, <2>2, <3>1, <3>2, WriteExtends
    <2> QED BY <2>1, <2>2 DEF Attach
  <1>6. TypeOK' /\ QuietStep(n)
    BY <1>1, <1>2, <1>3, <1>5 DEF TypeOK, QuietStep
  <1>7. ASSUME IsPrefix(DurableChain(control), store[n])
        PROVE  IsPrefix(DurableChain(control), store'[n])
    BY <1>1, <1>4, <1>5, <1>7, PrefixTrans DEF Extends
  <1>8. ProcOK(n)'
    BY <1>1, <1>2, <1>3, <1>5, <1>7
       DEF ProcOK, LeasedPcs, ReconciledPcs, ActivePcs, AnnouncedPcs, Shared
  <1>9. RoundOK(n)'
    BY <1>1, <1>2 DEF RoundOK, PublishingPcs
  <1>10. \A r \in Requests : (req[r].at = n)' => ReqOK(r)'
    BY <1>2, <1>5, ReqsSame
  <1> QED BY <1>6, <1>8, <1>9, <1>10, LocalStep DEF NodeOK

(* The shard is announced once its durable chain ends in the owner's epoch. *)
LEMMA AnnounceServingStep ==
    ASSUME IInv, NEW n \in Owners, AnnounceServing(n), deployment' = deployment
    PROVE  IInv'
  <1>1. /\ TypeOK /\ proc \in [Owners -> Procs] /\ proc[n] \in Procs /\ ProcOK(n) /\ RoundOK(n)
        /\ RecordOK(control) /\ control \in Records /\ nextLease \in Nat
    BY NodeFacts
  <1> PICK next : next = control'
    OBVIOUS
  <1>2. /\ proc[n].pc = "mark" /\ NamesLease(control, proc[n].lease) /\ control.pending = None
        /\ next = [control EXCEPT !.state = "Serving"]
        /\ proc' = [proc EXCEPT ![n].pc = "serving", ![n].record = None]
        /\ UNCHANGED <<nextLease, store, synced, round, req>>
    BY DEF AnnounceServing, MarkServing, Holds, PutRecord, ServingRecord, Published
  <1>3. /\ next \in Records /\ next.owner = control.owner /\ next.epoch = control.epoch
        /\ next.lease = control.lease /\ next.state = "Serving"
        /\ next.log = control.log /\ next.durable = control.durable
        /\ next.pending = control.pending
    BY <1>1, <1>2 DEF Records
  <1>4. /\ proc' \in [Owners -> Procs] /\ proc'[n].pc = "serving" /\ proc'[n].open = proc[n].open
        /\ proc'[n].lease = proc[n].lease /\ \A m \in Owners \ {n} : proc'[m] = proc[m]
    <2> PICK w : w = [proc[n] EXCEPT !.pc = "serving"]
      OBVIOUS
    <2>1. w \in Procs /\ w.pc = "serving" /\ w.open = proc[n].open /\ w.lease = proc[n].lease
      BY <1>1 DEF Procs, LeasedPcs, ReconciledPcs, ActivePcs, AnnouncedPcs
    <2> PICK x : x = [w EXCEPT !.record = None]
      OBVIOUS
    <2>2. x \in Procs /\ x.pc = "serving" /\ x.open = proc[n].open /\ x.lease = proc[n].lease
      BY <2>1 DEF Procs, Seen
    <2>3. proc' = [proc EXCEPT ![n] = x]
      BY <1>2
    <2> QED BY <1>1, <2>2, <2>3, ProcSet
  <1>5. DurableChain(next) = DurableChain(control) /\ RecordOK(next)
    BY <1>1, <1>3, SameLog
  <1>6. RecordOK(control)'
    BY <1>5
  <1>7. (Shared => EpochsOK(control))'
    <2>1. ASSUME Shared PROVE EpochsOK(next)
      <3>1. LocalEpoch(DurableChain(control)) = control.epoch
        BY <1>1, <1>2, <2>1 DEF ProcOK, LeasedPcs, ReconciledPcs, ActivePcs, AnnouncedPcs, NamesLease
      <3> QED BY <1>2, <1>3, <1>5, <3>1 DEF EpochsOK, Ends
    <2> QED BY <2>1 DEF Shared
  <1>8. TypeOK'
    BY <1>1, <1>2, <1>3, <1>4 DEF TypeOK
  <1>9. OnlyNode(n)
    <2>1. \A m \in Owners \ {n} : proc[m].pc \in LeasedPcs => ~NamesLease(control', proc[m].lease)
      BY <1>2, <1>3, OwnRecord DEF LeasedPcs, ReconciledPcs, ActivePcs, AnnouncedPcs
    <2> QED BY <1>1, <1>2, <1>4, <1>5, <2>1 DEF OnlyNode
  <1>10. ProcOK(n)'
    BY <1>1, <1>2, <1>4, <1>5
       DEF ProcOK, LeasedPcs, ReconciledPcs, ActivePcs, AnnouncedPcs, Shared
  <1>11. RoundOK(n)'
    BY <1>1, <1>2 DEF RoundOK, PublishingPcs
  <1>12. \A r \in Requests : (req[r].at = n)' => ReqOK(r)'
    BY <1>2, <1>5, StoreSame, ReqsSame
  <1> QED BY <1>6, <1>7, <1>8, <1>9, <1>10, <1>11, <1>12, NodeStep DEF NodeOK

(* A process that is gone.                                                 *)
LEMMA DownOK ==
    ASSUME NEW n \in Owners, proc'[n] = Down, round'[n] = None
    PROVE  ProcOK(n)' /\ RoundOK(n)'
  <1>1. proc'[n].pc = "down"
    BY DownType
  <1> QED BY <1>1 DEF ProcOK, RoundOK, LeasedPcs, ReconciledPcs, ActivePcs, AnnouncedPcs

LEMMA AbandonStep ==
    ASSUME IInv, NEW n \in Owners, Abandon(n), deployment' = deployment
    PROVE  IInv'
  <1>1. /\ TypeOK /\ proc \in [Owners -> Procs] /\ round \in [Owners -> {None} \cup Rounds]
    BY NodeFacts
  <1>2. /\ proc[n].pc \notin {"serving", "releasing"}
        /\ proc' = [proc EXCEPT ![n] = Down] /\ round' = [round EXCEPT ![n] = None]
        /\ UNCHANGED <<control, nextLease, store, synced, req>>
    BY DEF Abandon, SuspendRecovery, controlVars
  <1>3. /\ proc' \in [Owners -> Procs] /\ proc'[n] = Down
        /\ round' \in [Owners -> {None} \cup Rounds] /\ round'[n] = None
        /\ \A m \in Owners \ {n} : proc'[m] = proc[m] /\ round'[m] = round[m]
    BY <1>1, <1>2, DownType
  <1>4. TypeOK' /\ QuietStep(n)
    BY <1>1, <1>2, <1>3 DEF TypeOK, QuietStep
  <1>5. \A r \in Requests : (req[r].at = n)' => ReqOK(r)'
    BY <1>2, StoreSame, ReqsSame
  <1> QED BY <1>3, <1>4, <1>5, DownOK, LocalStep DEF NodeOK

-----------------------------------------------------------------------------
(* Requests.                                                               *)

LEMMA ArriveStep ==
    ASSUME IInv, NEW n \in Owners, NEW q \in Requests, Arrive(n, q), deployment' = deployment
    PROVE  IInv'
  <1>1. /\ TypeOK /\ ProcOK(n) /\ RoundOK(n)
        /\ req \in [Requests -> [at : {None} \cup Owners, stage : Stages]]
    BY NodeFacts
  <1> PICK stage \in {"arrived", "admitted"} : stage = IF Shared THEN "arrived" ELSE "admitted"
    OBVIOUS
  <1> PICK w : w = [at |-> n, stage |-> stage]
    OBVIOUS
  <1>2. /\ proc[n].pc = "serving" /\ req[q].stage = "new"
        /\ req' = [req EXCEPT ![q] = w]
        /\ UNCHANGED <<control, nextLease, store, synced, proc, round>>
    BY DEF Arrive, controlVars
  <1>3. w \in [at : {None} \cup Owners, stage : Stages] /\ w.at = n /\ w.stage = stage
    BY DEF Stages
  <1>4. /\ req' \in [Requests -> [at : {None} \cup Owners, stage : Stages]]
        /\ req'[q] = w /\ \A r \in Requests \ {q} : req'[r] = req[r]
    BY <1>1, <1>2, <1>3
  <1>5. TypeOK'
    BY <1>1, <1>2, <1>4 DEF TypeOK
  <1>6. QuietStep(n) /\ Extends(n)
    BY <1>1, <1>2, <1>3, <1>4, StoreSame DEF QuietStep
  <1>7. ProcOK(n)'
    BY <1>1, <1>2 DEF ProcOK, Shared
  <1>8. RoundOK(n)'
    <2>1. \A r \in Requests :
            req[r].at = n /\ req[r].stage \in {"arrived", "waiting"} => req'[r] = req[r]
      BY <1>2, <1>4
    <2> QED BY <1>2, <1>6, <2>1, RoundSame
  <1>9. ASSUME NEW r \in Requests, (req[r].at = n)' PROVE ReqOK(r)'
    <2>1. CASE r = q
      BY <1>2, <1>3, <1>4, <2>1 DEF ReqOK
    <2>2. CASE r # q
      BY <1>2, <1>4, <1>6, <1>9, <2>2, ReqSame
    <2> QED BY <2>1, <2>2
  <1> QED BY <1>5, <1>6, <1>7, <1>8, <1>9, LocalStep DEF NodeOK

(* A request that moves on at its node.                                    *)
LEMMA ReqStage ==
    ASSUME NEW p \in [Requests -> [at : {None} \cup Owners, stage : Stages]],
           NEW q \in Requests, NEW x \in Stages, NEW p2, p2 = [p EXCEPT ![q].stage = x]
    PROVE  /\ p2 \in [Requests -> [at : {None} \cup Owners, stage : Stages]]
           /\ p2[q].at = p[q].at /\ p2[q].stage = x
           /\ \A r \in Requests \ {q} : p2[r] = p[r]
  <1> PICK w : w = [p[q] EXCEPT !.stage = x]
    OBVIOUS
  <1>1. p[q] \in [at : {None} \cup Owners, stage : Stages]
    OBVIOUS
  <1>2. w \in [at : {None} \cup Owners, stage : Stages] /\ w.at = p[q].at /\ w.stage = x
    BY <1>1
  <1>3. p2 = [p EXCEPT ![q] = w]
    OBVIOUS
  <1> QED BY <1>2, <1>3

LEMMA ExecuteStep ==
    ASSUME IInv, NEW n \in Owners, NEW q \in Requests, Execute(n, q), deployment' = deployment
    PROVE  IInv'
  <1>1. /\ TypeOK /\ ProcOK(n) /\ RoundOK(n) /\ proc[n] \in Procs
        /\ req \in [Requests -> [at : {None} \cup Owners, stage : Stages]]
        /\ store \in [Owners -> {None} \cup Chains] /\ DurableChain(control) \in Chains
    BY NodeFacts
  <1> PICK row : row = Row(proc[n].lease.epoch, q)
    OBVIOUS
  <1> PICK c : c = Append(store[n], row)
    OBVIOUS
  <1>2. /\ proc[n].pc \in {"serving", "releasing"} /\ req[q] = [at |-> n, stage |-> "admitted"]
        /\ LocalEpoch(store[n]) = proc[n].lease.epoch
        /\ store' = [store EXCEPT ![n] = c]
        /\ req' = [req EXCEPT ![q].stage = "executed"]
        /\ UNCHANGED <<control, nextLease, synced, proc, round>>
    BY DEF Execute, controlVars
  <1>3. req[q].at = n /\ req[q].stage = "admitted"
    BY <1>2
  <1>4. store[n] \in Chains /\ proc[n].lease \in Leases /\ proc[n].lease.epoch \in Nat
    BY <1>1, <1>2 DEF ProcOK, LeasedPcs, ReconciledPcs, ActivePcs, AnnouncedPcs, Leases
  <1>5. row \in RowSet /\ row.epoch = proc[n].lease.epoch /\ row.request = q
    BY <1>4 DEF Row, RowSet
  <1>6. LocalEpoch(store[n]) <= row.epoch
    BY <1>2, <1>4, <1>5
  <1>7. c \in Chains /\ IsPrefix(store[n], c) /\ LocalEpoch(c) = row.epoch /\ q \in Rows(c)
    BY <1>4, <1>5, <1>6, AppendChain
  <1>8. /\ store' \in [Owners -> {None} \cup Chains] /\ store'[n] = c
        /\ \A m \in Owners \ {n} : store'[m] = store[m]
    BY <1>1, <1>2, <1>7
  <1>9. /\ req' \in [Requests -> [at : {None} \cup Owners, stage : Stages]]
        /\ req'[q].at = n /\ req'[q].stage = "executed"
        /\ \A r \in Requests \ {q} : req'[r] = req[r]
    BY <1>1, <1>2, <1>3, ReqStage, SMTT(60) DEF Stages
  <1>10. TypeOK'
    BY <1>1, <1>2, <1>8, <1>9 DEF TypeOK
  <1>11. QuietStep(n)
    BY <1>2, <1>3, <1>8, <1>9 DEF QuietStep
  <1>12. Extends(n)
    BY <1>2, <1>7, <1>8 DEF Extends
  <1>13. IsPrefix(DurableChain(control), store[n]) => IsPrefix(DurableChain(control), c)
    BY <1>1, <1>4, <1>7, PrefixTrans
  <1>14. ProcOK(n)'
    BY <1>1, <1>2, <1>5, <1>7, <1>8, <1>13 DEF ProcOK, Shared
  <1>15. RoundOK(n)'
    <2>1. \A r \in Requests :
            req[r].at = n /\ req[r].stage \in {"arrived", "waiting"} => req'[r] = req[r]
      BY <1>3, <1>9
    <2>2. q \in InFlight(n)
      BY <1>3 DEF InFlight
    <2> QED BY <1>2, <1>12, <2>1, <2>2, RoundSame
  <1>16. ASSUME NEW r \in Requests, (req[r].at = n)' PROVE ReqOK(r)'
    <2>1. CASE r = q
      BY <1>2, <1>7, <1>8, <1>9, <2>1 DEF ReqOK
    <2>2. CASE r # q
      BY <1>2, <1>9, <1>12, <1>16, <2>2, ReqSame
    <2> QED BY <2>1, <2>2
  <1> QED BY <1>10, <1>11, <1>14, <1>15, <1>16, LocalStep DEF NodeOK

(* The row of the request is synced before the request waits for a round.  *)
LEMMA LocalAckStep ==
    ASSUME IInv, NEW n \in Owners, NEW q \in Requests, LocalAck(n, q), deployment' = deployment
    PROVE  IInv'
  <1>1. /\ TypeOK /\ ProcOK(n) /\ RoundOK(n) /\ ReqOK(q)
        /\ req \in [Requests -> [at : {None} \cup Owners, stage : Stages]]
        /\ synced \in [Owners -> Nat]
    BY NodeFacts
  <1>2. /\ req[q] = [at |-> n, stage |-> "executed"]
        /\ synced' = [synced EXCEPT ![n] = Len(store[n])]
        /\ req' = [req EXCEPT ![q].stage = "waiting"]
        /\ UNCHANGED <<control, nextLease, store, proc, round>>
    BY DEF LocalAck, controlVars
  <1>3. req[q].at = n /\ req[q].stage = "executed"
    BY <1>2
  <1>4. /\ proc[n].pc \in {"serving", "releasing"} /\ q \in Rows(store[n])
        /\ n \in deployment.nodes /\ store[n] \in Chains
    BY <1>1, <1>3 DEF ReqOK, ProcOK
  <1>5. Len(store[n]) \in Nat
    BY <1>4, ChainType
  <1>6. /\ synced' \in [Owners -> Nat] /\ synced'[n] = Len(store[n])
        /\ \A m \in Owners \ {n} : synced'[m] = synced[m]
    BY <1>1, <1>2, <1>5
  <1>7. /\ req' \in [Requests -> [at : {None} \cup Owners, stage : Stages]]
        /\ req'[q].at = n /\ req'[q].stage = "waiting"
        /\ \A r \in Requests \ {q} : req'[r] = req[r]
    BY <1>1, <1>2, <1>3, ReqStage DEF Stages
  <1>8. TypeOK'
    BY <1>1, <1>2, <1>6, <1>7 DEF TypeOK
  <1>9. QuietStep(n)
    BY <1>2, <1>3, <1>6, <1>7 DEF QuietStep
  <1>10. Extends(n)
    BY <1>2, <1>5, <1>6, PrefixRefl DEF Extends
  <1>11. ProcOK(n)'
    BY <1>1, <1>2 DEF ProcOK, Shared
  <1>12. RoundOK(n)'
    <2>1. \A r \in Requests :
            req[r].at = n /\ req[r].stage \in {"arrived", "waiting"} => req'[r] = req[r]
      BY <1>3, <1>7
    <2>2. q \in InFlight(n)
      BY <1>3 DEF InFlight
    <2> QED BY <1>2, <1>10, <2>1, <2>2, RoundSame
  <1>13. ASSUME NEW r \in Requests, (req[r].at = n)' PROVE ReqOK(r)'
    <2>1. CASE r = q
      <3>1. PICK i \in 1..Len(store[n]) : store[n][i].request = q
        BY <1>4 DEF Rows
      <3>2. i <= synced'[n]
        BY <1>5, <1>6
      <3> QED BY <1>2, <1>4, <1>7, <2>1, <3>1, <3>2 DEF ReqOK
    <2>2. CASE r # q
      BY <1>2, <1>7, <1>10, <1>13, <2>2, ReqSame
    <2> QED BY <2>1, <2>2
  <1> QED BY <1>8, <1>9, <1>11, <1>12, <1>13, LocalStep DEF NodeOK

-----------------------------------------------------------------------------
(* The end of a process.                                                   *)

LEMMA BeginReleaseStep ==
    ASSUME IInv, NEW n \in Owners, BeginRelease(n), deployment' = deployment
    PROVE  IInv'
  <1>1. /\ TypeOK /\ proc \in [Owners -> Procs] /\ ProcOK(n) /\ RoundOK(n)
    BY NodeFacts
  <1>2. /\ proc[n].pc = "serving" /\ proc' = [proc EXCEPT ![n].pc = "releasing"]
        /\ UNCHANGED <<control, nextLease, store, synced, round, req>>
    BY DEF BeginRelease, controlVars
  <1>3. /\ proc' \in [Owners -> Procs] /\ proc'[n].pc = "releasing"
        /\ proc'[n].open = proc[n].open
        /\ proc'[n].lease = proc[n].lease /\ \A m \in Owners \ {n} : proc'[m] = proc[m]
    BY <1>1, <1>2, ProcPc DEF LeasedPcs, ReconciledPcs, ActivePcs, AnnouncedPcs
  <1>4. TypeOK' /\ QuietStep(n) /\ Extends(n)
    BY <1>1, <1>2, <1>3, StoreSame DEF TypeOK, QuietStep
  <1>5. ProcOK(n)'
    BY <1>1, <1>2, <1>3 DEF ProcOK, LeasedPcs, ReconciledPcs, ActivePcs, AnnouncedPcs, Shared
  <1>6. RoundOK(n)'
    <2>1. InFlight(n)' = InFlight(n)
      BY <1>2 DEF InFlight
    <2> QED BY <1>2, <1>3, <1>4, <2>1, RoundSame
  <1>7. \A r \in Requests : (req[r].at = n)' => ReqOK(r)'
    BY <1>2, <1>3, <1>4, ReqsSame
  <1> QED BY <1>4, <1>5, <1>6, <1>7, LocalStep DEF NodeOK

LEMMA ReleasedType ==
    ASSUME NEW record \in Records, NEW next, next = ReleasedRecord(record)
    PROVE  /\ next \in Records /\ next.lease = 0 /\ next.epoch = record.epoch
           /\ next.state = "Unassigned" /\ next.log = record.log
           /\ next.durable = record.durable /\ next.pending = record.pending
  <1> PICK x : x = [record EXCEPT !.owner = None]
    OBVIOUS
  <1>1. /\ x \in Records /\ x.epoch = record.epoch /\ x.log = record.log
        /\ x.durable = record.durable /\ x.pending = record.pending
    BY DEF Records
  <1> PICK y : y = [x EXCEPT !.lease = 0]
    OBVIOUS
  <1>2. /\ y \in Records /\ y.lease = 0 /\ y.epoch = record.epoch /\ y.log = record.log
        /\ y.durable = record.durable /\ y.pending = record.pending
    BY <1>1 DEF Records
  <1>3. next = [y EXCEPT !.state = "Unassigned"]
    BY DEF ReleasedRecord
  <1> QED BY <1>2, <1>3 DEF Records

LEMMA ReleaseStep ==
    ASSUME IInv, NEW n \in Owners, Release(n), deployment' = deployment
    PROVE  IInv'
  <1>1. /\ TypeOK /\ proc \in [Owners -> Procs] /\ RoundOK(n)
        /\ RecordOK(control) /\ control \in Records /\ nextLease \in Nat
    BY NodeFacts
  <1> PICK next : next = control'
    OBVIOUS
  <1>2. /\ proc[n].pc = "release" /\ control.pending = None /\ control.state # "Recovering"
        /\ next = ReleasedRecord(control)
        /\ proc' = [proc EXCEPT ![n] = Down]
        /\ UNCHANGED <<nextLease, store, synced, round, req>>
    BY DEF Release, ReleaseOwner, PutRecord
  <1>3. /\ next \in Records /\ next.lease = 0 /\ next.epoch = control.epoch
        /\ next.state = "Unassigned" /\ next.log = control.log
        /\ next.durable = control.durable /\ next.pending = control.pending
    BY <1>1, <1>2, ReleasedType
  <1>4. /\ proc' \in [Owners -> Procs] /\ proc'[n] = Down
        /\ \A m \in Owners \ {n} : proc'[m] = proc[m]
    BY <1>1, <1>2, DownType
  <1>5. DurableChain(next) = DurableChain(control) /\ RecordOK(next)
    BY <1>1, <1>3, SameLog
  <1>6. (Shared => EpochsOK(control))'
    <2>1. Shared => EpochsOK(next)
      BY <1>2, <1>3, <1>5 DEF EpochsOK, Ends, IInv
    <2> QED BY <2>1 DEF Shared
  <1>7. TypeOK'
    BY <1>1, <1>2, <1>3, <1>4 DEF TypeOK
  <1>8. OnlyNode(n)
    <2>1. \A m \in Owners \ {n} : proc[m].pc \in LeasedPcs => ~NamesLease(control', proc[m].lease)
      <3> SUFFICES ASSUME NEW m \in Owners, proc[m].pc \in LeasedPcs
                   PROVE  ~NamesLease(next, proc[m].lease)
        OBVIOUS
      <3>1. proc[m].lease.id \in Nat /\ 0 < proc[m].lease.id
        BY DEF IInv, ProcOK, Leases
      <3> QED BY <1>3, <3>1 DEF NamesLease
    <2> QED BY <1>1, <1>2, <1>4, <1>5, <2>1 DEF OnlyNode
  <1>9. ProcOK(n)' /\ RoundOK(n)'
    <2>1. round'[n] = None
      BY <1>1, <1>2 DEF RoundOK, PublishingPcs
    <2> QED BY <1>4, <2>1, DownOK
  <1>10. \A r \in Requests : (req[r].at = n)' => ReqOK(r)'
    BY <1>2, <1>5, StoreSame, ReqsSame
  <1>11. RecordOK(control)'
    BY <1>5
  <1> QED BY <1>6, <1>7, <1>8, <1>9, <1>10, <1>11, NodeStep DEF NodeOK

(* A crash loses only what was not synced, and answers nothing.            *)
LEMMA StopStep ==
    ASSUME IInv, NEW n \in Owners, Stop(n), deployment' = deployment
    PROVE  IInv'
  <1>1. /\ TypeOK /\ proc \in [Owners -> Procs] /\ ProcOK(n)
        /\ round \in [Owners -> {None} \cup Rounds]
        /\ store \in [Owners -> {None} \cup Chains] /\ synced \in [Owners -> Nat]
        /\ req \in [Requests -> [at : {None} \cup Owners, stage : Stages]]
    BY NodeFacts
  <1>2. PICK k \in synced[n]..Len(store[n]) :
          /\ store' = [store EXCEPT ![n] = SubSeq(store[n], 1, k)]
          /\ synced' = [synced EXCEPT ![n] = k]
    BY DEF Stop
  <1>3. /\ proc[n].pc # "down" /\ proc' = [proc EXCEPT ![n] = Down]
        /\ round' = [round EXCEPT ![n] = None]
        /\ req' = [r \in Requests |-> IF r \in InFlight(n)
                                      THEN [at |-> n, stage |-> "lost"] ELSE req[r]]
        /\ UNCHANGED <<control, nextLease>>
    BY DEF Stop, controlVars
  <1>4. store[n] \in Chains /\ synced[n] \in Nat
    BY <1>1, <1>3 DEF ProcOK
  <1>5. k \in 0..Len(store[n]) /\ k \in Nat /\ synced[n] <= k
    BY <1>4, ChainType
  <1> PICK c : c = SubSeq(store[n], 1, k)
    OBVIOUS
  <1>6. c \in Chains /\ Len(c) = k /\ \A i \in 1..k : c[i] = store[n][i]
    BY <1>4, <1>5, CutChain
  <1>7. /\ store' \in [Owners -> {None} \cup Chains] /\ store'[n] = c
        /\ synced' \in [Owners -> Nat] /\ synced'[n] = k
        /\ \A m \in Owners \ {n} : store'[m] = store[m] /\ synced'[m] = synced[m]
    BY <1>1, <1>2, <1>5, <1>6
  <1>8. /\ proc' \in [Owners -> Procs] /\ proc'[n] = Down
        /\ round' \in [Owners -> {None} \cup Rounds] /\ round'[n] = None
        /\ \A m \in Owners \ {n} : proc'[m] = proc[m] /\ round'[m] = round[m]
    BY <1>1, <1>3, DownType
  <1>9. \A r \in Requests : req'[r] = IF r \in InFlight(n)
                                      THEN [at |-> n, stage |-> "lost"] ELSE req[r]
    BY <1>3
  <1>10. req' \in [Requests -> [at : {None} \cup Owners, stage : Stages]]
    <2>1. [at |-> n, stage |-> "lost"] \in [at : {None} \cup Owners, stage : Stages]
      BY DEF Stages
    <2> QED BY <1>1, <1>3, <2>1
  <1>11. TypeOK'
    BY <1>1, <1>3, <1>7, <1>8, <1>10 DEF TypeOK
  <1>12. QuietStep(n)
    <2>1. \A r \in Requests :
            \/ req'[r] = req[r]
            \/ (req[r].stage = "new" \/ req[r].at = n) /\ req'[r].at = n
      BY <1>9 DEF InFlight
    <2> QED BY <1>3, <1>7, <1>8, <2>1 DEF QuietStep
  <1>13. ASSUME NEW r \in Requests, (req[r].at = n)' PROVE ReqOK(r)'
    <2>0. Shared' = Shared
      BY DEF Shared
    <2>1. CASE r \in InFlight(n)
      <3>1. req'[r].stage = "lost"
        BY <1>9, <2>1
      <3> QED BY <3>1 DEF ReqOK
    <2>2. CASE r \notin InFlight(n)
      <3>1. req'[r] = req[r] /\ req[r].at = n /\ req[r].stage \in Stages
        BY <1>1, <1>9, <1>13, <2>2
      <3>2. req[r].stage \in {"new", "lost", "acked"}
        BY <2>2, <3>1 DEF InFlight, Stages
      <3>3. ReqOK(r)
        BY NodeFacts
      <3>4. ~Shared /\ req[r].stage = "acked" =>
              /\ n \in deployment.nodes
              /\ \E i \in 1..Len(c) : i <= k /\ c[i].request = r
        <4> SUFFICES ASSUME ~Shared, req[r].stage = "acked"
                     PROVE  /\ n \in deployment.nodes
                            /\ \E i \in 1..Len(c) : i <= k /\ c[i].request = r
          OBVIOUS
        <4>1. PICK i \in 1..Len(store[n]) : i <= synced[n] /\ store[n][i].request = r
          BY <3>1, <3>3 DEF ReqOK
        <4>2. i \in 1..k
          BY <1>4, <1>5, <4>1
        <4> QED BY <1>6, <3>1, <3>3, <4>1, <4>2 DEF ReqOK
      <3> QED BY <1>3, <1>6, <1>7, <2>0, <3>1, <3>2, <3>3, <3>4, ZenonT(60) DEF ReqOK
    <2> QED BY <2>1, <2>2
  <1> QED BY <1>8, <1>11, <1>12, <1>13, DownOK, LocalStep DEF NodeOK

(* Only a shared deployment loses disks, and its answers do not need them. *)
LEMMA LoseDiskStep ==
    ASSUME IInv, NEW n \in Owners, LoseDisk(n), deployment' = deployment
    PROVE  IInv'
  <1>1. /\ TypeOK /\ ProcOK(n) /\ RoundOK(n)
        /\ store \in [Owners -> {None} \cup Chains] /\ synced \in [Owners -> Nat]
    BY NodeFacts
  <1>2. /\ deployment.disksFail /\ proc[n].pc = "down"
        /\ store' = [store EXCEPT ![n] = None] /\ synced' = [synced EXCEPT ![n] = 0]
        /\ UNCHANGED <<control, nextLease, proc, round, req>>
    BY DEF LoseDisk, controlVars
  <1>3. Shared /\ Shared'
    <2>1. deployment \in Deployments /\ deployment.mode \in {"Shared", "LocalOnly"}
      BY <1>1, DeploymentAssumption DEF TypeOK
    <2> QED BY <1>2, <2>1, DeploymentAssumption DEF Shared
  <1>4. /\ store' \in [Owners -> {None} \cup Chains] /\ synced' \in [Owners -> Nat]
        /\ \A m \in Owners \ {n} : store'[m] = store[m] /\ synced'[m] = synced[m]
    BY <1>1, <1>2
  <1>5. TypeOK' /\ QuietStep(n)
    BY <1>1, <1>2, <1>4 DEF TypeOK, QuietStep
  <1>6. ProcOK(n)'
    BY <1>2 DEF ProcOK, LeasedPcs, ReconciledPcs, ActivePcs, AnnouncedPcs
  <1>7. RoundOK(n)'
    BY <1>1, <1>2 DEF RoundOK, PublishingPcs
  <1>8. ASSUME NEW r \in Requests, (req[r].at = n)' PROVE ReqOK(r)'
    <2>1. req[r].stage \in {"new", "lost", "acked"} /\ ReqOK(r)
      BY <1>2, <1>8, NotInFlight, NodeFacts
    <2> QED BY <1>2, <1>3, <2>1 DEF ReqOK
  <1> QED BY <1>5, <1>6, <1>7, <1>8, LocalStep DEF NodeOK

LEMMA ExpireSessionStep ==
    ASSUME IInv, ExpireSession, deployment' = deployment
    PROVE  IInv'
  BY SMTT(60) DEF ExpireSession, SessionEnds, IInv, TypeOK, ProcOK, RoundOK, ReqOK, Shared, InFlight

-----------------------------------------------------------------------------
(* The publish round.                                                      *)

LEMMA StartRoundStep ==
    ASSUME IInv, NEW n \in Owners, StartRound(n), deployment' = deployment
    PROVE  IInv'
  <1>1. /\ TypeOK /\ ProcOK(n) /\ round \in [Owners -> {None} \cup Rounds]
        /\ synced \in [Owners -> Nat]
    BY NodeFacts
  <1> PICK step \in {"sample", "confirm"} : step = IF Shared THEN "sample" ELSE "confirm"
    OBVIOUS
  <1> PICK w : w = [step |-> step, covers |-> Waiting(n), required |-> None, intent |-> None]
    OBVIOUS
  <1>2. /\ \/ proc[n].pc \in {"first", "second"}
           \/ proc[n].pc \in {"serving", "releasing"} /\ Waiting(n) # {}
           \/ proc[n].pc = "releasing" /\ InFlight(n) = {}
        /\ synced' = IF Shared THEN [synced EXCEPT ![n] = Len(store[n])] ELSE synced
        /\ round' = [round EXCEPT ![n] = w]
        /\ UNCHANGED <<control, nextLease, store, proc, req>>
    BY DEF StartRound, controlVars
  <1>3. w \in Rounds /\ w.step = step /\ w.covers = Waiting(n)
    <2>1. Waiting(n) \subseteq Requests
      BY DEF Waiting
    <2> QED BY <2>1 DEF Rounds
  <1>4. store[n] \in Chains /\ Len(store[n]) \in Nat
    BY <1>1, <1>2, ChainType DEF ProcOK
  <1>5. /\ round' \in [Owners -> {None} \cup Rounds] /\ round'[n] = w
        /\ \A m \in Owners \ {n} : round'[m] = round[m]
    BY <1>1, <1>2, <1>3, RoundSet
  <1>6. /\ synced' \in [Owners -> Nat] /\ synced'[n] \in {synced[n], Len(store[n])}
        /\ \A m \in Owners \ {n} : synced'[m] = synced[m]
    BY <1>1, <1>2, <1>4
  <1>7. TypeOK' /\ QuietStep(n)
    BY <1>1, <1>2, <1>5, <1>6 DEF TypeOK, QuietStep
  <1>8. Extends(n)
    BY <1>2, <1>4, <1>6, PrefixRefl DEF Extends
  <1>9. ProcOK(n)'
    BY <1>1, <1>2 DEF ProcOK, Shared
  <1>10. RoundOK(n)'
    <2>1. /\ \A r \in Waiting(n) : req[r].at = n /\ req[r].stage \in {"arrived", "waiting"}
          /\ InFlight(n)' = InFlight(n)
      BY <1>2 DEF Waiting, InFlight
    <2> QED BY <1>2, <1>3, <1>5, <2>1 DEF RoundOK, PublishingPcs, Shared
  <1>11. \A r \in Requests : (req[r].at = n)' => ReqOK(r)'
    BY <1>2, <1>8, ReqsSame
  <1> QED BY <1>7, <1>9, <1>10, <1>11, LocalStep DEF NodeOK

(* A round in progress, whose process and requests are left alone.         *)
LEMMA RoundMoves ==
    ASSUME IInv, NEW n \in Owners, NEW w \in Rounds, round' = [round EXCEPT ![n] = w],
           UNCHANGED <<control, nextLease, deployment, store, synced, proc, req>>,
           RoundOK(n)'
    PROVE  IInv'
  <1>1. TypeOK /\ ProcOK(n) /\ round \in [Owners -> {None} \cup Rounds]
    BY NodeFacts
  <1>2. /\ round' \in [Owners -> {None} \cup Rounds] /\ round'[n] = w
        /\ \A m \in Owners \ {n} : round'[m] = round[m]
    BY <1>1, RoundSet
  <1>3. TypeOK' /\ QuietStep(n)
    BY <1>1, <1>2 DEF TypeOK, QuietStep
  <1>4. ProcOK(n)'
    BY <1>1 DEF ProcOK, Shared
  <1>5. \A r \in Requests : (req[r].at = n)' => ReqOK(r)'
    BY StoreSame, ReqsSame
  <1> QED BY <1>3, <1>4, <1>5, LocalStep DEF NodeOK

(* The process of a round in progress.                                     *)
LEMMA RoundFacts ==
    ASSUME IInv, NEW n \in Owners, round[n] # None
    PROVE  /\ round[n] \in Rounds /\ proc[n].pc \in PublishingPcs
           /\ proc[n].pc \in ActivePcs /\ proc[n].pc \in ReconciledPcs /\ proc[n].pc \in LeasedPcs
           /\ store[n] \in Chains /\ proc[n].lease \in Leases /\ proc[n].lease.epoch \in Nat
           /\ LocalEpoch(store[n]) = proc[n].lease.epoch
           /\ round[n].step # "confirm" => Shared
           /\ \A r \in round[n].covers :
                /\ r \in Requests /\ req[r].at = n /\ req[r].stage \in {"arrived", "waiting"}
                /\ proc[n].pc \in {"serving", "releasing"}
  <1>1. round[n] \in Rounds /\ ProcOK(n) /\ RoundOK(n)
    BY NodeFacts
  <1>2. /\ proc[n].pc \in PublishingPcs
        /\ proc[n].pc \in ActivePcs /\ proc[n].pc \in ReconciledPcs /\ proc[n].pc \in LeasedPcs
        /\ proc[n].pc # "down"
    BY <1>1 DEF RoundOK, PublishingPcs, ActivePcs, ReconciledPcs, LeasedPcs, AnnouncedPcs
  <1>3. /\ store[n] \in Chains /\ proc[n].lease \in Leases
        /\ LocalEpoch(store[n]) = proc[n].lease.epoch
        /\ round[n].step # "confirm" => Shared
    BY <1>1, <1>2 DEF ProcOK, RoundOK
  <1>4. proc[n].lease.epoch \in Nat
    BY <1>3 DEF Leases
  <1>5. \A r \in round[n].covers :
                /\ r \in Requests /\ req[r].at = n /\ req[r].stage \in {"arrived", "waiting"}
                /\ proc[n].pc \in {"serving", "releasing"}
    <2> SUFFICES ASSUME NEW r \in round[n].covers
                 PROVE  /\ r \in Requests /\ req[r].at = n
                        /\ req[r].stage \in {"arrived", "waiting"}
                        /\ proc[n].pc \in {"serving", "releasing"}
      OBVIOUS
    <2>1. r \in Requests /\ req[r].at = n /\ req[r].stage \in {"arrived", "waiting"}
      BY <1>1 DEF RoundOK, Rounds
    <2>2. ReqOK(r)
      BY <2>1, NodeFacts
    <2> QED BY <2>1, <2>2 DEF ReqOK
  <1> QED BY <1>1, <1>2, <1>3, <1>4, <1>5

LEMMA SampleFrontierStep ==
    ASSUME IInv, NEW n \in Owners, SampleFrontier(n), deployment' = deployment
    PROVE  IInv'
  <1>1. /\ round[n] # None /\ round[n].step = "sample"
        /\ round' = [round EXCEPT ![n].step = "prove", ![n].required = store[n]]
        /\ UNCHANGED <<control, nextLease, store, synced, proc, req>>
    BY DEF SampleFrontier, controlVars
  <1>2. /\ round[n] \in Rounds /\ store[n] \in Chains /\ RoundOK(n) /\ Shared
        /\ LocalEpoch(store[n]) = proc[n].lease.epoch
        /\ round \in [Owners -> {None} \cup Rounds]
    BY <1>1, RoundFacts, NodeFacts
  <1> PICK v : v = [round[n] EXCEPT !.step = "prove"]
    OBVIOUS
  <1>3. v \in Rounds /\ v.step = "prove" /\ v.covers = round[n].covers
    BY <1>2 DEF Rounds
  <1> PICK w : w = [v EXCEPT !.required = store[n]]
    OBVIOUS
  <1>4. w \in Rounds /\ w.step = "prove" /\ w.covers = round[n].covers /\ w.required = store[n]
    BY <1>2, <1>3 DEF Rounds
  <1>5. round' = [round EXCEPT ![n] = w]
    BY <1>1
  <1>6. round'[n] = w
    BY <1>2, <1>5
  <1>7. \A r \in round[n].covers : req[r].stage = "waiting" => r \in Rows(store[n])
    <2> SUFFICES ASSUME NEW r \in round[n].covers, req[r].stage = "waiting"
                 PROVE  r \in Rows(store[n])
      OBVIOUS
    <2>1. r \in Requests /\ req[r].at = n
      BY <1>1, RoundFacts
    <2>2. ReqOK(r)
      BY <2>1, NodeFacts
    <2> QED BY <2>1, <2>2 DEF ReqOK
  <1>8. RoundOK(n)'
    <2>1. IsPrefix(store[n], store[n]) /\ InFlight(n)' = InFlight(n)
      BY <1>1, <1>2, PrefixRefl DEF InFlight
    <2> QED BY <1>1, <1>2, <1>4, <1>6, <1>7, <2>1 DEF RoundOK, Shared
  <1> QED BY <1>1, <1>4, <1>5, <1>8, RoundMoves

LEMMA UploadStep ==
    ASSUME IInv, NEW n \in Owners, Upload(n), deployment' = deployment
    PROVE  IInv'
  <1>1. /\ round[n] # None /\ round[n].step = "upload"
        /\ round' = [round EXCEPT ![n].step = "finalize"]
        /\ UNCHANGED <<control, nextLease, store, synced, proc, req>>
    BY DEF Upload, controlVars
  <1>2. round[n] \in Rounds /\ RoundOK(n) /\ round \in [Owners -> {None} \cup Rounds]
    BY <1>1, NodeFacts
  <1> PICK w : w = [round[n] EXCEPT !.step = "finalize"]
    OBVIOUS
  <1>3. /\ w \in Rounds /\ w.step = "finalize" /\ w.covers = round[n].covers
        /\ w.required = round[n].required /\ w.intent = round[n].intent
    BY <1>2 DEF Rounds
  <1>4. round' = [round EXCEPT ![n] = w]
    BY <1>1
  <1>5. round'[n] = w /\ InFlight(n)' = InFlight(n)
    BY <1>1, <1>2, <1>4 DEF InFlight
  <1>6. RoundOK(n)'
    BY <1>1, <1>2, <1>3, <1>5 DEF RoundOK, Shared
  <1> QED BY <1>1, <1>3, <1>4, <1>6, RoundMoves

(* A planned segment continues the durable chain with rows of the store.   *)
LEMMA PlanSegmentStep ==
    ASSUME IInv, NEW n \in Owners, PlanSegment(n), deployment' = deployment
    PROVE  IInv'
  <1> PICK required : required = round[n].required
    OBVIOUS
  <1> PICK fresh : fresh = [first |-> control.durable + 1, last |-> Len(required),
                            prev |-> DurableChain(control), digest |-> required]
    OBVIOUS
  <1>1. /\ round[n] # None /\ round[n].step = "prove" /\ NamesLease(control, proc[n].lease)
        /\ \/ /\ control.pending # None /\ PendingIsLocal(control, store[n])
              /\ round' = [round EXCEPT ![n].step = "prepare", ![n].intent = control.pending]
           \/ /\ control.durable < Len(required) /\ DurablePrefix(control, store[n])
              /\ round' = [round EXCEPT ![n].step = "prepare", ![n].intent = fresh]
        /\ UNCHANGED <<control, nextLease, store, synced, proc, req>>
    BY DEF PlanSegment, Holds, controlVars
  <1>2. /\ round[n] \in Rounds /\ store[n] \in Chains /\ RoundOK(n) /\ Shared
        /\ round \in [Owners -> {None} \cup Rounds] /\ RecordOK(control) /\ control \in Records
        /\ DurableChain(control) \in Chains /\ EpochsOK(control)
    <2>1. Shared
      BY <1>1, RoundFacts
    <2> QED BY <1>1, <2>1, RoundFacts, NodeFacts DEF IInv
  <1>3. /\ required \in Chains /\ IsPrefix(required, store[n])
        /\ LocalEpoch(required) = proc[n].lease.epoch
        /\ Len(required) \in Nat /\ Len(DurableChain(control)) \in Nat
        /\ control.durable = Len(DurableChain(control))
    BY <1>1, <1>2, ChainType DEF RoundOK, RecordOK
  <1>4. PICK intent \in Intents :
          /\ round' = [round EXCEPT ![n].step = "prepare", ![n].intent = intent]
          /\ IntentOK(intent) /\ IsPrefix(intent.digest, store[n])
          /\ LocalEpoch(intent.digest) \in {proc[n].lease.epoch, proc[n].lease.epoch - 1}
    <2>1. CASE /\ control.pending # None /\ PendingIsLocal(control, store[n])
               /\ round' = [round EXCEPT ![n].step = "prepare", ![n].intent = control.pending]
      <3> PICK p \in Intents : p = control.pending
        BY <1>2, <2>1 DEF Records
      <3>1. IntentOK(p) /\ p.digest \in Chains /\ p.last = Len(p.digest)
        BY <1>2, <2>1 DEF RecordOK, IntentOK, Intents
      <3>2. Len(p.digest) \in Nat /\ Len(store[n]) \in Nat /\ store[n] \in Seq(RowSet)
        BY <1>2, <3>1, ChainType
      <3>3. Len(store[n]) >= p.last /\ SubSeq(store[n], 1, p.last) = p.digest
        BY <2>1 DEF PendingIsLocal
      <3>4. IsPrefix(p.digest, store[n])
        <4>1. p.last \in 0..Len(store[n])
          BY <3>1, <3>2, <3>3
        <4> QED BY <1>2, <3>3, <4>1, CutChain
      <3>5. LocalEpoch(p.digest) \in {proc[n].lease.epoch, proc[n].lease.epoch - 1}
        BY <1>1, <1>2, <2>1 DEF EpochsOK, Ends, NamesLease
      <3> QED BY <2>1, <3>1, <3>4, <3>5
    <2>2. CASE /\ control.durable < Len(required) /\ DurablePrefix(control, store[n])
               /\ round' = [round EXCEPT ![n].step = "prepare", ![n].intent = fresh]
      <3>1. /\ fresh \in Intents /\ fresh.first = Len(DurableChain(control)) + 1
            /\ fresh.last = Len(required) /\ fresh.prev = DurableChain(control)
            /\ fresh.digest = required
        BY <1>2, <1>3 DEF Intents
      <3>2. IsPrefix(DurableChain(control), required)
        BY <1>2, <1>3, <2>2, PrefixOrder DEF DurablePrefix
      <3> QED BY <1>3, <2>2, <3>1, <3>2 DEF IntentOK
    <2> QED BY <1>1, <2>1, <2>2
  <1> PICK v : v = [round[n] EXCEPT !.step = "prepare"]
    OBVIOUS
  <1>5. /\ v \in Rounds /\ v.step = "prepare" /\ v.covers = round[n].covers
        /\ v.required = round[n].required
    BY <1>2 DEF Rounds
  <1> PICK w : w = [v EXCEPT !.intent = intent]
    OBVIOUS
  <1>6. /\ w \in Rounds /\ w.step = "prepare" /\ w.covers = round[n].covers
        /\ w.required = round[n].required /\ w.intent = intent
    BY <1>5 DEF Rounds
  <1>7. round' = [round EXCEPT ![n] = w]
    BY <1>4
  <1>8. round'[n] = w /\ InFlight(n)' = InFlight(n)
    BY <1>1, <1>2, <1>7 DEF InFlight
  <1>9. RoundOK(n)'
    <2> HIDE DEF Intents, Rounds
    <2> QED BY <1>1, <1>2, <1>3, <1>4, <1>6, <1>8 DEF RoundOK, Shared
  <1> QED BY <1>1, <1>6, <1>7, <1>9, RoundMoves

LEMMA RoundFailsStep ==
    ASSUME IInv, NEW n \in Owners, RoundFails(n), deployment' = deployment
    PROVE  IInv'
  <1>1. /\ TypeOK /\ ProcOK(n) /\ RoundOK(n) /\ proc \in [Owners -> Procs] /\ proc[n] \in Procs
        /\ round \in [Owners -> {None} \cup Rounds]
        /\ req \in [Requests -> [at : {None} \cup Owners, stage : Stages]]
    BY NodeFacts
  <1>2. /\ round[n] # None /\ round' = [round EXCEPT ![n] = None]
        /\ UNCHANGED <<control, nextLease, store, synced>>
    BY DEF RoundFails, controlVars
  <1>3. /\ round' \in [Owners -> {None} \cup Rounds] /\ round'[n] = None
        /\ \A m \in Owners \ {n} : round'[m] = round[m]
    BY <1>1, <1>2, RoundSet
  <1>4. RoundOK(n)' /\ Extends(n)
    BY <1>2, <1>3, StoreSame DEF RoundOK
  <1>5. CASE round[n].covers = {}
    <2>1. /\ proc' = [proc EXCEPT ![n] = IF proc[n].pc = "releasing" THEN Down
                                         ELSE [proc[n] EXCEPT !.pc = "failed"]]
          /\ req' = req
      BY <1>5 DEF RoundFails
    <2>2. /\ proc[n].pc \in {"first", "second", "releasing"}
          /\ proc[n].pc = "releasing" => InFlight(n) = {}
      BY <1>1, <1>2, <1>5 DEF RoundOK, PublishingPcs
    <2>3. \A r \in Requests : (req[r].at = n)' => ReqOK(r)'
      BY <1>2, <1>4, <2>1, <2>2, ReqsSame
    <2>4. CASE proc[n].pc = "releasing"
      <3>1. proc' = [proc EXCEPT ![n] = Down]
        BY <2>1, <2>4
      <3>2. /\ proc' \in [Owners -> Procs] /\ proc'[n] = Down
            /\ \A m \in Owners \ {n} : proc'[m] = proc[m]
        BY <1>1, <3>1, DownType
      <3>3. TypeOK' /\ QuietStep(n)
        BY <1>1, <1>2, <1>3, <2>1, <3>2 DEF TypeOK, QuietStep
      <3> QED BY <1>3, <2>3, <3>2, <3>3, DownOK, LocalStep DEF NodeOK
    <2>5. CASE proc[n].pc # "releasing"
      <3>1. proc' = [proc EXCEPT ![n].pc = "failed"]
        BY <2>1, <2>5
      <3>2. /\ proc' \in [Owners -> Procs] /\ proc'[n].pc = "failed"
            /\ proc'[n].open = proc[n].open /\ proc'[n].lease = proc[n].lease
            /\ \A m \in Owners \ {n} : proc'[m] = proc[m]
        <4> PICK w : w = [proc[n] EXCEPT !.pc = "failed"]
          OBVIOUS
        <4>1. w \in Procs /\ w.pc = "failed" /\ w.open = proc[n].open /\ w.lease = proc[n].lease
          BY <1>1 DEF Procs, LeasedPcs
        <4>2. proc' = [proc EXCEPT ![n] = w]
          BY <3>1
        <4> QED BY <1>1, <4>1, <4>2, ProcSet
      <3>3. TypeOK' /\ QuietStep(n)
        BY <1>1, <1>2, <1>3, <2>1, <3>2 DEF TypeOK, QuietStep
      <3>4. ProcOK(n)'
        <4>1. n \in deployment.nodes /\ store[n] \in Chains
              /\ (proc[n].open = "RecoverLog" => Shared)
              /\ proc[n].lease \in Leases /\ proc[n].lease.owner = n
              /\ 0 < proc[n].lease.id /\ proc[n].lease.id <= nextLease
          BY <1>1, <2>2 DEF ProcOK, LeasedPcs, ReconciledPcs, ActivePcs, AnnouncedPcs
        <4> QED BY <1>2, <3>2, <4>1
             DEF ProcOK, LeasedPcs, ReconciledPcs, ActivePcs, AnnouncedPcs, Shared
      <3> QED BY <1>4, <2>3, <3>3, <3>4, LocalStep DEF NodeOK
    <2> QED BY <2>4, <2>5
  <1>6. CASE round[n].covers # {}
    <2>1. PICK q \in round[n].covers : req' = [req EXCEPT ![q].stage = "lost"]
      BY <1>6 DEF RoundFails
    <2>2. q \in Requests /\ req[q].at = n /\ proc' = proc
      BY <1>2, <1>6, RoundFacts DEF RoundFails
    <2>3. /\ req' \in [Requests -> [at : {None} \cup Owners, stage : Stages]]
          /\ req'[q].at = n /\ req'[q].stage = "lost"
          /\ \A r \in Requests \ {q} : req'[r] = req[r]
      BY <1>1, <2>1, <2>2, ReqStage DEF Stages
    <2>4. TypeOK' /\ QuietStep(n)
      BY <1>1, <1>2, <1>3, <2>2, <2>3 DEF TypeOK, QuietStep
    <2>5. ProcOK(n)'
      BY <1>1, <1>2, <2>2 DEF ProcOK, Shared
    <2>6. ASSUME NEW r \in Requests, (req[r].at = n)' PROVE ReqOK(r)'
      <3>1. CASE r = q
        BY <2>3, <3>1 DEF ReqOK
      <3>2. CASE r # q
        BY <1>2, <1>4, <2>2, <2>3, <2>6, <3>2, ReqSame
      <3> QED BY <3>1, <3>2
    <2> QED BY <1>4, <2>4, <2>5, <2>6, LocalStep DEF NodeOK
  <1> QED BY <1>5, <1>6

\* The owner whose lease the record names has moved the record on.
RecordMoves(n) ==
    /\ NamesLease(control, proc[n].lease)
    /\ control' \in Records /\ control'.owner = control.owner
    /\ IsPrefix(DurableChain(control), DurableChain(control'))
    /\ RecordOK(control)' /\ (Shared => EpochsOK(control))'

(* A round ends well: what it sampled is the durable chain.                *)
LEMMA CoveredStep ==
    ASSUME IInv, NEW n \in Owners, NEW d \in Nat, round[n] # None, Covered(n, d),
           UNCHANGED <<nextLease, deployment, store, synced>>, RecordMoves(n),
           Shared => /\ round[n].step \in {"prove", "finalize"}
                     /\ DurableChain(control') = round[n].required
    PROVE  IInv'
  <1>1. /\ TypeOK /\ ProcOK(n) /\ RoundOK(n) /\ proc \in [Owners -> Procs] /\ proc[n] \in Procs
        /\ round \in [Owners -> {None} \cup Rounds] /\ round[n] \in Rounds
        /\ req \in [Requests -> [at : {None} \cup Owners, stage : Stages]]
        /\ DurableChain(control) \in Chains /\ nextLease \in Nat
    BY NodeFacts
  <1>2. /\ proc[n].pc \in PublishingPcs /\ proc[n].pc \in LeasedPcs /\ store[n] \in Chains
        /\ \A r \in round[n].covers :
                /\ r \in Requests /\ req[r].at = n /\ req[r].stage \in {"arrived", "waiting"}
                /\ proc[n].pc \in {"serving", "releasing"}
    BY RoundFacts
  <1>3. /\ round' \in [Owners -> {None} \cup Rounds] /\ round'[n] = None
        /\ \A m \in Owners \ {n} : round'[m] = round[m]
    <2>1. round' = [round EXCEPT ![n] = None]
      BY DEF Covered
    <2> QED BY <1>1, <2>1, RoundSet
  <1>4. /\ proc' \in [Owners -> Procs] /\ proc'[n].open = proc[n].open
        /\ proc'[n].lease = proc[n].lease
        /\ proc'[n].pc = "mark" => proc'[n].record \in [durable : Nat]
        /\ proc'[n].pc = CASE proc[n].pc = "first" -> "attach"
                           [] proc[n].pc = "second" -> "mark"
                           [] proc[n].pc = "releasing" /\ round[n].covers = {} -> "release"
                           [] OTHER -> proc[n].pc
        /\ \A m \in Owners \ {n} : proc'[m] = proc[m]
    <2>1. CASE proc[n].pc = "first"
      <3>1. proc' = [proc EXCEPT ![n].pc = "attach"]
        BY <2>1 DEF Covered
      <3>2. "attach" \in {"down", "opened"} \cup LeasedPcs
        BY DEF LeasedPcs, ReconciledPcs, ActivePcs, AnnouncedPcs
      <3>3. /\ proc' \in [Owners -> Procs] /\ proc'[n].pc = "attach"
            /\ proc'[n].open = proc[n].open /\ proc'[n].lease = proc[n].lease
            /\ \A m \in Owners \ {n} : proc'[m] = proc[m]
        BY <1>1, <3>1, <3>2, ProcPc
      <3> QED BY <2>1, <3>3
    <2>2. CASE proc[n].pc = "second"
      <3> PICK w : w = [proc[n] EXCEPT !.pc = "mark"]
        OBVIOUS
      <3>1. w \in Procs /\ w.pc = "mark" /\ w.open = proc[n].open /\ w.lease = proc[n].lease
        BY <1>1 DEF Procs, LeasedPcs, ReconciledPcs, ActivePcs, AnnouncedPcs
      <3> PICK v : v = [durable |-> d]
        OBVIOUS
      <3>2. v \in [durable : Nat] /\ v \in Seen
        BY DEF Seen
      <3> PICK x : x = [w EXCEPT !.record = v]
        OBVIOUS
      <3>3. /\ x \in Procs /\ x.pc = "mark" /\ x.open = proc[n].open /\ x.lease = proc[n].lease
            /\ x.record = v
        BY <3>1, <3>2 DEF Procs
      <3>4. proc' = [proc EXCEPT ![n] = x]
        BY <2>2 DEF Covered
      <3>5. /\ proc' \in [Owners -> Procs] /\ proc'[n] = x
            /\ \A m \in Owners \ {n} : proc'[m] = proc[m]
        BY <1>1, <3>3, <3>4, ProcSet
      <3> QED BY <2>2, <3>2, <3>3, <3>5
    <2>3. CASE proc[n].pc = "releasing" /\ round[n].covers = {}
      <3>1. proc' = [proc EXCEPT ![n].pc = "release"]
        BY <2>3 DEF Covered
      <3>2. "release" \in {"down", "opened"} \cup LeasedPcs
        BY DEF LeasedPcs, ReconciledPcs, ActivePcs, AnnouncedPcs
      <3>3. /\ proc' \in [Owners -> Procs] /\ proc'[n].pc = "release"
            /\ proc'[n].open = proc[n].open /\ proc'[n].lease = proc[n].lease
            /\ \A m \in Owners \ {n} : proc'[m] = proc[m]
        BY <1>1, <3>1, <3>2, ProcPc
      <3> QED BY <2>3, <3>3
    <2>4. CASE /\ proc[n].pc \in {"serving", "releasing"}
               /\ proc[n].pc = "releasing" => round[n].covers # {}
      <3>1. proc' = proc
        BY <2>4 DEF Covered
      <3> QED BY <1>1, <2>4, <3>1
    <2> QED BY <1>2, <2>1, <2>2, <2>3, <2>4 DEF PublishingPcs
  <1>5. \A r \in Requests :
          /\ r \notin round[n].covers => req'[r] = req[r]
          /\ r \in round[n].covers =>
               /\ req'[r].at = n
               /\ req'[r].stage = IF req[r].stage = "arrived" THEN "admitted" ELSE "acked"
    BY DEF Covered
  <1>6. req' \in [Requests -> [at : {None} \cup Owners, stage : Stages]]
    <2>1. req' = [r \in Requests |->
                    IF r \notin round[n].covers THEN req[r]
                    ELSE [at |-> n, stage |-> IF req[r].stage = "arrived"
                                              THEN "admitted" ELSE "acked"]]
      BY DEF Covered
    <2>2. \A s \in {"admitted", "acked"} :
            [at |-> n, stage |-> s] \in [at : {None} \cup Owners, stage : Stages]
      BY DEF Stages
    <2>3. ASSUME NEW r \in Requests
          PROVE  (IF r \notin round[n].covers THEN req[r]
                  ELSE [at |-> n, stage |-> IF req[r].stage = "arrived"
                                            THEN "admitted" ELSE "acked"])
                    \in [at : {None} \cup Owners, stage : Stages]
      BY <1>1, <2>2
    <2> QED BY <2>1, <2>3
  <1>7. TypeOK'
    BY <1>1, <1>3, <1>4, <1>6 DEF TypeOK, RecordMoves
  <1>8. DurableChain(control') \in Chains
    BY DurableType DEF RecordMoves
  <1>9. Rows(DurableChain(control)) \subseteq Rows(DurableChain(control'))
    BY <1>1, <1>8, PrefixRows DEF RecordMoves
  <1>10. OnlyNode(n)
    <2>1. \A m \in Owners \ {n} : proc[m].pc \in LeasedPcs => ~NamesLease(control', proc[m].lease)
      BY <1>2, OwnRecord DEF RecordMoves
    <2>2. \A r \in Requests :
            \/ req'[r] = req[r]
            \/ (req[r].stage = "new" \/ req[r].at = n) /\ req'[r].at = n
      BY <1>2, <1>5
    <2> QED BY <1>1, <1>3, <1>4, <1>9, <2>1, <2>2 DEF OnlyNode
  <1>11. Shared => /\ IsPrefix(DurableChain(control'), store[n])
                   /\ LocalEpoch(DurableChain(control')) = proc[n].lease.epoch
                   /\ \A r \in round[n].covers :
                        req[r].stage = "waiting" => r \in Rows(DurableChain(control'))
    BY <1>1 DEF RoundOK
  <1>12. ProcOK(n)'
    <2>1. /\ proc'[n].pc # "down" /\ proc'[n].pc \in LeasedPcs /\ proc[n].pc # "down"
          /\ proc[n].pc \in ActivePcs
      BY <1>2, <1>4 DEF PublishingPcs, LeasedPcs, ReconciledPcs, ActivePcs, AnnouncedPcs
    <2>2. /\ n \in deployment.nodes /\ (proc[n].open = "RecoverLog" => Shared)
          /\ proc[n].lease \in Leases /\ proc[n].lease.owner = n
          /\ 0 < proc[n].lease.id /\ proc[n].lease.id <= nextLease
          /\ LocalEpoch(store[n]) = proc[n].lease.epoch
      BY <1>1, <1>2, <2>1 DEF ProcOK
    <2> QED BY <1>2, <1>4, <1>11, <2>1, <2>2 DEF ProcOK, Shared
  <1>13. RoundOK(n)'
    BY <1>3 DEF RoundOK
  <1>14. ASSUME NEW r \in Requests, (req[r].at = n)' PROVE ReqOK(r)'
    <2>0. Shared' = Shared /\ ReqOK(r)
      BY NodeFacts DEF Shared
    <2>1. CASE r \notin round[n].covers
      <3>1. req'[r] = req[r] /\ req[r].at = n
        BY <1>5, <1>14, <2>1
      <3>2. proc[n].pc \in {"serving", "releasing"} =>
              proc'[n].pc \in {"serving", "releasing"} \/ InFlight(n) = {}
        BY <1>1, <1>4 DEF RoundOK
      <3>3. Extends(n)
        BY StoreSame
      <3> QED BY <1>9, <3>1, <3>2, <3>3, ReqSame
    <2>2. CASE r \in round[n].covers
      <3>1. /\ req[r].at = n /\ req[r].stage \in {"arrived", "waiting"}
            /\ proc[n].pc \in {"serving", "releasing"}
            /\ req'[r].at = n
            /\ req'[r].stage = IF req[r].stage = "arrived" THEN "admitted" ELSE "acked"
        BY <1>2, <1>5, <2>2
      <3>2. proc'[n].pc \in {"serving", "releasing"}
        BY <1>4, <2>2, <3>1
      <3>3. CASE req[r].stage = "arrived"
        BY <3>1, <3>2, <3>3 DEF ReqOK
      <3>4. CASE req[r].stage = "waiting"
        <4>1. req'[r].stage = "acked"
          BY <3>1, <3>4
        <4>2. Shared => r \in Rows(DurableChain(control'))
          BY <1>11, <2>2, <3>4
        <4>3. ~Shared => /\ n \in deployment.nodes /\ store[n] \in Chains
                         /\ \E i \in 1..Len(store[n]) :
                              i <= synced[n] /\ store[n][i].request = r
          BY <2>0, <3>1, <3>4 DEF ReqOK
        <4> QED BY <2>0, <3>1, <4>1, <4>2, <4>3 DEF ReqOK
      <3> QED BY <3>1, <3>3, <3>4
    <2> QED BY <2>1, <2>2
  <1>15. RecordOK(control)' /\ (Shared => EpochsOK(control))'
    BY DEF RecordMoves
  <1> QED BY <1>7, <1>10, <1>12, <1>13, <1>14, <1>15, NodeStep DEF NodeOK

LEMMA AlreadyPublishedStep ==
    ASSUME IInv, NEW n \in Owners, AlreadyPublished(n) \/ ConfirmLocalOnly(n),
           deployment' = deployment
    PROVE  IInv'
  <1>1. /\ round[n] # None /\ NamesLease(control, proc[n].lease)
        /\ Covered(n, control.durable)
        /\ UNCHANGED <<control, nextLease, store, synced>>
    BY DEF AlreadyPublished, ConfirmLocalOnly, Holds, controlVars
  <1>2. /\ control \in Records /\ DurableChain(control) \in Chains /\ RecordOK(control)
        /\ control.durable \in Nat
    BY NodeFacts DEF Records
  <1>3. RecordMoves(n)
    BY <1>1, <1>2, PrefixRefl DEF RecordMoves, IInv, Shared
  <1>4. Shared => /\ round[n].step \in {"prove", "finalize"}
                  /\ DurableChain(control') = round[n].required
    <2>1. CASE AlreadyPublished(n)
      BY <2>1, <1>1 DEF AlreadyPublished, FrontierOk
    <2>2. CASE ConfirmLocalOnly(n)
      <3>1. round[n].step = "confirm" /\ RoundOK(n)
        BY <2>2, NodeFacts DEF ConfirmLocalOnly
      <3> QED BY <1>1, <3>1 DEF RoundOK
    <2> QED BY <2>1, <2>2
  <1> QED BY <1>1, <1>2, <1>3, <1>4, CoveredStep

(* A step of a round that also moves the record.                           *)
LEMMA RecordRoundStep ==
    ASSUME IInv, NEW n \in Owners, round[n] # None, NEW w \in Rounds,
           round' = [round EXCEPT ![n] = w], RecordMoves(n),
           UNCHANGED <<nextLease, deployment, store, synced, proc, req>>, RoundOK(n)',
           Shared => /\ IsPrefix(DurableChain(control'), store[n])
                     /\ proc[n].pc \in AnnouncedPcs =>
                          LocalEpoch(DurableChain(control')) = proc[n].lease.epoch
    PROVE  IInv'
  <1>1. /\ TypeOK /\ ProcOK(n) /\ round \in [Owners -> {None} \cup Rounds]
        /\ DurableChain(control) \in Chains /\ nextLease \in Nat
        /\ proc[n].pc \in LeasedPcs
    BY NodeFacts, RoundFacts
  <1>2. /\ round' \in [Owners -> {None} \cup Rounds] /\ round'[n] = w
        /\ \A m \in Owners \ {n} : round'[m] = round[m]
    BY <1>1, RoundSet
  <1>3. TypeOK'
    BY <1>1, <1>2 DEF TypeOK, RecordMoves
  <1>4. Rows(DurableChain(control)) \subseteq Rows(DurableChain(control'))
    <2>1. DurableChain(control') \in Chains
      BY DurableType DEF RecordMoves
    <2> QED BY <1>1, <2>1, PrefixRows DEF RecordMoves
  <1>5. OnlyNode(n)
    <2>1. \A m \in Owners \ {n} : proc[m].pc \in LeasedPcs => ~NamesLease(control', proc[m].lease)
      BY <1>1, OwnRecord DEF RecordMoves
    <2> QED BY <1>1, <1>2, <1>4, <2>1 DEF OnlyNode
  <1>6. ProcOK(n)'
    BY <1>1 DEF ProcOK, Shared
  <1>7. \A r \in Requests : (req[r].at = n)' => ReqOK(r)'
    BY <1>4, StoreSame, ReqsSame
  <1>8. RecordOK(control)' /\ (Shared => EpochsOK(control))'
    BY DEF RecordMoves
  <1> QED BY <1>3, <1>5, <1>6, <1>7, <1>8, NodeStep DEF NodeOK

(* An upload is prepared: the pending segment follows the durable chain.   *)
LEMMA PrepareUploadStep ==
    ASSUME IInv, NEW n \in Owners, PrepareUpload(n), deployment' = deployment
    PROVE  IInv'
  <1> PICK next : next = control'
    OBVIOUS
  <1>1. /\ round[n] # None /\ round[n].step = "prepare" /\ NamesLease(control, proc[n].lease)
        /\ IntentAccepted(control, round[n].intent)
        /\ next = [control EXCEPT !.pending = round[n].intent]
        /\ round' = [round EXCEPT ![n].step = "upload"]
        /\ UNCHANGED <<nextLease, store, synced, proc, req>>
    BY DEF PrepareUpload, PrepareRecoveryUpload, Holds, PutRecord
  <1>2. /\ round[n] \in Rounds /\ RoundOK(n) /\ ProcOK(n) /\ Shared
        /\ round \in [Owners -> {None} \cup Rounds] /\ RecordOK(control) /\ control \in Records
        /\ DurableChain(control) \in Chains /\ proc[n].lease.epoch \in Nat
        /\ proc[n].pc \in LeasedPcs /\ proc[n].pc \in ReconciledPcs
    BY <1>1, RoundFacts, NodeFacts
  <1> PICK intent \in Intents : intent = round[n].intent
    BY <1>1, <1>2 DEF RoundOK
  <1>3. /\ IntentOK(intent) /\ IsPrefix(intent.digest, store[n]) /\ intent.digest \in Chains
        /\ LocalEpoch(intent.digest) \in {proc[n].lease.epoch, proc[n].lease.epoch - 1}
    BY <1>1, <1>2 DEF RoundOK, Intents
  <1>4. /\ next \in Records /\ next.owner = control.owner /\ next.epoch = control.epoch
        /\ next.state = control.state /\ next.log = control.log
        /\ next.durable = control.durable /\ next.pending = intent
    BY <1>1, <1>2 DEF Records
  <1>5. intent.prev = DurableChain(control) /\ DurableChain(next) = DurableChain(control)
    <2>1. DurableChain(next) = DurableChain(control)
      BY <1>4 DEF DurableChain
    <2> QED BY <1>1, <1>2, <1>3, <2>1, TailIsDurable
  <1>6. RecordOK(next)
    BY <1>2, <1>3, <1>4, <1>5 DEF RecordOK
  <1>7. EpochsOK(next)
    <2>1. EpochsOK(control) /\ control.epoch = proc[n].lease.epoch
      BY <1>1, <1>2 DEF IInv, NamesLease
    <2>2. LocalEpoch(DurableChain(control)) \in Nat /\ LocalEpoch(intent.digest) \in Nat
      BY <1>2, <1>3, ChainType
    <2>3. LocalEpoch(DurableChain(control)) <= LocalEpoch(intent.digest)
      BY <1>2, <1>3, <1>5, PrefixRows DEF IntentOK
    <2>4. LocalEpoch(intent.digest) \in Ends(control)
      BY <1>2, <1>3, <2>1, <2>2, <2>3 DEF EpochsOK, Ends
    <2> QED BY <1>4, <1>5, <2>1, <2>4 DEF EpochsOK, Ends
  <1>8. RecordMoves(n)
    <2>1. RecordOK(control') /\ EpochsOK(control')
      BY <1>6, <1>7
    <2> QED BY <1>1, <1>2, <1>4, <1>5, <2>1, PrefixRefl DEF RecordMoves
  <1> PICK w : w = [round[n] EXCEPT !.step = "upload"]
    OBVIOUS
  <1>9. /\ w \in Rounds /\ w.step = "upload" /\ w.covers = round[n].covers
        /\ w.required = round[n].required /\ w.intent = round[n].intent
    BY <1>2 DEF Rounds
  <1>10. round' = [round EXCEPT ![n] = w]
    BY <1>1
  <1>11. round'[n] = w /\ InFlight(n)' = InFlight(n)
    BY <1>1, <1>2, <1>10 DEF InFlight
  <1>12. RoundOK(n)'
    BY <1>1, <1>2, <1>9, <1>11 DEF RoundOK, Shared
  <1>13. /\ IsPrefix(DurableChain(control'), store[n])
         /\ proc[n].pc \in AnnouncedPcs =>
              LocalEpoch(DurableChain(control')) = proc[n].lease.epoch
    BY <1>1, <1>2, <1>5 DEF ProcOK
  <1> QED BY <1>1, <1>8, <1>9, <1>10, <1>12, <1>13, RecordRoundStep

(* The record after its pending upload is finalised.                       *)
LEMMA FinalizedType ==
    ASSUME NEW record \in Records, NEW intent \in Intents, NEW next,
           next = FinalizedRecord(record, PublicationAfterIntent(record, intent))
    PROVE  /\ next \in Records /\ next.owner = record.owner /\ next.epoch = record.epoch
           /\ next.state = record.state /\ next.pending = None
           /\ next.log # <<>> /\ LogLsn(next.log) = intent.last
           /\ next.durable = intent.last /\ DurableChain(next) = intent.digest
  <1> PICK segment : segment = SegmentOf(intent)
    OBVIOUS
  <1>1. segment \in Segments /\ segment.last = intent.last /\ segment.digest = intent.digest
    BY DEF SegmentOf, Segments, Intents
  <1>2. record.log \in Seq(Segments) /\ record.checkpoint = None /\ intent.last \in Nat
    BY DEF Records, Intents
  <1> PICK log : log = Append(record.log, segment)
    OBVIOUS
  <1>3. log \in Seq(Segments) /\ log # <<>> /\ log[Len(log)] = segment
    BY <1>1, <1>2
  <1> PICK pub : pub = PublicationAfterIntent(record, intent)
    OBVIOUS
  <1>4. pub.checkpoint = None /\ pub.log = log /\ pub.durable = intent.last
    BY DEF PublicationAfterIntent
  <1> PICK r1 : r1 = Published(record, pub)
    OBVIOUS
  <1>5. r1 = [record EXCEPT !.checkpoint = None, !.log = log, !.durable = intent.last]
    BY <1>2, <1>3, <1>4 DEF Published
  <1>6. /\ r1 \in Records /\ r1.owner = record.owner /\ r1.epoch = record.epoch
        /\ r1.state = record.state /\ r1.log = log /\ r1.durable = intent.last
    <2> PICK x : x = [record EXCEPT !.checkpoint = None]
      OBVIOUS
    <2>1. /\ x \in Records /\ x.owner = record.owner /\ x.epoch = record.epoch
          /\ x.state = record.state
      BY DEF Records
    <2> PICK y : y = [x EXCEPT !.log = log]
      OBVIOUS
    <2>2. /\ y \in Records /\ y.owner = record.owner /\ y.epoch = record.epoch
          /\ y.state = record.state /\ y.log = log
      BY <1>3, <2>1 DEF Records
    <2>3. r1 = [y EXCEPT !.durable = intent.last]
      BY <1>5
    <2> QED BY <1>2, <2>2, <2>3, ZenonT(60) DEF Records
  <1>7. next = [r1 EXCEPT !.pending = None]
    BY DEF FinalizedRecord
  <1>8. /\ next \in Records /\ next.owner = record.owner /\ next.epoch = record.epoch
        /\ next.state = record.state /\ next.log = log /\ next.durable = intent.last
        /\ next.pending = None
    BY <1>6, <1>7 DEF Records
  <1> QED BY <1>1, <1>3, <1>8 DEF LogLsn, DurableChain

(* An upload is finalised: the durable chain grows by rows of the store.   *)
LEMMA FinalizeUploadStep ==
    ASSUME IInv, NEW n \in Owners, FinalizeUpload(n), deployment' = deployment
    PROVE  /\ IInv'
           /\ IsPrefix(DurableChain(control), DurableChain(control'))
  <1> PICK next : next = control'
    OBVIOUS
  <1> PICK intent : intent = round[n].intent
    OBVIOUS
  <1>1. /\ round[n] # None /\ round[n].step = "finalize" /\ NamesLease(control, proc[n].lease)
        /\ \/ next = control
           \/ /\ control.pending # None /\ control.pending = intent
              /\ next = FinalizedRecord(control, PublicationAfterIntent(control, intent))
        /\ UNCHANGED <<nextLease, store, synced>>
    BY DEF FinalizeUpload, FinalizeRecoveryUpload, Holds
  <1>2. /\ round[n] \in Rounds /\ RoundOK(n) /\ ProcOK(n) /\ Shared
        /\ round \in [Owners -> {None} \cup Rounds] /\ RecordOK(control) /\ control \in Records
        /\ DurableChain(control) \in Chains /\ proc[n].lease.epoch \in Nat
        /\ proc[n].pc \in LeasedPcs /\ proc[n].pc \in ReconciledPcs /\ store[n] \in Chains
    BY <1>1, RoundFacts, NodeFacts
  <1>3. /\ IntentOK(intent) /\ IsPrefix(intent.digest, store[n]) /\ intent.digest \in Chains
        /\ LocalEpoch(intent.digest) \in {proc[n].lease.epoch, proc[n].lease.epoch - 1}
        /\ intent \in Intents
    BY <1>1, <1>2 DEF RoundOK, Intents
  <1>4. EpochsOK(control) /\ control.epoch = proc[n].lease.epoch
    BY <1>1, <1>2 DEF IInv, NamesLease
  <1>5. /\ next \in Records /\ next.owner = control.owner
        /\ IsPrefix(DurableChain(control), DurableChain(next))
        /\ RecordOK(next) /\ EpochsOK(next)
        /\ IsPrefix(DurableChain(next), store[n])
        /\ proc[n].pc \in AnnouncedPcs => LocalEpoch(DurableChain(next)) = proc[n].lease.epoch
    <2>0. /\ IsPrefix(DurableChain(control), store[n])
          /\ proc[n].pc \in AnnouncedPcs =>
               LocalEpoch(DurableChain(control)) = proc[n].lease.epoch
      BY <1>1, <1>2 DEF ProcOK
    <2>1. CASE next = control
      BY <1>2, <1>4, <2>0, <2>1, PrefixRefl
    <2>2. CASE /\ control.pending # None /\ control.pending = intent
               /\ next = FinalizedRecord(control, PublicationAfterIntent(control, intent))
      <3>1. /\ next \in Records /\ next.owner = control.owner /\ next.epoch = control.epoch
            /\ next.state = control.state /\ next.pending = None
            /\ next.log # <<>> /\ LogLsn(next.log) = intent.last
            /\ next.durable = intent.last /\ DurableChain(next) = intent.digest
        BY <1>2, <1>3, <2>2, FinalizedType
      <3>2. IsPrefix(DurableChain(control), intent.digest)
        BY <1>2, <2>2 DEF RecordOK, IntentOK
      <3>3. RecordOK(next)
        BY <1>3, <3>1 DEF RecordOK, IntentOK
      <3>4. EpochsOK(next)
        BY <1>4, <2>2, <3>1 DEF EpochsOK, Ends
      <3>5. LocalEpoch(DurableChain(control)) <= LocalEpoch(intent.digest)
        BY <1>2, <1>3, <3>2, PrefixRows
      <3>6. proc[n].pc \in AnnouncedPcs => LocalEpoch(intent.digest) = proc[n].lease.epoch
        BY <1>2, <1>3, <2>0, <3>5
      <3> QED BY <1>3, <3>1, <3>2, <3>3, <3>4, <3>6
    <2> QED BY <1>1, <2>1, <2>2
  <1>6. RecordMoves(n)
    <2>1. RecordOK(control') /\ EpochsOK(control')
      BY <1>5
    <2> QED BY <1>1, <1>5, <2>1 DEF RecordMoves
  <1>7. CASE next.durable >= Len(round[n].required)
    <2>1. FrontierOk(next, round[n].required) /\ Covered(n, next.durable)
      BY <1>7 DEF FinalizeUpload
    <2>2. round[n].required \in Chains
      BY <1>1, <1>2 DEF RoundOK
    <2>3. Len(round[n].required) \in Nat /\ next.durable \in Nat
      BY <1>5, <2>2, ChainType DEF Records
    <2>4. DurableChain(next) = round[n].required
      BY <1>7, <2>1, <2>3 DEF FrontierOk
    <2>5. IInv'
      BY <1>1, <1>6, <2>1, <2>3, <2>4, CoveredStep
    <2> QED BY <1>5, <2>5
  <1>8. CASE ~(next.durable >= Len(round[n].required))
    <2>1. /\ round' = [round EXCEPT ![n].step = "prove", ![n].intent = None]
          /\ UNCHANGED <<proc, req>>
      BY <1>8 DEF FinalizeUpload
    <2> PICK v : v = [round[n] EXCEPT !.step = "prove"]
      OBVIOUS
    <2>2. /\ v \in Rounds /\ v.step = "prove" /\ v.covers = round[n].covers
          /\ v.required = round[n].required
      BY <1>2 DEF Rounds
    <2> PICK w : w = [v EXCEPT !.intent = None]
      OBVIOUS
    <2>3. /\ w \in Rounds /\ w.step = "prove" /\ w.covers = round[n].covers
          /\ w.required = round[n].required
      BY <2>2 DEF Rounds
    <2>4. round' = [round EXCEPT ![n] = w]
      BY <2>1
    <2>5. round'[n] = w /\ InFlight(n)' = InFlight(n)
      BY <1>2, <2>1, <2>4 DEF InFlight
    <2>6. RoundOK(n)'
      BY <1>1, <1>2, <2>1, <2>3, <2>5 DEF RoundOK, Shared
    <2>7. IInv'
      BY <1>1, <1>5, <1>6, <2>1, <2>3, <2>4, <2>6, RecordRoundStep
    <2> QED BY <1>5, <2>7
  <1> QED BY <1>7, <1>8

-----------------------------------------------------------------------------
(* The inductive invariant.                                                *)

LEMMA BootstrapInv ==
    ASSUME IInv, NEW n \in Owners, Bootstrap(n), deployment' = deployment
    PROVE  IInv'
  BY BootStep, AdmitStep, ReconcileStep, CleanupPendingStep, AbortPendingStep,
     ActivateStep, AttachStep, AnnounceServingStep, AbandonStep DEF Bootstrap

LEMMA PublishInv ==
    ASSUME IInv, NEW n \in Owners, Publish(n), deployment' = deployment
    PROVE  IInv'
  BY StartRoundStep, SampleFrontierStep, AlreadyPublishedStep, PlanSegmentStep,
     PrepareUploadStep, UploadStep, FinalizeUploadStep, RoundFailsStep DEF Publish

LEMMA ServeInv ==
    ASSUME IInv, NEW n \in Owners, Serve(n), deployment' = deployment
    PROVE  IInv'
  BY ArriveStep, ExecuteStep, LocalAckStep DEF Serve

LEMMA EndInv ==
    ASSUME IInv, NEW n \in Owners, End(n), deployment' = deployment
    PROVE  IInv'
  BY BeginReleaseStep, ReleaseStep, StopStep, LoseDiskStep DEF End

LEMMA NextInv == IInv /\ [Next]_vars => IInv'
  <1>1. ASSUME IInv, Next PROVE IInv'
    BY <1>1, BootstrapInv, PublishInv, ServeInv, EndInv, ExpireSessionStep DEF Next
  <1>2. ASSUME IInv, UNCHANGED vars PROVE IInv'
    BY <1>2, SMTT(60) DEF vars, controlVars, IInv, TypeOK, ProcOK, RoundOK, ReqOK, Shared, InFlight
  <1> QED BY <1>1, <1>2

(* The inductive invariant holds in every reachable state, for every set   *)
(* of nodes, requests and deployments.                                     *)
THEOREM Invariant == Spec => []IInv
  BY InitInv, NextInv, PTL DEF Spec

-----------------------------------------------------------------------------
(* What it implies.                                                        *)

(* In shared mode every write that was acknowledged is in the durable log  *)
(* of the control record: publish_current answers only for rows that a     *)
(* finalised upload covers.                                                *)
THEOREM AnsweredIsDurable == Spec => []AckedDurable
  <1>1. IInv => AckedDurable
    BY DEF IInv, ReqOK, AckedDurable, Acked
  <1> QED BY <1>1, Invariant, PTL

(* Every acknowledged write is in the store of whoever holds the session   *)
(* and answers requests, whatever crashed, expired or was retried between  *)
(* the acknowledgement and the takeover.                                   *)
THEOREM AnsweredSurvives == Spec => []AckedSurvive
  <1>1. ASSUME IInv PROVE AckedSurvive
    <2> SUFFICES ASSUME NEW n \in Owners, IsServing(n),
                        NEW r \in Requests, req[r].stage = "acked"
                 PROVE  r \in Rows(store[n])
      BY DEF AckedSurvive, Acked
    <2>1. /\ proc[n].pc \in {"serving", "releasing"} /\ NamesLease(control, proc[n].lease)
          /\ ProcOK(n) /\ ReqOK(r) /\ TypeOK /\ DurableChain(control) \in Chains
      BY <1>1, NodeFacts DEF IsServing, Holds, IInv
    <2>2. n \in deployment.nodes /\ store[n] \in Chains
      BY <2>1 DEF ProcOK
    <2>3. CASE Shared
      <3>1. r \in Rows(DurableChain(control))
        BY <2>1, <2>3 DEF ReqOK
      <3>2. IsPrefix(DurableChain(control), store[n])
        BY <2>1, <2>3 DEF ProcOK, LeasedPcs, ReconciledPcs, ActivePcs, AnnouncedPcs
      <3> QED BY <2>1, <2>2, <3>1, <3>2, PrefixRows
    <2>4. CASE ~Shared
      <3>1. /\ req[r].at \in deployment.nodes
            /\ \E i \in 1..Len(store[req[r].at]) : store[req[r].at][i].request = r
        BY <2>1, <2>4 DEF ReqOK
      <3>2. deployment \in Deployments /\ deployment.mode = "LocalOnly"
        BY <2>1, <2>4, DeploymentAssumption DEF TypeOK, Shared
      <3>3. req[r].at = n
        BY <2>2, <3>1, <3>2, DeploymentAssumption
      <3> QED BY <3>1, <3>3 DEF Rows
    <2> QED BY <2>3, <2>4
  <1> QED BY <1>1, Invariant, PTL

(* Recovery attempts that fail and are resumed leave no epoch gap between  *)
(* the durable log and the record, so that prepare_acquiring_meta finds an *)
(* admissible epoch in what a successor installs.                          *)
THEOREM EpochsHaveNoGap == Spec => []NoEpochGap
  <1>1. IInv => NoEpochGap
    BY DEF IInv, EpochsOK, Ends, NoEpochGap
  <1> QED BY <1>1, Invariant, PTL

(* Only a finalised upload moves the durable chain.                        *)
LEMMA LogKept ==
    ASSUME IInv, NEW n \in Owners,
           \/ Admit(n) \/ AbortPending(n) \/ AnnounceServing(n) \/ PrepareUpload(n)
           \/ Release(n)
    PROVE  DurableChain(control') = DurableChain(control)
  <1>1. control \in Records /\ nextLease \in Nat
    BY NodeFacts
  <1> PICK next : next = control'
    OBVIOUS
  <1> SUFFICES next.log = control.log
    BY DEF DurableChain
  <1>2. CASE Admit(n)
    <2>1. next \in {Acquired(control, n, nextLease + 1), Reacquired(control, n, nextLease + 1)}
      BY <1>2 DEF Admit, AcquireOwner, ReacquireRecovery, AcquireSuccessor, InstallOwner
    <2> QED BY <1>1, <2>1, AcquiredRecord
  <1>3. CASE AbortPending(n)
    <2>1. next = control \/ next = [control EXCEPT !.pending = None]
      BY <1>3 DEF AbortPending, AbortRecoveryUpload
    <2> QED BY <1>1, <2>1 DEF Records
  <1>4. CASE AnnounceServing(n)
    <2>1. next = [control EXCEPT !.state = "Serving"]
      BY <1>4 DEF AnnounceServing, MarkServing, PutRecord, ServingRecord, Published
    <2> QED BY <1>1, <2>1 DEF Records
  <1>5. CASE PrepareUpload(n)
    <2>1. next = [control EXCEPT !.pending = round[n].intent]
      BY <1>5 DEF PrepareUpload, PrepareRecoveryUpload, PutRecord
    <2> QED BY <1>1, <2>1 DEF Records
  <1>6. CASE Release(n)
    <2>1. next = ReleasedRecord(control)
      BY <1>6 DEF Release, ReleaseOwner, PutRecord
    <2> QED BY <1>1, <2>1, ReleasedType
  <1> QED BY <1>2, <1>3, <1>4, <1>5, <1>6

(* The durable log only grows, whichever owner writes it: no finalisation, *)
(* takeover, abort or release drops or replaces a row of it.               *)
THEOREM LogOnlyGrows == Spec => DurableLogGrows
  <1>1. ASSUME IInv, Next
        PROVE  IsPrefix(DurableChain(control), DurableChain(control'))
    <2>1. ASSUME DurableChain(control') = DurableChain(control)
          PROVE  IsPrefix(DurableChain(control), DurableChain(control'))
      BY <1>1, <2>1, DurableType, PrefixRefl DEF IInv, TypeOK
    <2>2. ASSUME control' = control
          PROVE  IsPrefix(DurableChain(control), DurableChain(control'))
      BY <2>1, <2>2 DEF DurableChain
    <2>3. deployment' = deployment
      BY <1>1 DEF Next
    <2>4. CASE ExpireSession
      BY <2>2, <2>4 DEF ExpireSession, SessionEnds
    <2>5. ASSUME NEW n \in Owners, Bootstrap(n)
          PROVE  IsPrefix(DurableChain(control), DurableChain(control'))
      <3>1. \/ Admit(n) \/ AbortPending(n) \/ AnnounceServing(n)
            \/ control' = control
        BY <2>5 DEF Bootstrap, Boot, Reconcile, CleanupPending, Activate, Attach, Abandon,
                    SuspendRecovery, controlVars
      <3> QED BY <1>1, <2>1, <2>2, <3>1, LogKept
    <2>6. ASSUME NEW n \in Owners, Publish(n)
          PROVE  IsPrefix(DurableChain(control), DurableChain(control'))
      <3>1. PrepareUpload(n) \/ FinalizeUpload(n) \/ control' = control
        BY <2>6 DEF Publish, StartRound, SampleFrontier, ConfirmLocalOnly, AlreadyPublished,
                    PlanSegment, Upload, RoundFails, controlVars
      <3> QED BY <1>1, <2>1, <2>2, <2>3, <3>1, LogKept, FinalizeUploadStep
    <2>7. ASSUME NEW n \in Owners, Serve(n)
          PROVE  IsPrefix(DurableChain(control), DurableChain(control'))
      BY <2>2, <2>7 DEF Serve, Arrive, Execute, LocalAck, controlVars
    <2>8. ASSUME NEW n \in Owners, End(n)
          PROVE  IsPrefix(DurableChain(control), DurableChain(control'))
      <3>1. Release(n) \/ control' = control
        BY <2>8 DEF End, BeginRelease, Stop, LoseDisk, controlVars
      <3> QED BY <1>1, <2>1, <2>2, <3>1, LogKept
    <2> QED BY <1>1, <2>4, <2>5, <2>6, <2>7, <2>8 DEF Next
  <1>2. IInv /\ [Next]_vars =>
          [IsPrefix(DurableChain(control), DurableChain(control'))]_vars
    BY <1>1
  <1> QED BY <1>2, Invariant, PTL DEF Spec, DurableLogGrows
=============================================================================
