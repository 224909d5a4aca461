-------------------------- MODULE EtcdControlProofs --------------------------
(***************************************************************************)
(* Proofs about EtcdControl, for every number of nodes, leases, lost       *)
(* replies and writes: a caller that was refused is never installed, every *)
(* positive answer is true, and every etcd request is a step of the atomic *)
(* store of module ControlStore or none.                                   *)
(***************************************************************************)
EXTENDS EtcdControl, FiniteSetTheorems, TLAPS

(* What calls and keys hold.                                               *)
Leases == [owner : Owners, epoch : Nat, id : Nat \ {0}]
Records == Control!Records
Points == {"fetch", "grant", "session", "transact", "visible",
           "visibleSession", "classify", "classifySession", "sessionless",
           "sessionlessAgain", "keepalive", "ok", "revoke"}
Calls == [op : Acquisitions \cup Mutations, pc : Points,
          lease : {None} \cup Leases, seen : {None} \cup Records, rev : Nat,
          root : {None} \cup Roots, place : {None} \cup Control!Placements,
          next : {None} \cup Records, met : BOOLEAN]

TypeInv ==
    /\ record \in Records
    /\ revision \in Nat
    /\ session \in {None} \cup Leases
    /\ placement \in [Roots -> {None} \cup Control!Placements]
    /\ grants \in 0..MaxGrants
    /\ call \in [Owners -> {None} \cup Calls]
    /\ late \subseteq Calls
    /\ installs \in Seq(Leases)

Installed(lease) == \E i \in 1..Len(installs) : installs[i] = lease

(* The history of installations names every lease once, and the record,    *)
(* the session and the callers only know leases that are in it.            *)
LedgerInv ==
    /\ \A i \in 1..Len(installs) : installs[i].id <= grants
    /\ \A i, j \in 1..Len(installs) : installs[i].id = installs[j].id => i = j
    /\ ValidRecord(record)
    /\ record.lease # 0 =>
         \E i \in 1..Len(installs) : installs[i].id = record.lease
    /\ session # None => Installed(session) /\ NamesLease(record, session)
    /\ \A lease \in returned \cup served : Installed(lease)
    /\ \A i \in 1..Len(installs) : installs[i].id \notin refused
    /\ \A id \in refused : id \in 1..grants

(* `new' is what the preparation of a call makes of the record `old'.      *)
Makes(op, lease, old, new) ==
    /\ ValidRecord(new)
    /\ \/ /\ op = "acquire" /\ old.epoch = 0
          /\ new = Acquired(old, lease.owner, lease.id)
          /\ lease.epoch = old.epoch + 1
       \/ /\ op = "successor" /\ old.epoch # 0 /\ old.state # "Recovering"
          /\ new = Acquired(old, lease.owner, lease.id)
          /\ lease.epoch = old.epoch + 1
       \/ /\ op = "reacquire" /\ old.epoch # 0 /\ old.state = "Recovering"
          /\ new = Reacquired(old, lease.owner, lease.id)
          /\ lease.epoch = old.epoch
       \/ /\ op \in Mutations \ {"renew"} /\ NamesLease(old, lease)
          /\ new \in Prepared(op, old)

(* A transaction sent: as long as the record has the revision it compares, *)
(* it writes what its operation makes of the record.                       *)
TransactionOK(t) ==
    /\ t.lease \in Leases
    /\ t.rev <= revision
    /\ revision = t.rev => Makes(t.op, t.lease, record, t.next)
    /\ t.op \notin Acquisitions => Installed(t.lease)
    /\ t.op \in Acquisitions =>
         /\ t.lease.id <= grants /\ t.lease.id \notin refused
         /\ \A i \in 1..Len(installs) : installs[i].id # t.lease.id
         /\ t.root \in Roots /\ t.place # None /\ t.place.lifecycle # "Retired"

(* An acquisition: what it has read while it is on its way to its lease.   *)
AcquisitionOK(n, c) ==
    /\ c.pc \in {"fetch", "grant", "transact", "visible", "visibleSession",
                 "ok", "revoke"}
    /\ c.root \in Roots /\ c.place # None /\ c.place.lifecycle # "Retired"
    /\ c.pc = "grant" =>
         /\ c.seen \in Records /\ c.rev <= revision
         /\ revision = c.rev => record = c.seen
         /\ (c.op = "acquire") = (c.seen.epoch = 0)
    /\ c.pc \in {"visible", "visibleSession", "revoke"} => c.lease \in Leases
    /\ c.pc = "ok" => Installed(c.lease)

(* A call under a lease: `met' tells the truth about its answer.           *)
MutationOK(c) ==
    /\ c.lease \in Leases /\ Installed(c.lease)
    /\ c.pc \in {"session", "transact", "classify", "classifySession",
                 "sessionless", "sessionlessAgain", "keepalive", "ok", "revoke"}
    /\ c.pc = "session" =>
         /\ c.seen \in Records /\ c.rev <= revision
         /\ revision = c.rev => record = c.seen
    /\ c.pc \in {"transact", "classify"} /\ c.op = "release" => c.next.owner = None
    /\ c.pc = "classifySession" =>
         IF c.op = "release" THEN c.met ELSE c.met \/ session # c.lease
    /\ c.pc \in {"sessionless", "sessionlessAgain"} =>
         c.rev <= revision /\ (revision = c.rev => record = c.next)
    /\ c.pc \in {"keepalive", "ok"} => c.met

CallOK(n, c) ==
    /\ IF c.op \in Acquisitions THEN AcquisitionOK(n, c) ELSE MutationOK(c)
    /\ c.pc = "transact" => TransactionOK(c)

CallInv == \A n \in Owners : call[n] # None => CallOK(n, call[n])
LateInv == \A t \in late : t.pc = "transact" /\ TransactionOK(t)

(* The lease of an acquisition belongs to one transaction.                 *)
Installing(n) == call[n] # None /\ call[n].pc = "transact" /\ call[n].op \in Acquisitions
UniqueInv ==
    /\ \A t, u \in late : t.op \in Acquisitions /\ u.op \in Acquisitions
                          /\ t.lease.id = u.lease.id => t = u
    /\ \A n \in Owners : \A t \in late :
         Installing(n) /\ t.op \in Acquisitions => t.lease.id # call[n].lease.id
    /\ \A n, m \in Owners :
         Installing(n) /\ Installing(m) /\ call[n].lease.id = call[m].lease.id
         => n = m

IInv == TypeInv /\ LedgerInv /\ CallInv /\ LateInv /\ UniqueInv

-----------------------------------------------------------------------------
(* The records that calls prepare.                                         *)

(* The abstract store measures records as the backend does.                *)
LEMMA SameLsn ==
    /\ \A c : Control!CheckpointLsn(c) = CheckpointLsn(c)
    /\ \A l : Control!LogLsn(l) = LogLsn(l)
    /\ \A c, l : Control!ReferenceLsn(c, l) = ReferenceLsn(c, l)
  BY DEF Control!CheckpointLsn, CheckpointLsn, Control!LogLsn, LogLsn,
         Control!ReferenceLsn, ReferenceLsn

(* ... and tests, publishes and prepares them as the backend does.         *)
LEMMA SameChecks ==
    /\ \A r : Control!TailDigest(r) = TailDigest(r)
    /\ \A r, c, l : Control!ValidLogRef(r, c, l) = ValidLogRef(r, c, l)
    /\ \A r, pub : Control!PublicationAccepted(r, pub) = PublicationAccepted(r, pub)
    /\ \A r, pub : Control!Published(r, pub) = Published(r, pub)
    /\ \A r, i : Control!IntentAccepted(r, i) = IntentAccepted(r, i)
    /\ \A i, pub : Control!PublicationMatches(i, pub) = PublicationMatches(i, pub)
    /\ \A r : Control!ValidSettled(r) = ValidSettled(r)
    /\ \A r : Control!ValidRecord(r) = ValidRecord(r)
  <1>1. \A r : Control!TailDigest(r) = TailDigest(r)
    BY SameLsn DEF Control!TailDigest, TailDigest
  <1>2. \A r, c, l : Control!ValidLogRef(r, c, l) = ValidLogRef(r, c, l)
    BY SameLsn DEF Control!ValidLogRef, ValidLogRef, Control!IsPrefix, IsPrefix
  <1>3. \A r, pub : Control!PublicationAccepted(r, pub) = PublicationAccepted(r, pub)
    <2> TAKE r, pub
    <2>1. /\ Control!TailDigest(r) = TailDigest(r)
          /\ Control!LogLsn(r.log) = LogLsn(r.log)
          /\ Control!LogLsn(pub.log) = LogLsn(pub.log)
          /\ Control!ReferenceLsn(pub.checkpoint, pub.log)
               = ReferenceLsn(pub.checkpoint, pub.log)
          /\ Control!ValidLogRef(r, pub.checkpoint, pub.log)
               = ValidLogRef(r, pub.checkpoint, pub.log)
      BY <1>1, <1>2, SameLsn
    <2> QED BY <2>1 DEF Control!PublicationAccepted, PublicationAccepted
  <1>4. \A r, pub : Control!Published(r, pub) = Published(r, pub)
    BY SameLsn, ZenonT(60) DEF Control!Published, Published
  <1>5. \A i : Control!SegmentOf(i) = SegmentOf(i)
    BY DEF Control!SegmentOf, SegmentOf
  <1>6. \A r, i : Control!IntentAccepted(r, i) = IntentAccepted(r, i)
    BY <1>1 DEF Control!IntentAccepted, IntentAccepted
  <1>7. \A i, pub : Control!PublicationMatches(i, pub) = PublicationMatches(i, pub)
    BY <1>5 DEF Control!PublicationMatches, PublicationMatches
  <1>8. \A r : Control!ValidSettled(r) = ValidSettled(r)
    BY <1>2, SameLsn DEF Control!ValidSettled, ValidSettled
  <1>9. \A r, i : Control!PublicationAfterIntent(r, i) = PublicationAfterIntent(r, i)
    BY <1>5 DEF Control!PublicationAfterIntent, PublicationAfterIntent
  <1>10. \A r : Control!PendingFinishable(r) = PendingFinishable(r)
    BY <1>3, <1>4, <1>6, <1>8, <1>9 DEF Control!PendingFinishable, PendingFinishable
  <1>11. \A r : Control!ValidRecord(r) = ValidRecord(r)
    BY <1>8, <1>10 DEF Control!ValidRecord, ValidRecord
  <1> QED BY <1>1, <1>2, <1>3, <1>4, <1>6, <1>7, <1>8, <1>11

(* A log of a client is a sequence of segments.                            *)
LEMMA LogsAreSequences ==
    ASSUME NEW log \in Control!Logs
    PROVE  log \in Seq(Control!Segments)
  BY MaxSegmentsAssumption DEF Control!Logs

LEMMA PublicationType ==
    ASSUME NEW pub \in Publications
    PROVE  /\ pub \in Control!Publications
           /\ pub.checkpoint = None
           /\ pub.log \in Control!Logs
           /\ pub.durable \in 0..MaxLsn
  <1>1. <<>> \in Control!Logs
    <2>1. <<>> \in [1..0 -> Control!Segments]
      OBVIOUS
    <2> QED BY <2>1, MaxSegmentsAssumption DEF Control!Logs
  <1>2. \A segment \in Control!Segments : segment.last \in 0..MaxLsn
    BY EtcdBounds DEF Control!Segments, Control!Ranges
  <1>3. ASSUME NEW log \in Control!Logs PROVE ReferenceLsn(None, log) \in 0..MaxLsn
    <2>1. log \in Seq(Control!Segments)
      BY LogsAreSequences
    <2>2. LogLsn(log) \in 0..MaxLsn
      BY <1>2, <2>1, EtcdBounds DEF LogLsn
    <2> QED BY <2>2, EtcdBounds DEF ReferenceLsn, CheckpointLsn
  <1>4. /\ pub \in Control!Publications /\ pub.checkpoint = None
    BY DEF Publications
  <1>5. CASE pub \in [checkpoint : {None}, log : {<<>>}, durable : 0..MaxLsn]
    BY <1>1, <1>4, <1>5
  <1>6. ASSUME NEW c \in {None} \cup Control!Checkpoints, NEW l \in Control!Logs,
               pub = [checkpoint |-> c, log |-> l,
                      durable |-> Control!ReferenceLsn(c, l)]
        PROVE  pub.log \in Control!Logs /\ pub.durable \in 0..MaxLsn
    BY <1>3, <1>4, <1>6, SameLsn
  <1> QED BY <1>4, <1>5, <1>6 DEF Control!Publications

(* Publishing changes only the recovery references of a record.            *)
LEMMA PublishedType ==
    ASSUME NEW r \in Records, NEW pub \in Publications
    PROVE  /\ Published(r, pub) \in Records
           /\ Published(r, pub).owner = r.owner
           /\ Published(r, pub).epoch = r.epoch
           /\ Published(r, pub).lease = r.lease
           /\ Published(r, pub).state = r.state
           /\ Published(r, pub).pending = r.pending
  <1>1. <<>> \in Control!Logs
    <2>1. <<>> \in [1..0 -> Control!Segments]
      OBVIOUS
    <2> QED BY <2>1, MaxSegmentsAssumption DEF Control!Logs
  <1> QED BY <1>1, PublicationType DEF Published, Records, Control!Records

(* What each preparation makes of the record it has read.                  *)
LEMMA PreparedCases ==
    ASSUME NEW op \in Mutations \ {"renew"}, NEW seen, NEW next \in Prepared(op, seen)
    PROVE  \/ /\ op = "mark" /\ seen.pending = None
              /\ \E pub \in Publications : /\ PublicationAccepted(seen, pub)
                                           /\ next = ServingRecord(seen, pub)
           \/ /\ op = "prepare"
              /\ \E i \in Control!Intents : /\ IntentAccepted(seen, i)
                                            /\ seen.pending \in {None, i}
                                            /\ next = [seen EXCEPT !.pending = i]
           \/ /\ op = "finalize" /\ seen.pending # None
              /\ \E pub \in Publications : /\ PublicationMatches(seen.pending, pub)
                                           /\ PublicationAccepted(seen, pub)
                                           /\ next = FinalizedRecord(seen, pub)
           \/ /\ op \in {"finalize", "abort"} /\ seen.pending = None /\ next = seen
           \/ /\ op = "abort" /\ seen.pending # None /\ seen.state = "Recovering"
              /\ next = [seen EXCEPT !.pending = None]
           \/ /\ op = "release" /\ seen.pending = None /\ seen.state # "Recovering"
              /\ next = ReleasedRecord(seen)
           \/ /\ op = "suspend" /\ seen.state = "Recovering" /\ next = seen
  <1>1. CASE op = "mark"
    BY <1>1 DEF Prepared
  <1>2. CASE op = "prepare"
    BY <1>2 DEF Prepared
  <1>3. CASE op = "finalize" /\ seen.pending # None
    BY <1>3 DEF Prepared
  <1>4. CASE op = "finalize" /\ seen.pending = None
    BY <1>4 DEF Prepared
  <1>5. CASE op = "abort" /\ seen.pending = None
    BY <1>5 DEF Prepared
  <1>6. CASE op = "abort" /\ seen.pending # None
    BY <1>6 DEF Prepared
  <1>7. CASE op = "release"
    BY <1>7 DEF Prepared
  <1>8. CASE op = "suspend"
    BY <1>8 DEF Prepared
  <1> QED BY <1>1, <1>2, <1>3, <1>4, <1>5, <1>6, <1>7, <1>8
          DEF Mutations, RecordWrites

(* Every call writes a record, and under its own epoch.                    *)
LEMMA PreparedType ==
    ASSUME NEW op \in Mutations \ {"renew"}, NEW seen \in Records,
           NEW next \in Prepared(op, seen)
    PROVE  /\ next \in Records
           /\ op # "release" => /\ next.owner = seen.owner
                                /\ next.epoch = seen.epoch
                                /\ next.lease = seen.lease
           /\ op = "release" => next.owner = None /\ next.lease = 0
  <1>1. CASE op = "mark"
    <2>1. PICK pub \in Publications : next = ServingRecord(seen, pub)
      BY <1>1, PreparedCases
    <2>2. /\ Published(seen, pub) \in Records
          /\ Published(seen, pub).owner = seen.owner
          /\ Published(seen, pub).epoch = seen.epoch
          /\ Published(seen, pub).lease = seen.lease
      BY PublishedType
    <2> QED BY <1>1, <2>1, <2>2 DEF ServingRecord, Records, Control!Records
  <1>2. CASE op = "prepare"
    <2>1. PICK i \in Control!Intents : next = [seen EXCEPT !.pending = i]
      BY <1>2, PreparedCases
    <2> QED BY <1>2, <2>1 DEF Records, Control!Records
  <1>3. CASE op = "finalize" /\ seen.pending # None
    <2>1. PICK pub \in Publications : next = FinalizedRecord(seen, pub)
      BY <1>3, PreparedCases
    <2>2. /\ Published(seen, pub) \in Records
          /\ Published(seen, pub).owner = seen.owner
          /\ Published(seen, pub).epoch = seen.epoch
          /\ Published(seen, pub).lease = seen.lease
      BY PublishedType
    <2> QED BY <1>3, <2>1, <2>2 DEF FinalizedRecord, Records, Control!Records
  <1>4. CASE op \in {"finalize", "abort"} /\ seen.pending = None
    BY <1>4, PreparedCases
  <1>5. CASE op = "abort" /\ seen.pending # None
    <2>1. next = [seen EXCEPT !.pending = None]
      BY <1>5, PreparedCases
    <2> QED BY <1>5, <2>1 DEF Records, Control!Records
  <1>6. CASE op = "release"
    <2>1. next = ReleasedRecord(seen)
      BY <1>6, PreparedCases
    <2> QED BY <1>6, <2>1 DEF ReleasedRecord, Records, Control!Records
  <1>7. CASE op = "suspend"
    BY <1>7, PreparedCases
  <1> QED BY <1>1, <1>2, <1>3, <1>4, <1>5, <1>6, <1>7 DEF Mutations, RecordWrites

-----------------------------------------------------------------------------
(* Steps that read: only the call of one node changes.                     *)

LEMMA QuietStep ==
    ASSUME IInv, NEW n \in Owners, NEW c,
           call' = [call EXCEPT ![n] = c],
           c # None => /\ c \in Calls /\ CallOK(n, c)
                       /\ c.pc = "transact" => c.op \notin Acquisitions,
           UNCHANGED <<etcd, grants, late, refused>>,
           \A lease \in returned' : Installed(lease)
    PROVE  IInv'
  <1> USE DEF IInv
  <1>1. TypeInv'
    BY DEF TypeInv, etcd
  <1>2. LedgerInv'
    BY DEF LedgerInv, etcd, Installed
  <1>3. ASSUME NEW m \in Owners, NEW x, CallOK(m, x) PROVE CallOK(m, x)'
    BY <1>3 DEF CallOK, AcquisitionOK, MutationOK, TransactionOK, Installed, etcd
  <1>4. \A m \in Owners : call'[m] = IF m = n THEN c ELSE call[m]
    BY DEF TypeInv
  <1>5. CallInv'
    BY <1>3, <1>4 DEF CallInv
  <1>6. LateInv'
    BY DEF LateInv, TransactionOK, Installed, etcd
  <1>7. \A m \in Owners : Installing(m)' => Installing(m) /\ call'[m] = call[m]
    BY <1>4 DEF Installing
  <1>8. UniqueInv'
    BY <1>7 DEF UniqueInv
  <1> QED BY <1>1, <1>2, <1>5, <1>6, <1>8

(* What is known of the call of a node.                                    *)
LEMMA CallFacts ==
    ASSUME IInv, NEW n \in Owners, call[n] # None
    PROVE  call[n] \in Calls /\ CallOK(n, call[n])
  BY DEF IInv, TypeInv, CallInv

LEMMA BeginInv ==
    ASSUME IInv, NEW n \in Owners,
           \/ \E op \in Acquisitions, r \in Roots : BeginAcquisition(n, op, r)
           \/ \E op \in Mutations, lease \in returned : BeginMutation(n, op, lease)
    PROVE  IInv'
  <1>0. /\ record \in Records /\ revision \in Nat
        /\ placement \in [Roots -> {None} \cup Control!Placements]
    BY DEF IInv, TypeInv
  <1>1. \A lease \in returned : Installed(lease)
    BY DEF IInv, LedgerInv
  <1>2. ASSUME NEW op \in Acquisitions, NEW r \in Roots, BeginAcquisition(n, op, r)
        PROVE  IInv'
    <2> DEFINE c == [op |-> op, pc |-> "fetch", lease |-> None, seen |-> None,
                     rev |-> 0, root |-> r, place |-> placement[r],
                     next |-> None, met |-> FALSE]
    <2>1. c \in Calls
      BY <1>0 DEF Calls, Points
    <2>2. CallOK(n, c)
      BY <1>2 DEF CallOK, AcquisitionOK, BeginAcquisition
    <2>3. c.pc # "transact"
      OBVIOUS
    <2>4. /\ call' = [call EXCEPT ![n] = c]
          /\ UNCHANGED <<etcd, grants, late, refused, returned>>
      BY <1>2 DEF BeginAcquisition, Continue
    <2> HIDE DEF c
    <2> QED BY <2>1, <2>2, <2>3, <2>4, <1>1, QuietStep
  <1>3. ASSUME NEW op \in Mutations, NEW lease \in returned, BeginMutation(n, op, lease)
        PROVE  IInv'
    <2> DEFINE c == [op |-> op, pc |-> "session", lease |-> lease,
                     seen |-> record, rev |-> revision, root |-> None,
                     place |-> None, next |-> None, met |-> FALSE]
    <2>1. lease \in Leases /\ Installed(lease)
      BY <1>1 DEF IInv, TypeInv, Installed
    <2>2. c \in Calls
      BY <1>0, <2>1 DEF Calls, Points
    <2>3. CallOK(n, c)
      BY <1>0, <2>1 DEF CallOK, MutationOK, Acquisitions, Mutations, RecordWrites
    <2>4. c.pc # "transact"
      OBVIOUS
    <2>5. /\ call' = [call EXCEPT ![n] = c]
          /\ UNCHANGED <<etcd, grants, late, refused, returned>>
      BY <1>3 DEF BeginMutation, Continue
    <2> HIDE DEF c
    <2> QED BY <2>2, <2>3, <2>4, <2>5, <1>1, QuietStep
  <1> QED BY <1>2, <1>3

(* A call that ends.                                                       *)
LEMMA FinishInv ==
    ASSUME IInv, NEW n \in Owners, Finish(n),
           UNCHANGED <<etcd, grants, late, refused, returned>>
    PROVE  IInv'
  <1>1. \A lease \in returned : Installed(lease)
    BY DEF IInv, LedgerInv
  <1> QED BY <1>1, QuietStep DEF Finish, Continue

LEMMA FetchInv ==
    ASSUME IInv, NEW n \in Owners, FetchForAcquisition(n) PROVE IInv'
  <1> DEFINE c == [call[n] EXCEPT !.seen = record, !.rev = revision, !.pc = "grant"]
  <1>0. record \in Records /\ revision \in Nat
    BY DEF IInv, TypeInv
  <1>1. \A lease \in returned : Installed(lease)
    BY DEF IInv, LedgerInv
  <1>2. call[n] \in Calls /\ CallOK(n, call[n]) /\ call[n].pc = "fetch"
    BY CallFacts DEF FetchForAcquisition
  <1>3. UNCHANGED <<etcd, grants, late, refused, returned>>
    BY DEF FetchForAcquisition
  <1>4. CASE (call[n].op = "acquire") = (record.epoch = 0)
    <2>1. call[n].op \in Acquisitions
      BY <1>2 DEF CallOK, MutationOK
    <2>2. c \in Calls
      BY <1>0, <1>2 DEF Calls, Points
    <2>3. /\ c.op = call[n].op /\ c.pc = "grant" /\ c.seen = record
          /\ c.rev = revision /\ c.root = call[n].root /\ c.place = call[n].place
      BY <1>2 DEF Calls
    <2>4. call' = [call EXCEPT ![n] = c]
      BY <1>4 DEF FetchForAcquisition, Continue, Fetched
    <2> HIDE DEF c
    <2>5. CallOK(n, c)
      BY <1>0, <1>2, <1>4, <2>1, <2>3 DEF CallOK, AcquisitionOK
    <2> QED BY <1>1, <1>3, <2>2, <2>3, <2>4, <2>5, QuietStep
  <1>5. CASE ~((call[n].op = "acquire") = (record.epoch = 0))
    BY <1>3, <1>5, FinishInv DEF FetchForAcquisition
  <1> QED BY <1>4, <1>5

(* A live session is the one the record names, so a renewal that finds its *)
(* own session has met the truth; and what is prepared from a record that  *)
(* is still current is what the transaction will make of it.               *)
LEMMA ReadSessionInv ==
    ASSUME IInv, NEW n \in Owners, ReadSession(n) PROVE IInv'
  <1>0. record \in Records /\ revision \in Nat
    BY DEF IInv, TypeInv
  <1>1. \A lease \in returned : Installed(lease)
    BY DEF IInv, LedgerInv
  <1>2. /\ call[n] \in Calls /\ CallOK(n, call[n]) /\ call[n].pc = "session"
        /\ call[n] # None
    BY CallFacts DEF ReadSession
  <1>3. UNCHANGED <<etcd, grants, late, refused, returned>>
    BY DEF ReadSession
  <1>4. CASE Finish(n)
    BY <1>3, <1>4, FinishInv
  <1>5. CASE ~Finish(n)
    <2> DEFINE b == call[n]
               pc == IF session = None THEN "sessionless"
                     ELSE IF b.op = "renew" THEN "keepalive" ELSE "transact"
               met == NamesLease(record, b.lease) /\ session = b.lease
    <2>1. PICK next \in Prepared(b.op, b.seen) :
            /\ ValidRecord(next)
            /\ NamesLease(b.seen, b.lease)
            /\ session = b.lease \/ (b.op = "suspend" /\ session = None)
            /\ call' = [call EXCEPT ![n] =
                 [b EXCEPT !.next = next, !.seen = None, !.met = met, !.pc = pc]]
      BY <1>5 DEF ReadSession, Continue
    <2> DEFINE c == [b EXCEPT !.next = next, !.seen = None, !.met = met, !.pc = pc]
    <2>2. b.op \in Mutations /\ b.op \notin Acquisitions
      BY <1>2 DEF CallOK, AcquisitionOK, Calls
    <2>3. /\ b.lease \in Leases /\ Installed(b.lease) /\ b.seen \in Records
          /\ b.rev \in Nat /\ b.rev <= revision
          /\ revision = b.rev => record = b.seen
      BY <1>2, <2>2 DEF CallOK, MutationOK, Calls
    <2>4. next \in Records
      <3>1. CASE b.op = "renew"
        BY <2>1, <2>3, <3>1 DEF Prepared
      <3>2. CASE b.op # "renew"
        BY <2>1, <2>2, <2>3, <3>2, PreparedType
      <3> QED BY <3>1, <3>2
    <2>5. b.op = "release" => next.owner = None
      BY <2>1, <2>2, <2>3, PreparedType
    <2>6. b.op = "suspend" => next = b.seen
      BY <2>1, <2>2, PreparedCases
    <2>7. met \in BOOLEAN /\ pc \in Points
      BY DEF Points
    <2>8. session # None => met
      <3>1. session # None => session = b.lease /\ NamesLease(record, session)
        BY <2>1 DEF IInv, LedgerInv
      <3> QED BY <3>1
    <2>9. b.lease # None
      BY <2>3, EtcdBounds DEF Leases
    <2> HIDE DEF met, pc
    <2>10. c \in Calls
      BY <1>2, <2>4, <2>7 DEF Calls
    <2>11. /\ c.op = b.op /\ c.lease = b.lease /\ c.rev = b.rev /\ c.next = next
           /\ c.met = met /\ c.pc = pc
      BY <1>2 DEF Calls
    <2>12. c.pc = "transact" => TransactionOK(c)
      <3> SUFFICES ASSUME c.pc = "transact" PROVE TransactionOK(c)
        OBVIOUS
      <3>1. b.op # "renew"
        BY <2>11 DEF pc
      <3>2. revision = c.rev => Makes(c.op, c.lease, record, c.next)
        BY <2>1, <2>2, <2>3, <2>11, <3>1 DEF Makes
      <3> HIDE DEF c
      <3> QED BY <2>2, <2>3, <2>11, <3>2 DEF TransactionOK
    <2>13. CallOK(n, c)
      <3> HIDE DEF c
      <3>1. MutationOK(c)
        <4>1. /\ c.pc \in {"sessionless", "keepalive", "transact"}
              /\ c.pc = "sessionless" => session = None
              /\ c.pc = "keepalive" => session # None
          BY <2>11 DEF pc
        <4>2. c.pc = "sessionless" =>
                /\ c.op = "suspend" /\ c.rev <= revision
                /\ revision = c.rev => record = c.next
          BY <2>1, <2>3, <2>6, <2>9, <2>11, <4>1
        <4>3. c.pc = "keepalive" => c.met
          BY <2>8, <2>11, <4>1
        <4> QED BY <2>3, <2>5, <2>11, <4>1, <4>2, <4>3 DEF MutationOK
      <3> QED BY <2>2, <2>11, <2>12, <3>1 DEF CallOK
    <2>14. call' = [call EXCEPT ![n] = c]
      BY <2>1
    <2> HIDE DEF c
    <2> QED BY <1>1, <1>3, <2>2, <2>10, <2>11, <2>13, <2>14, QuietStep
  <1> QED BY <1>4, <1>5

(* Classification: an answer is given only after a read that found the     *)
(* wanted record, and a session that differed then cannot come back.       *)
LEMMA ClassifyInv ==
    ASSUME IInv, NEW n \in Owners,
           \/ InstallVisibleRecord(n) \/ InstallVisibleSession(n)
           \/ ClassifyRecord(n) \/ ClassifySession(n) \/ CheckSessionless(n)
           \/ KeepAlive(n) \/ Return(n) \/ CallFails(n)
    PROVE  IInv'
  <1> DEFINE b == call[n]
  <1>0. record \in Records /\ revision \in Nat
    BY DEF IInv, TypeInv
  <1>1. /\ \A lease \in returned : Installed(lease)
        /\ session # None => Installed(session) /\ NamesLease(record, session)
    BY DEF IInv, LedgerInv
  <1>2. b \in Calls /\ CallOK(n, b) /\ b # None
    BY CallFacts DEF InstallVisibleRecord, InstallVisibleSession, ClassifyRecord,
         ClassifySession, CheckSessionless, KeepAlive, Return, CallFails
  <1>3. UNCHANGED <<etcd, grants, late, refused>>
    BY DEF InstallVisibleRecord, InstallVisibleSession, ClassifyRecord,
         ClassifySession, CheckSessionless, KeepAlive, Return, CallFails
  <1>4. CASE Finish(n) /\ returned' = returned
    BY <1>3, <1>4, FinishInv
  \* The call goes on at pc and has noted met.
  <1>5. ASSUME NEW pc \in Points \ {"transact"}, NEW met \in BOOLEAN,
               call' = [call EXCEPT ![n] = [b EXCEPT !.met = met, !.pc = pc]],
               CallOK(n, [b EXCEPT !.met = met, !.pc = pc]),
               \A lease \in returned' : Installed(lease)
        PROVE  IInv'
    <2> DEFINE c == [b EXCEPT !.met = met, !.pc = pc]
    <2>1. c \in Calls /\ c.pc # "transact"
      BY <1>2 DEF Calls
    <2> HIDE DEF c
    <2> QED BY <1>3, <1>5, <2>1, QuietStep DEF c
  <1>6. ASSUME NEW pc, NEW met
        PROVE  /\ [b EXCEPT !.met = met, !.pc = pc].op = b.op
               /\ [b EXCEPT !.met = met, !.pc = pc].pc = pc
               /\ [b EXCEPT !.met = met, !.pc = pc].met = met
               /\ [b EXCEPT !.met = met, !.pc = pc].lease = b.lease
               /\ [b EXCEPT !.met = met, !.pc = pc].root = b.root
               /\ [b EXCEPT !.met = met, !.pc = pc].place = b.place
               /\ [b EXCEPT !.met = met, !.pc = pc].rev = b.rev
               /\ [b EXCEPT !.met = met, !.pc = pc].next = b.next
    BY <1>2 DEF Calls
  <1>7. ASSUME NEW pc PROVE [b EXCEPT !.pc = pc] = [b EXCEPT !.met = b.met, !.pc = pc]
    BY <1>2 DEF Calls
  <1>8. b.met \in BOOLEAN /\ b.op \in Acquisitions \cup Mutations
    BY <1>2 DEF Calls
  <1>9. Acquisitions \cap Mutations = {}
    BY DEF Acquisitions, Mutations, RecordWrites
  <1>10. b.pc \in {"visible", "visibleSession"} => b.op \in Acquisitions
    BY <1>2 DEF CallOK, MutationOK
  <1>11. b.pc \in {"classify", "classifySession", "sessionless",
                   "sessionlessAgain", "keepalive"} => b.op \notin Acquisitions
    BY <1>2 DEF CallOK, AcquisitionOK
  <1>12. b.op \in Acquisitions => AcquisitionOK(n, b)
    BY <1>2 DEF CallOK
  <1>13. b.op \notin Acquisitions => MutationOK(b)
    BY <1>2 DEF CallOK
  <1>14. CASE InstallVisibleRecord(n)
    <2> DEFINE pc == IF record = b.next THEN "visibleSession" ELSE "revoke"
               c == [b EXCEPT !.met = b.met, !.pc = pc]
    <2>1. b.pc = "visible" /\ call' = [call EXCEPT ![n] = c] /\ returned' = returned
      BY <1>7, <1>14 DEF InstallVisibleRecord, Continue
    <2>2. pc \in {"visibleSession", "revoke"}
      OBVIOUS
    <2> HIDE DEF pc
    <2>3. c.op = b.op /\ c.pc = pc /\ c.lease = b.lease /\ c.root = b.root /\ c.place = b.place
      BY <1>6
    <2>4. CallOK(n, c)
      <3> HIDE DEF c
      <3> QED BY <1>10, <1>12, <2>1, <2>2, <2>3 DEF CallOK, AcquisitionOK
    <2> QED BY <1>1, <1>5, <1>8, <2>1, <2>2, <2>4 DEF Points
  <1>15. CASE InstallVisibleSession(n)
    <2> DEFINE pc == IF session = b.lease THEN "ok" ELSE "revoke"
               c == [b EXCEPT !.met = b.met, !.pc = pc]
    <2>1. /\ b.pc = "visibleSession" /\ call' = [call EXCEPT ![n] = c]
          /\ returned' \subseteq IF session = b.lease THEN returned \cup {b.lease}
                                 ELSE returned
      BY <1>7, <1>15 DEF InstallVisibleSession, Continue
    <2>2. b.lease \in Leases /\ b.lease # None
      BY <1>10, <1>12, <2>1, EtcdBounds DEF AcquisitionOK, Leases
    <2>3. pc \in {"ok", "revoke"} /\ (pc = "ok" => Installed(b.lease))
      BY <1>1, <2>2
    <2>4. \A lease \in returned' : Installed(lease)
      BY <1>1, <2>1, <2>2
    <2> HIDE DEF pc
    <2>5. c.op = b.op /\ c.pc = pc /\ c.lease = b.lease /\ c.root = b.root /\ c.place = b.place
      BY <1>6
    <2>6. CallOK(n, c)
      <3> HIDE DEF c
      <3> QED BY <1>10, <1>12, <2>1, <2>2, <2>3, <2>5 DEF CallOK, AcquisitionOK
    <2> QED BY <1>5, <1>8, <2>1, <2>3, <2>4, <2>6 DEF Points
  <1>16. CASE ClassifyRecord(n) /\ ~Finish(n)
    <2> DEFINE met == session = (IF b.op = "release" THEN None ELSE b.lease)
               c == [b EXCEPT !.met = met, !.pc = "classifySession"]
    <2>1. /\ b.pc = "classify" /\ record = b.next
          /\ call' = [call EXCEPT ![n] = c] /\ returned' = returned
      BY <1>16 DEF ClassifyRecord, Continue
    <2>2. b.op = "release" => session = None
      <3>1. b.op = "release" => record.owner = None
        BY <1>11, <1>13, <2>1 DEF MutationOK
      <3>2. session # None => session.owner \in Owners /\ record.owner = session.owner
        BY <1>1 DEF IInv, TypeInv, Leases, NamesLease
      <3> QED BY <3>1, <3>2, EtcdBounds
    <2>3. IF b.op = "release" THEN met ELSE met \/ session # b.lease
      BY <2>2
    <2>4. met \in BOOLEAN
      OBVIOUS
    <2> HIDE DEF met
    <2>5. c.op = b.op /\ c.pc = "classifySession" /\ c.lease = b.lease /\ c.met = met
      BY <1>6
    <2>6. CallOK(n, c)
      <3> HIDE DEF c
      <3> QED BY <1>11, <1>13, <2>1, <2>3, <2>5 DEF CallOK, MutationOK
    <2> QED BY <1>1, <1>5, <2>1, <2>4, <2>6 DEF Points
  <1>17. CASE ClassifySession(n) /\ ~Finish(n)
    <2> DEFINE c == [b EXCEPT !.met = b.met, !.pc = "ok"]
    <2>1. /\ b.pc = "classifySession"
          /\ session = (IF b.op = "release" THEN None ELSE b.lease)
          /\ call' = [call EXCEPT ![n] = c] /\ returned' = returned
      BY <1>7, <1>17 DEF ClassifySession, Continue
    <2>2. b.met
      BY <1>8, <1>11, <1>13, <2>1 DEF MutationOK
    <2>3. c.op = b.op /\ c.pc = "ok" /\ c.lease = b.lease /\ c.met = b.met
      BY <1>6
    <2>4. CallOK(n, c)
      <3> HIDE DEF c
      <3> QED BY <1>11, <1>13, <2>1, <2>2, <2>3 DEF CallOK, MutationOK
    <2> QED BY <1>1, <1>5, <1>8, <2>1, <2>4 DEF Points
  <1>18. CASE CheckSessionless(n) /\ ~Finish(n)
    <2>1. b.pc \in {"sessionless", "sessionlessAgain"} /\ returned' = returned
      BY <1>18 DEF CheckSessionless
    <2>2. CASE revision = b.rev /\ session = None
      <3> DEFINE c == [b EXCEPT !.met = (record = b.next), !.pc = "ok"]
      <3>1. call' = [call EXCEPT ![n] = c]
        BY <1>18, <2>2 DEF CheckSessionless, Continue
      <3>2. record = b.next
        BY <1>11, <1>13, <2>1, <2>2 DEF MutationOK
      <3>3. c.op = b.op /\ c.pc = "ok" /\ c.lease = b.lease /\ c.met = (record = b.next)
        BY <1>6
      <3>4. CallOK(n, c)
        <4> HIDE DEF c
        <4> QED BY <1>11, <1>13, <2>1, <3>2, <3>3 DEF CallOK, MutationOK
      <3> QED BY <1>1, <1>5, <2>1, <3>1, <3>4 DEF Points
    <2>3. CASE ~(revision = b.rev /\ session = None)
      <3> DEFINE c == [b EXCEPT !.met = b.met, !.pc = "sessionlessAgain"]
      <3>1. call' = [call EXCEPT ![n] = c]
        BY <1>7, <1>18, <2>3 DEF CheckSessionless, Continue
      <3>2. /\ c.op = b.op /\ c.pc = "sessionlessAgain" /\ c.lease = b.lease
            /\ c.rev = b.rev /\ c.next = b.next
        BY <1>6
      <3>3. CallOK(n, c)
        <4> HIDE DEF c
        <4> QED BY <1>11, <1>13, <2>1, <3>2 DEF CallOK, MutationOK
      <3> QED BY <1>1, <1>5, <1>8, <2>1, <3>1, <3>3 DEF Points
    <2> QED BY <2>2, <2>3
  <1>19. CASE KeepAlive(n) /\ ~Finish(n)
    <2> DEFINE c == [b EXCEPT !.met = b.met, !.pc = "ok"]
    <2>1. b.pc = "keepalive" /\ call' = [call EXCEPT ![n] = c] /\ returned' = returned
      BY <1>7, <1>19 DEF KeepAlive, Continue
    <2>2. c.op = b.op /\ c.pc = "ok" /\ c.lease = b.lease /\ c.met = b.met
      BY <1>6
    <2>3. CallOK(n, c)
      <3> HIDE DEF c
      <3> QED BY <1>11, <1>13, <2>1, <2>2 DEF CallOK, MutationOK
    <2> QED BY <1>1, <1>5, <1>8, <2>1, <2>3 DEF Points
  <1>20. CASE Return(n) /\ ~Finish(n)
    <2> DEFINE c == [b EXCEPT !.met = b.met, !.pc = "revoke"]
    <2>1. /\ b.op \in {"suspend", "release"} /\ call' = [call EXCEPT ![n] = c]
          /\ returned' = returned
      BY <1>7, <1>20 DEF Return, Continue
    <2>2. c.op = b.op /\ c.pc = "revoke" /\ c.lease = b.lease
      BY <1>6
    <2>3. b.op \notin Acquisitions
      BY <2>1 DEF Acquisitions
    <2>4. CallOK(n, c)
      <3> HIDE DEF c
      <3> QED BY <1>13, <2>2, <2>3 DEF CallOK, MutationOK
    <2> QED BY <1>1, <1>5, <1>8, <2>1, <2>4 DEF Points
  <1>21. CASE CallFails(n)
    BY <1>4, <1>21 DEF CallFails
  <1>22. ClassifyRecord(n) \/ ClassifySession(n) \/ CheckSessionless(n)
           \/ KeepAlive(n) \/ Return(n) => returned' = returned
    BY DEF ClassifyRecord, ClassifySession, CheckSessionless, KeepAlive, Return
  <1> QED BY <1>4, <1>14, <1>15, <1>16, <1>17, <1>18, <1>19, <1>20, <1>21, <1>22

-----------------------------------------------------------------------------
(* Steps that write.                                                       *)

(* What a transaction writes is a record of its own lease, or of none.     *)
LEMMA MakesType ==
    ASSUME NEW op, NEW lease \in Leases, NEW old \in Records, NEW new,
           Makes(op, lease, old, new)
    PROVE  /\ new \in Records /\ ValidRecord(new)
           /\ op # "release" => NamesLease(new, lease)
           /\ op = "release" => new.lease = 0
           /\ op = "suspend" => new = old
           /\ op \in Acquisitions => new.lease = lease.id
           /\ op \in (Acquisitions \cup Mutations) \ {"renew"}
  <1>1. CASE op \in {"acquire", "successor"}
    <2>1. new = Acquired(old, lease.owner, lease.id) /\ lease.epoch = old.epoch + 1
      BY <1>1 DEF Makes, Mutations, RecordWrites
    <2>2. /\ lease.owner \in Owners /\ lease.epoch \in Nat /\ lease.id \in Nat
          /\ old.epoch \in Nat
      BY DEF Leases, Records, Control!Records
    <2>3. \A e \in Nat : [old EXCEPT !.owner = lease.owner, !.epoch = e,
                                     !.lease = lease.id, !.state = "Recovering"] \in Records
      BY <2>2 DEF Records, Control!Records
    <2>4. new = [old EXCEPT !.owner = lease.owner, !.epoch = lease.epoch,
                            !.lease = lease.id, !.state = "Recovering"]
      BY <2>1 DEF Acquired
    <2>5. new \in Records
      BY <2>2, <2>3, <2>4
    <2>6. new.owner = lease.owner /\ new.epoch = lease.epoch /\ new.lease = lease.id
      BY <2>4 DEF Records, Control!Records
    <2> QED BY <1>1, <2>5, <2>6 DEF Makes, NamesLease, Acquisitions
  <1>2. CASE op = "reacquire"
    <2>1. new = Reacquired(old, lease.owner, lease.id) /\ lease.epoch = old.epoch
      BY <1>2 DEF Makes, Mutations, RecordWrites
    <2>2. lease.owner \in Owners /\ lease.id \in Nat
      BY DEF Leases
    <2>3. new \in Records /\ new.owner = lease.owner /\ new.epoch = old.epoch /\ new.lease = lease.id
      BY <2>1, <2>2 DEF Records, Control!Records, Reacquired
    <2> QED BY <1>2, <2>1, <2>3 DEF Makes, NamesLease, Acquisitions
  <1>3. CASE op \in Mutations \ {"renew"}
    <2>1. NamesLease(old, lease) /\ new \in Prepared(op, old) /\ op \notin Acquisitions
      BY <1>3 DEF Makes, Mutations, RecordWrites, Acquisitions
    <2>2. /\ new \in Records
          /\ op # "release" => /\ new.owner = old.owner
                               /\ new.epoch = old.epoch
                               /\ new.lease = old.lease
          /\ op = "release" => new.lease = 0
      BY <1>3, <2>1, PreparedType
    <2>3. op = "suspend" => new = old
      BY <1>3, <2>1, PreparedCases
    <2> QED BY <1>3, <2>1, <2>2, <2>3 DEF Makes, NamesLease
  <1> QED BY <1>1, <1>2, <1>3 DEF Makes, Acquisitions

(* A transaction that commits: the ledger stays exact.                     *)
LEMMA ApplyLedger ==
    ASSUME IInv, NEW t \in Calls, TransactionOK(t), Applies(t), Apply(t),
           UNCHANGED <<grants, refused>>,
           returned' \subseteq IF t.op \in Acquisitions THEN returned \cup {t.lease}
                               ELSE returned
    PROVE  /\ record' \in Records /\ revision' \in Nat
           /\ session' \in {None} \cup Leases /\ installs' \in Seq(Leases)
           /\ placement' = placement
           /\ LedgerInv'
           /\ \A lease : Installed(lease) => Installed(lease)'
           /\ Installed(t.lease)'
           /\ session' \in {session, None} \/ (t.op \in Acquisitions /\ session' = t.lease)
           /\ revision' = revision + 1 \/ (revision' = revision /\ record' = record)
           /\ installs' = IF t.op \in Acquisitions THEN Append(installs, t.lease)
                          ELSE installs
  <1>0. /\ record \in Records /\ revision \in Nat /\ installs \in Seq(Leases)
        /\ session \in {None} \cup Leases /\ grants \in Nat
    BY EtcdBounds DEF IInv, TypeInv
  <1>1. /\ revision = t.rev /\ t.lease \in Leases
        /\ Makes(t.op, t.lease, record, t.next)
        /\ t.op \notin Acquisitions => Installed(t.lease) /\ session = t.lease
        /\ t.op \in Acquisitions =>
             /\ t.lease.id <= grants /\ t.lease.id \notin refused
             /\ \A i \in 1..Len(installs) : installs[i].id # t.lease.id
    <2>1. /\ revision = t.rev
          /\ t.op \notin Acquisitions => session = t.lease
      BY DEF Applies, Compares
    <2> QED BY <2>1 DEF TransactionOK
  <1>2. /\ t.next \in Records /\ ValidRecord(t.next)
        /\ t.op # "release" => NamesLease(t.next, t.lease)
        /\ t.op = "release" => t.next.lease = 0
        /\ t.op = "suspend" => t.next = record
        /\ t.op \in Acquisitions => t.next.lease = t.lease.id
    <2>1. /\ t.lease \in Leases /\ record \in Records
          /\ Makes(t.op, t.lease, record, t.next)
      BY <1>0, <1>1
    <2> DEFINE op == t.op
               next == t.next
               lease == t.lease
    <2>2. lease \in Leases /\ record \in Records /\ Makes(op, lease, record, next)
      BY <2>1
    <2> HIDE DEF op, next, lease
    <2>3. /\ next \in Records /\ ValidRecord(next)
          /\ op # "release" => NamesLease(next, lease)
          /\ op = "release" => next.lease = 0
          /\ op = "suspend" => next = record
          /\ op \in Acquisitions => next.lease = lease.id
      BY <2>2, MakesType
    <2> QED BY <2>3 DEF op, next, lease
  <1>3. /\ record' = t.next
        /\ revision' = IF t.op = "suspend" THEN revision ELSE revision + 1
        /\ session' = IF t.op \in Acquisitions THEN t.lease
                      ELSE IF t.op \in {"suspend", "release"} THEN None ELSE session
        /\ installs' = IF t.op \in Acquisitions THEN Append(installs, t.lease)
                       ELSE installs
        /\ served' \subseteq IF t.op = "mark" THEN served \cup {t.lease} ELSE served
        /\ placement' = placement
    BY DEF Apply
  <1>4. "suspend" \notin Acquisitions /\ "release" \notin Acquisitions
        /\ "mark" \notin Acquisitions
    BY DEF Acquisitions
  <1>5. /\ t.op \in Acquisitions =>
             /\ installs' \in Seq(Leases) /\ Len(installs') = Len(installs) + 1
             /\ \A i \in 1..Len(installs) : installs'[i] = installs[i]
             /\ installs'[Len(installs) + 1] = t.lease
        /\ t.op \notin Acquisitions => installs' = installs
    BY <1>0, <1>1, <1>3
  <1>6. ASSUME NEW lease, Installed(lease) PROVE Installed(lease)'
    <2>1. PICK i \in 1..Len(installs) : installs[i] = lease
      BY <1>6 DEF Installed
    <2>2. i \in 1..Len(installs') /\ installs'[i] = lease
      BY <1>0, <1>5, <2>1
    <2> QED BY <2>2 DEF Installed
  <1>7. t.op \in Acquisitions => Installed(t.lease)'
    <2> SUFFICES ASSUME t.op \in Acquisitions PROVE Installed(t.lease)'
      OBVIOUS
    <2>1. Len(installs) + 1 \in 1..Len(installs') /\ installs'[Len(installs) + 1] = t.lease
      BY <1>0, <1>5
    <2> QED BY <2>1 DEF Installed
  <1>8. \A i \in 1..Len(installs') :
          \/ i \in 1..Len(installs) /\ installs'[i] = installs[i]
          \/ t.op \in Acquisitions /\ i = Len(installs) + 1 /\ installs'[i] = t.lease
    BY <1>0, <1>5
  <1>9. LedgerInv'
    <2>1. /\ \A i \in 1..Len(installs) : installs[i].id <= grants
          /\ \A i, j \in 1..Len(installs) : installs[i].id = installs[j].id => i = j
          /\ record.lease # 0 =>
               \E i \in 1..Len(installs) : installs[i].id = record.lease
          /\ session # None => Installed(session) /\ NamesLease(record, session)
          /\ \A lease \in returned \cup served : Installed(lease)
          /\ \A i \in 1..Len(installs) : installs[i].id \notin refused
          /\ \A id \in refused : id \in 1..grants
      BY DEF IInv, LedgerInv
    <2>2. \A i \in 1..Len(installs') : installs'[i].id <= grants'
      BY <1>1, <1>8, <2>1
    <2>3. \A i, j \in 1..Len(installs') : installs'[i].id = installs'[j].id => i = j
      BY <1>1, <1>8, <2>1
    <2>4. record'.lease # 0 =>
            \E i \in 1..Len(installs') : installs'[i].id = record'.lease
      <3>1. CASE t.op \in Acquisitions
        BY <1>0, <1>2, <1>3, <1>5, <3>1
      <3>2. CASE t.op \notin Acquisitions
        <4>1. PICK i \in 1..Len(installs) : installs[i] = t.lease
          BY <1>1, <3>2 DEF Installed
        <4> QED BY <1>2, <1>3, <1>5, <3>2, <4>1 DEF NamesLease
      <3> QED BY <3>1, <3>2
    <2>5. session' # None => Installed(session)' /\ NamesLease(record', session')
      BY <1>1, <1>2, <1>3, <1>4, <1>6, <1>7
    <2>6. \A lease \in returned' \cup served' : Installed(lease)'
      BY <1>1, <1>3, <1>4, <1>6, <1>7, <2>1
    <2>7. \A i \in 1..Len(installs') : installs'[i].id \notin refused'
      BY <1>1, <1>8, <2>1
    <2>8. ValidRecord(record') /\ \A id \in refused' : id \in 1..grants'
      BY <1>2, <1>3, <2>1
    <2> QED BY <2>2, <2>3, <2>4, <2>5, <2>6, <2>7, <2>8 DEF LedgerInv
  <1>10. /\ revision' \in Nat
         /\ revision' = revision + 1 \/ (revision' = revision /\ record' = record)
    BY <1>0, <1>2, <1>3
  <1>11. /\ session' \in {None} \cup Leases
         /\ session' \in {session, None} \/ (t.op \in Acquisitions /\ session' = t.lease)
    <2>1. \/ t.op \in Acquisitions /\ session' = t.lease
          \/ session' = None
          \/ session' = session
      BY <1>3
    <2> QED BY <1>0, <1>1, <2>1
  <1>12. record' \in Records /\ installs' \in Seq(Leases)
    BY <1>0, <1>2, <1>3, <1>5
  <1> QED BY <1>1, <1>3, <1>6, <1>7, <1>9, <1>10, <1>11, <1>12

(* A write of the record, or the end of a session, under the other         *)
(* transactions and calls: those that compare an older revision lose, the  *)
(* others find the record they have read.                                  *)
LEMMA OthersKept ==
    ASSUME IInv, NEW x \in Calls, NEW m \in Owners,
           revision' \in Nat, UNCHANGED <<grants, refused>>,
           revision' = revision + 1 \/ (revision' = revision /\ record' = record),
           \A lease : Installed(lease) => Installed(lease)',
           \/ session' \in {session, None}
           \/ ~Installed(session'),
           \/ installs' = installs
           \/ \E lease \in Leases :
                /\ installs' = Append(installs, lease)
                /\ x.pc = "transact" /\ x.op \in Acquisitions => x.lease.id # lease.id
    PROVE  /\ x.pc = "transact" /\ TransactionOK(x) => TransactionOK(x)'
           /\ CallOK(m, x) => CallOK(m, x)'
  <1>0. /\ revision \in Nat /\ installs \in Seq(Leases) /\ x.rev \in Nat
    BY DEF IInv, TypeInv, Calls
  <1>1. ASSUME x.op \in Acquisitions, x.pc = "transact",
               \A i \in 1..Len(installs) : installs[i].id # x.lease.id
        PROVE  \A i \in 1..Len(installs') : installs'[i].id # x.lease.id
    <2>1. CASE installs' = installs
      BY <1>1, <2>1
    <2>2. CASE \E lease \in Leases : installs' = Append(installs, lease)
                                     /\ x.lease.id # lease.id
      BY <1>0, <1>1, <2>2
    <2> QED BY <1>1, <2>1, <2>2
  <1>2. x.pc = "transact" /\ TransactionOK(x) => TransactionOK(x)'
    BY <1>0, <1>1 DEF TransactionOK
  <1>3. AcquisitionOK(m, x) => AcquisitionOK(m, x)'
    BY <1>0 DEF AcquisitionOK
  <1>4. MutationOK(x) => MutationOK(x)'
    <2> SUFFICES ASSUME MutationOK(x) PROVE MutationOK(x)'
      OBVIOUS
    <2>1. x.lease # None
      BY EtcdBounds DEF MutationOK, Leases
    <2>2. session # x.lease => session' # x.lease
      BY <2>1 DEF MutationOK
    <2> QED BY <1>0, <2>2 DEF MutationOK
  <1> QED BY <1>2, <1>3, <1>4 DEF CallOK

(* The whole of a transaction that commits, its sender or nobody waiting.  *)
LEMMA ApplyInv ==
    ASSUME IInv, NEW t \in Calls, t.pc = "transact", TransactionOK(t),
           Applies(t), Apply(t), UNCHANGED <<grants, refused>>,
           returned' \subseteq IF t.op \in Acquisitions THEN returned \cup {t.lease}
                               ELSE returned,
           late' \subseteq late, call' \in [Owners -> {None} \cup Calls],
           \A u \in late' : t.op \in Acquisitions /\ u.op \in Acquisitions
                            => u.lease.id # t.lease.id,
           \A m \in Owners : Installing(m)' =>
             /\ Installing(m) /\ call'[m] = call[m]
             /\ t.op \in Acquisitions => call[m].lease.id # t.lease.id,
           \A m \in Owners : call'[m] # None =>
             call'[m] = call[m] \/ CallOK(m, call[m])'
    PROVE  IInv'
  <1>1. /\ record' \in Records /\ revision' \in Nat
        /\ session' \in {None} \cup Leases /\ installs' \in Seq(Leases)
        /\ placement' = placement
        /\ LedgerInv'
        /\ \A lease : Installed(lease) => Installed(lease)'
        /\ session' \in {session, None} \/ (t.op \in Acquisitions /\ session' = t.lease)
        /\ revision' = revision + 1 \/ (revision' = revision /\ record' = record)
        /\ installs' = IF t.op \in Acquisitions THEN Append(installs, t.lease)
                       ELSE installs
    BY ApplyLedger
  <1>2. TypeInv'
    BY <1>1 DEF IInv, TypeInv
  <1>3. t.op \in Acquisitions => ~Installed(t.lease)
    BY DEF TransactionOK, Installed
  <1>4. session' \in {session, None} \/ ~Installed(session')
    BY <1>1, <1>3
  <1>5. t.lease \in Leases
    BY DEF TransactionOK
  <1>6. ASSUME NEW x \in Calls, NEW m \in Owners,
               x.pc = "transact" /\ x.op \in Acquisitions /\ t.op \in Acquisitions
                 => x.lease.id # t.lease.id
        PROVE  /\ x.pc = "transact" /\ TransactionOK(x) => TransactionOK(x)'
               /\ CallOK(m, x) => CallOK(m, x)'
    <2>1. \/ installs' = installs
          \/ \E lease \in Leases :
               /\ installs' = Append(installs, lease)
               /\ x.pc = "transact" /\ x.op \in Acquisitions => x.lease.id # lease.id
      BY <1>1, <1>5, <1>6
    <2> QED BY <1>1, <1>4, <2>1, OthersKept
  <1>7. LateInv'
    <2> SUFFICES ASSUME NEW u \in late'
                 PROVE  u.pc = "transact" /\ TransactionOK(u)'
      BY DEF LateInv
    <2>1. u \in Calls /\ TransactionOK(u) /\ u.pc = "transact"
      BY DEF IInv, TypeInv, LateInv
    <2>2. t.lease.owner \in Owners
      BY <1>5 DEF Leases
    <2>3. u.op \in Acquisitions /\ t.op \in Acquisitions => u.lease.id # t.lease.id
      OBVIOUS
    <2> QED BY <1>6, <2>1, <2>2, <2>3
  <1>8. CallInv'
    <2> SUFFICES ASSUME NEW m \in Owners, call'[m] # None, call'[m] = call[m]
                 PROVE  CallOK(m, call[m])'
      BY DEF CallInv
    <2>1. call[m] \in Calls /\ CallOK(m, call[m])
      BY CallFacts
    <2>2. PICK x \in Calls : x = call[m]
      BY <2>1
    <2>3. x.pc = "transact" /\ x.op \in Acquisitions => Installing(m)'
      BY <2>2 DEF Installing
    <2>4. x.pc = "transact" /\ x.op \in Acquisitions /\ t.op \in Acquisitions
            => x.lease.id # t.lease.id
      BY <2>2, <2>3
    <2>5. CallOK(m, x)'
      BY <1>6, <2>1, <2>2, <2>4
    <2> QED BY <2>2, <2>5
  <1>9. UniqueInv'
    BY DEF IInv, UniqueInv
  <1> QED BY <1>1, <1>2, <1>7, <1>8, <1>9 DEF IInv

LEMMA InstalledType ==
    ASSUME installs \in Seq(Leases), NEW i \in 1..Len(installs)
    PROVE  /\ installs[i] \in Leases /\ installs[i].id \in Nat \ {0}
           /\ installs[i].owner \in Owners /\ installs[i].epoch \in Nat
  <1>1. installs[i] \in Leases
    OBVIOUS
  <1> QED BY <1>1 DEF Leases

(* A new lease: no transaction, installation or refusal knows its id.      *)
LEMMA GrantInv ==
    ASSUME IInv, NEW n \in Owners, Grant(n) PROVE IInv'
  <1> DEFINE b == call[n]
             epoch == IF b.op = "reacquire" THEN b.seen.epoch ELSE b.seen.epoch + 1
             lease == [owner |-> n, epoch |-> epoch, id |-> grants']
  <1>0. /\ record \in Records /\ revision \in Nat /\ grants \in 0..MaxGrants
        /\ installs \in Seq(Leases) /\ grants \in Nat /\ MaxGrants \in Nat
    BY EtcdBounds DEF IInv, TypeInv
  <1>1. b # None /\ b \in Calls /\ CallOK(n, b) /\ b.pc = "grant"
    BY CallFacts DEF Grant
  <1>2. b.op \in Acquisitions /\ AcquisitionOK(n, b)
    BY <1>1 DEF CallOK, MutationOK
  <1>3. /\ b.seen \in Records /\ b.rev \in Nat /\ b.rev <= revision
        /\ revision = b.rev => record = b.seen
        /\ (b.op = "acquire") = (b.seen.epoch = 0)
        /\ b.root \in Roots /\ b.place # None /\ b.place.lifecycle # "Retired"
    BY <1>1, <1>2 DEF AcquisitionOK, Calls
  <1>4. /\ grants < MaxGrants /\ grants' = grants + 1
        /\ UNCHANGED <<record, revision, session, placement, installs, served,
                       late, refused, returned>>
    BY DEF Grant
  <1>5. lease \in Leases /\ lease.id = grants' /\ lease.owner = n /\ lease.epoch = epoch
    BY <1>0, <1>3, <1>4, SMTT(60) DEF Leases, Records, Control!Records
  <1>6. ASSUME NEW x, TransactionOK(x) PROVE TransactionOK(x)'
    <2>1. x.op \in Acquisitions => x.lease.id \in Nat
      BY <1>6 DEF TransactionOK, Leases
    <2> QED BY <1>0, <1>4, <1>6, <2>1 DEF TransactionOK, Installed
  <1>7. ASSUME NEW x, NEW m \in Owners, CallOK(m, x) PROVE CallOK(m, x)'
    BY <1>4, <1>6, <1>7 DEF CallOK, AcquisitionOK, MutationOK, Installed
  <1>8. LateInv'
    BY <1>4, <1>6 DEF IInv, LateInv
  <1>9. LedgerInv'
    <2>1. \A i \in 1..Len(installs) : installs[i].id \in Nat
      BY <1>0, InstalledType
    <2>2. \A i \in 1..Len(installs) : installs[i].id <= grants'
      BY <1>0, <1>4, <2>1 DEF IInv, LedgerInv
    <2>3. \A id \in refused : id \in 1..grants'
      BY <1>0, <1>4 DEF IInv, LedgerInv
    <2> QED BY <1>4, <2>2, <2>3 DEF IInv, LedgerInv, Installed
  \* Nothing that is known has the new id.
  <1>10. /\ \A i \in 1..Len(installs) : installs[i].id # grants'
         /\ grants' \notin refused
         /\ \A t \in late : t.op \in Acquisitions => t.lease.id # grants'
         /\ \A m \in Owners : Installing(m) => call[m].lease.id # grants'
    <2>1. \A i \in 1..Len(installs) : installs[i].id <= grants /\ installs[i].id \in Nat
      BY <1>0, InstalledType DEF IInv, LedgerInv
    <2>2. \A id \in refused : id \in 1..grants
      BY DEF IInv, LedgerInv
    <2>3. \A t \in late : t.op \in Acquisitions =>
            t.lease.id <= grants /\ t.lease.id \in Nat
      BY DEF IInv, LateInv, TransactionOK, Leases
    <2>4. \A m \in Owners : Installing(m) =>
            call[m].lease.id <= grants /\ call[m].lease.id \in Nat
      BY DEF IInv, CallInv, Installing, CallOK, TransactionOK, Leases
    <2> QED BY <1>0, <1>4, <2>1, <2>2, <2>3, <2>4
  \* The call that goes on, to its transaction or to give the lease back.
  <1>11. ASSUME NEW c \in Calls, call' = [call EXCEPT ![n] = c], CallOK(n, c)',
                c.pc = "transact" => c.lease.id = grants'
         PROVE  IInv'
    <2>1. \A m \in Owners : call'[m] = IF m = n THEN c ELSE call[m]
      BY <1>11 DEF IInv, TypeInv
    <2>2. TypeInv'
      BY <1>0, <1>4, <1>11 DEF IInv, TypeInv
    <2>3. ASSUME NEW m \in Owners, call'[m] # None PROVE CallOK(m, call[m])'
      <3>1. CASE m = n
        BY <1>11, <2>1, <3>1
      <3>2. CASE m # n
        <4>1. call[m] # None /\ call'[m] = call[m]
          BY <2>1, <2>3, <3>2
        <4>2. PICK x \in Calls : x = call[m]
          BY <4>1, CallFacts
        <4>3. CallOK(m, x)'
          BY <1>7, <4>1, <4>2, CallFacts
        <4> QED BY <4>1, <4>2, <4>3
      <3> QED BY <3>1, <3>2
    <2>4. CallInv'
      BY <2>3 DEF CallInv
    <2>5. \A m \in Owners : Installing(m)' =>
            \/ m = n /\ call'[m].lease.id = grants'
            \/ m # n /\ Installing(m) /\ call'[m] = call[m]
      BY <1>11, <2>1 DEF Installing
    <2>6. UniqueInv'
      <3>1. \A t, u \in late' : t.op \in Acquisitions /\ u.op \in Acquisitions
                               /\ t.lease.id = u.lease.id => t = u
        BY <1>4 DEF IInv, UniqueInv
      <3>2. \A m \in Owners : \A t \in late' :
              Installing(m)' /\ t.op \in Acquisitions => t.lease.id # call'[m].lease.id
        BY <1>4, <1>10, <2>5 DEF IInv, UniqueInv
      <3>3. \A k, m \in Owners :
              Installing(k)' /\ Installing(m)' /\ call'[k].lease.id = call'[m].lease.id
              => k = m
        BY <1>10, <2>5 DEF IInv, UniqueInv
      <3> QED BY <3>1, <3>2, <3>3 DEF UniqueInv
    <2> QED BY <1>8, <1>9, <2>2, <2>4, <2>6 DEF IInv
  <1>12. CASE call' = [call EXCEPT ![n] =
                        [b EXCEPT !.lease = lease, !.seen = None, !.pc = "revoke"]]
    <2> DEFINE c == [b EXCEPT !.lease = lease, !.seen = None, !.pc = "revoke"]
    <2> HIDE DEF lease
    <2>1. c \in Calls
      BY <1>1, <1>5, ZenonT(60) DEF Calls, Points
    <2>2. c.op = b.op /\ c.pc = "revoke" /\ c.lease = lease /\ c.root = b.root /\ c.place = b.place
      BY <1>1 DEF Calls
    <2>3. PICK x \in Calls : x = c
      BY <2>1
    <2>4. CallOK(n, x)'
      BY <1>2, <1>3, <1>5, <2>2, <2>3 DEF CallOK, AcquisitionOK
    <2> QED BY <1>11, <1>12, <2>2, <2>3, <2>4
  <1>13. ASSUME NEW next \in AcquisitionPrepared(b.op, b.seen, n, grants'),
                call' = [call EXCEPT ![n] =
                   [b EXCEPT !.lease = lease, !.seen = None, !.next = next,
                             !.pc = "transact"]]
         PROVE  IInv'
    <2> DEFINE c == [b EXCEPT !.lease = lease, !.seen = None, !.next = next,
                              !.pc = "transact"]
    <2>1. Makes(b.op, lease, b.seen, next)
      <3>1. /\ next = IF b.op = "reacquire" THEN Reacquired(b.seen, n, grants')
                                            ELSE Acquired(b.seen, n, grants')
            /\ b.op # "acquire" => (b.op = "reacquire") = (b.seen.state = "Recovering")
            /\ ValidRecord(next)
        BY <1>13 DEF AcquisitionPrepared
      <3>2. b.op \in {"acquire", "successor", "reacquire"}
        BY <1>2 DEF Acquisitions
      <3> HIDE DEF lease
      <3> QED BY <1>3, <1>5, <3>1, <3>2 DEF Makes
    <2>2. next \in Records
      <3> HIDE DEF lease
      <3>1. PICK op \in Acquisitions, old \in Records : op = b.op /\ old = b.seen
        BY <1>2, <1>3
      <3> QED BY <1>5, <2>1, <3>1, MakesType
    <2> HIDE DEF lease
    <2>3. c \in Calls
      BY <1>1, <1>5, <2>2, ZenonT(60) DEF Calls, Points
    <2>4. /\ c.op = b.op /\ c.pc = "transact" /\ c.lease = lease /\ c.root = b.root
          /\ c.place = b.place /\ c.rev = b.rev /\ c.next = next
      BY <1>1 DEF Calls
    <2>5. PICK x \in Calls : x = c
      BY <2>3
    <2>6. /\ x.op = b.op /\ x.pc = "transact" /\ x.lease = lease /\ x.root = b.root
          /\ x.place = b.place /\ x.rev = b.rev /\ x.next = next
      BY <2>4, <2>5
    <2>7. revision = x.rev => Makes(x.op, x.lease, record, x.next)
      BY <1>3, <2>1, <2>6
    <2>8. TransactionOK(x)'
      BY <1>0, <1>2, <1>3, <1>4, <1>5, <1>10, <2>6, <2>7 DEF TransactionOK
    <2>9. CallOK(n, x)'
      BY <1>2, <1>3, <2>6, <2>8 DEF CallOK, AcquisitionOK
    <2> QED BY <1>5, <1>11, <1>13, <2>5, <2>6, <2>9
  <1> QED BY <1>12, <1>13 DEF Grant, Continue

(* Where a call goes after a transaction that did not succeed.             *)
LEMMA AfterFailureOK ==
    ASSUME IInv, NEW n \in Owners, NEW t \in Calls, CallOK(n, t), t.pc = "transact"
    PROVE  /\ [t EXCEPT !.pc = AfterFailure(t.op)] \in Calls
           /\ [t EXCEPT !.pc = AfterFailure(t.op)].pc \notin {"transact", "ok"}
           /\ CallOK(n, [t EXCEPT !.pc = AfterFailure(t.op)])
  <1> DEFINE pc == AfterFailure(t.op)
             c == [t EXCEPT !.pc = pc]
  <1>1. /\ pc \in {"visible", "sessionlessAgain", "classify"}
        /\ pc = "visible" <=> t.op \in Acquisitions
        /\ pc = "sessionlessAgain" => t.op = "suspend"
    BY DEF AfterFailure, Acquisitions
  <1> HIDE DEF pc
  <1>2. c \in Calls
    BY <1>1 DEF Calls, Points
  <1>3. /\ c.op = t.op /\ c.pc = pc /\ c.lease = t.lease /\ c.root = t.root
        /\ c.place = t.place /\ c.rev = t.rev /\ c.next = t.next
    BY DEF Calls
  <1>4. TransactionOK(t)
    BY DEF CallOK
  <1>5. t.op = "suspend" => t.rev <= revision /\ (revision = t.rev => record = t.next)
    <2> SUFFICES ASSUME t.op = "suspend", revision = t.rev PROVE record = t.next
      BY <1>4 DEF TransactionOK
    <2>1. Makes("suspend", t.lease, record, t.next)
      BY <1>4 DEF TransactionOK
    <2>2. t.next \in Prepared("suspend", record)
      BY <2>1 DEF Makes
    <2> QED BY <2>2 DEF Prepared
  <1> HIDE DEF c
  <1>6. t.op \in Acquisitions => CallOK(n, c)
    BY <1>1, <1>3, <1>4 DEF CallOK, AcquisitionOK, TransactionOK
  <1>7. t.op \notin Acquisitions => CallOK(n, c)
    BY <1>1, <1>3, <1>4, <1>5 DEF CallOK, MutationOK
  <1> QED BY <1>1, <1>2, <1>3, <1>6, <1>7 DEF c, pc

(* The reply of a transaction arrives.                                     *)
LEMMA TransactInv ==
    ASSUME IInv, NEW n \in Owners, Transact(n) PROVE IInv'
  <1>0. call[n] # None /\ call[n] \in Calls /\ CallOK(n, call[n])
    BY CallFacts DEF Transact
  <1>1. PICK t \in Calls : t = call[n]
    BY <1>0
  <1>2. /\ t # None /\ t.pc = "transact" /\ CallOK(n, t) /\ TransactionOK(t)
    BY <1>0, <1>1 DEF Transact, CallOK
  <1>3. /\ Apply(t) /\ UNCHANGED <<grants, late>>
    BY <1>1 DEF Transact
  <1>4. \A lease \in returned : Installed(lease)
    BY DEF IInv, LedgerInv
  <1>5. CASE Applies(t)
    <2> DEFINE c == [t EXCEPT !.met = TRUE, !.pc = "ok"]
    <2>1. /\ call' = [call EXCEPT ![n] = c] /\ refused' = refused
          /\ returned' = IF t.op \in Acquisitions THEN returned \cup {t.lease}
                         ELSE returned
      BY <1>1, <1>5 DEF Transact, Continue
    <2>2. c \in Calls /\ c.op = t.op /\ c.pc = "ok" /\ c.met = TRUE /\ c.lease = t.lease
          /\ c.root = t.root /\ c.place = t.place
      BY ZenonT(60) DEF Calls, Points
    <2>3. PICK x \in Calls : x = c
      BY <2>2
    <2>4. Installed(t.lease)'
      BY <1>2, <1>3, <1>5, <2>1, ApplyLedger
    <2>5. CallOK(n, x)'
      BY <1>2, <2>2, <2>3, <2>4 DEF CallOK, AcquisitionOK, MutationOK, TransactionOK
    <2> HIDE DEF c
    <2>6. \A m \in Owners : call'[m] = IF m = n THEN x ELSE call[m]
      BY <2>1, <2>3 DEF IInv, TypeInv
    <2>7. call' \in [Owners -> {None} \cup Calls]
      BY <2>1, <2>2 DEF IInv, TypeInv
    <2>8. \A u \in late' : t.op \in Acquisitions /\ u.op \in Acquisitions
                           => u.lease.id # t.lease.id
      BY <1>1, <1>2, <1>3 DEF IInv, UniqueInv, Installing
    <2>9. \A m \in Owners : Installing(m)' =>
            /\ Installing(m) /\ call'[m] = call[m]
            /\ t.op \in Acquisitions => call[m].lease.id # t.lease.id
      <3> SUFFICES ASSUME NEW m \in Owners, Installing(m)'
                   PROVE  /\ Installing(m) /\ call'[m] = call[m]
                          /\ t.op \in Acquisitions => call[m].lease.id # t.lease.id
        OBVIOUS
      <3>1. m # n /\ call'[m] = call[m]
        BY <2>2, <2>3, <2>6 DEF Installing
      <3>2. Installing(m)
        BY <3>1 DEF Installing
      <3>3. t.op \in Acquisitions => Installing(n)
        BY <1>1, <1>2 DEF Installing
      <3> QED BY <1>1, <3>1, <3>2, <3>3 DEF IInv, UniqueInv
    <2>10. \A m \in Owners : call'[m] # None =>
             call'[m] = call[m] \/ CallOK(m, call[m])'
      BY <2>5, <2>6
    <2> QED BY <1>2, <1>3, <1>5, <2>1, <2>7, <2>8, <2>9, <2>10, ApplyInv
  <1>6. CASE ~Applies(t) /\ (Compares(t) \/ t.op \notin Acquisitions)
    <2>1. /\ call' = [call EXCEPT ![n] = [t EXCEPT !.pc = AfterFailure(t.op)]]
          /\ UNCHANGED <<refused, returned>>
      BY <1>1, <1>6 DEF Transact, Continue
    <2>2. UNCHANGED etcd
      BY <1>3, <1>6 DEF Apply
    <2> DEFINE c == [t EXCEPT !.pc = AfterFailure(t.op)]
    <2>3. c \in Calls /\ CallOK(n, c) /\ c.pc # "transact"
      BY <1>2, AfterFailureOK
    <2> HIDE DEF c
    <2> QED BY <1>3, <1>4, <2>1, <2>2, <2>3, QuietStep DEF c
  <1>7. CASE ~Applies(t) /\ ~Compares(t) /\ t.op \in Acquisitions
    <2> DEFINE c == [t EXCEPT !.pc = "revoke"]
    <2>1. /\ call' = [call EXCEPT ![n] = c] /\ refused' = refused \cup {t.lease.id}
          /\ returned' = returned
      BY <1>1, <1>7 DEF Transact, Continue
    <2>2. UNCHANGED etcd
      BY <1>3, <1>7 DEF Apply
    <2>3. c \in Calls /\ c.op = t.op /\ c.pc = "revoke" /\ c.lease = t.lease
          /\ c.root = t.root /\ c.place = t.place
      BY DEF Calls, Points
    <2> HIDE DEF c
    <2>4. PICK x \in Calls : x = c
      BY <2>3
    <2>5. \A m \in Owners : call'[m] = IF m = n THEN x ELSE call[m]
      BY <2>1, <2>4 DEF IInv, TypeInv
    <2>6. /\ t.lease.id \in 1..grants
          /\ \A i \in 1..Len(installs) : installs[i].id # t.lease.id
      BY <1>2, <1>7 DEF TransactionOK, Leases, IInv, TypeInv
    <2>7. Installing(n)
      BY <1>1, <1>2, <1>7 DEF Installing
    <2>8. ASSUME NEW y, TransactionOK(y),
                 y.op \in Acquisitions => y.lease.id # t.lease.id
          PROVE  TransactionOK(y)'
      BY <1>3, <2>1, <2>2, <2>8 DEF TransactionOK, Installed, etcd
    <2>9. TypeInv'
      BY <1>3, <2>1, <2>2, <2>3 DEF IInv, TypeInv, etcd
    <2>10. LedgerInv'
      BY <1>3, <2>1, <2>2, <2>6 DEF IInv, LedgerInv, Installed, etcd
    <2>11. LateInv'
      BY <1>1, <1>3, <2>7, <2>8 DEF IInv, LateInv, UniqueInv
    <2>12. ASSUME NEW m \in Owners, call'[m] # None PROVE CallOK(m, call[m])'
      <3>1. CASE m = n
        <4>1. CallOK(n, x)'
          BY <1>2, <1>7, <2>3, <2>4 DEF CallOK, AcquisitionOK, TransactionOK
        <4> QED BY <2>5, <3>1, <4>1
      <3>2. CASE m # n
        <4>1. call'[m] = call[m] /\ call[m] \in Calls /\ CallOK(m, call[m])
          BY <2>5, <2>12, <3>2, CallFacts
        <4>2. PICK y \in Calls : y = call[m]
          BY <4>1
        <4>3. y.pc = "transact" => TransactionOK(y)'
          <5> SUFFICES ASSUME y.pc = "transact" PROVE TransactionOK(y)'
            OBVIOUS
          <5>1. TransactionOK(y)
            BY <4>1, <4>2 DEF CallOK
          <5>2. y.op \in Acquisitions => Installing(m)
            BY <2>12, <4>1, <4>2 DEF Installing
          <5>3. y.op \in Acquisitions => y.lease.id # t.lease.id
            BY <1>1, <2>7, <3>2, <4>2, <5>2 DEF IInv, UniqueInv
          <5> QED BY <2>8, <5>1, <5>3
        <4>4. CallOK(m, y)'
          BY <2>2, <4>1, <4>2, <4>3
             DEF CallOK, AcquisitionOK, MutationOK, Installed, etcd
        <4> QED BY <4>1, <4>2, <4>4
      <3> QED BY <3>1, <3>2
    <2>13. CallInv'
      BY <2>12 DEF CallInv
    <2>14. \A m \in Owners : Installing(m)' => Installing(m) /\ call'[m] = call[m]
      BY <2>3, <2>4, <2>5 DEF Installing
    <2>15. UniqueInv'
      BY <1>3, <2>14 DEF IInv, UniqueInv
    <2> QED BY <2>9, <2>10, <2>11, <2>13, <2>15 DEF IInv
  <1> QED BY <1>5, <1>6, <1>7

(* The reply is lost: the transaction stays outstanding without a caller.  *)
LEMMA LoseReplyInv ==
    ASSUME IInv, NEW n \in Owners, LoseReply(n) PROVE IInv'
  <1>0. call[n] # None /\ call[n] \in Calls /\ CallOK(n, call[n])
    BY CallFacts DEF LoseReply
  <1>1. PICK t \in Calls : t = call[n]
    BY <1>0
  <1>2. /\ t # None /\ t.pc = "transact" /\ CallOK(n, t) /\ TransactionOK(t)
    BY <1>0, <1>1 DEF LoseReply, CallOK
  <1>3. /\ UNCHANGED <<etcd, grants, refused, returned>>
        /\ late' = late \cup {[t EXCEPT !.met = FALSE]}
        /\ call' = [call EXCEPT ![n] = [t EXCEPT !.pc = AfterFailure(t.op)]]
    BY <1>1 DEF LoseReply, Continue
  <1>4. PICK c \in Calls : c = [t EXCEPT !.pc = AfterFailure(t.op)]
    BY <1>2, AfterFailureOK
  <1>5. CallOK(n, c) /\ c.pc # "transact"
    BY <1>2, <1>4, AfterFailureOK
  <1>6. PICK u \in Calls : u = [t EXCEPT !.met = FALSE]
    BY DEF Calls
  <1>7. /\ u.op = t.op /\ u.pc = "transact" /\ u.lease = t.lease /\ u.rev = t.rev
        /\ u.next = t.next /\ u.root = t.root /\ u.place = t.place
    BY <1>2, <1>6 DEF Calls
  <1>8. TransactionOK(u)
    BY <1>2, <1>7 DEF TransactionOK
  <1>9. ASSUME NEW x, TransactionOK(x) PROVE TransactionOK(x)'
    BY <1>3, <1>9 DEF TransactionOK, Installed, etcd
  <1>10. ASSUME NEW x, NEW m \in Owners, CallOK(m, x) PROVE CallOK(m, x)'
    BY <1>3, <1>9, <1>10 DEF CallOK, AcquisitionOK, MutationOK, Installed, etcd
  <1>11. \A m \in Owners : call'[m] = IF m = n THEN c ELSE call[m]
    BY <1>3, <1>4 DEF IInv, TypeInv
  <1>12. TypeInv'
    BY <1>3, <1>4, <1>6 DEF IInv, TypeInv, etcd
  <1>13. LedgerInv'
    BY <1>3 DEF IInv, LedgerInv, Installed, etcd
  <1>14. LateInv'
    BY <1>3, <1>6, <1>7, <1>8, <1>9 DEF IInv, LateInv
  <1>15. CallInv'
    BY <1>5, <1>10, <1>11 DEF IInv, CallInv
  <1>16. \A m \in Owners : Installing(m)' => m # n /\ Installing(m) /\ call'[m] = call[m]
    BY <1>5, <1>11 DEF Installing
  <1>17. t.op \in Acquisitions => Installing(n)
    BY <1>1, <1>2 DEF Installing
  <1>18. late' = late \cup {u}
    BY <1>3, <1>6
  <1>19. /\ \A v \in late : u.op \in Acquisitions /\ v.op \in Acquisitions
                            => v.lease.id # u.lease.id
         /\ \A m \in Owners : m # n /\ Installing(m) /\ u.op \in Acquisitions
                              => call[m].lease.id # u.lease.id
    BY <1>1, <1>7, <1>17 DEF IInv, UniqueInv
  <1>20. UniqueInv'
    BY <1>16, <1>18, <1>19 DEF IInv, UniqueInv
  <1> QED BY <1>12, <1>13, <1>14, <1>15, <1>20 DEF IInv

(* A transaction reaches etcd after its caller has gone.                   *)
LEMMA LateTransactInv ==
    ASSUME IInv, NEW t \in late, LateTransact(t) PROVE IInv'
  <1>1. t \in Calls /\ t.pc = "transact" /\ TransactionOK(t)
    BY DEF IInv, TypeInv, LateInv
  <1>2. /\ late' = late \ {t} /\ Apply(t) /\ UNCHANGED <<grants, call, refused, returned>>
    BY DEF LateTransact
  <1>3. \A m \in Owners : Installing(m)' => Installing(m) /\ call'[m] = call[m]
    BY <1>2 DEF Installing
  <1>4. CASE Applies(t)
    <2>1. call' \in [Owners -> {None} \cup Calls]
      BY <1>2 DEF IInv, TypeInv
    <2>2. \A u \in late' : t.op \in Acquisitions /\ u.op \in Acquisitions
                           => u.lease.id # t.lease.id
      BY <1>2 DEF IInv, UniqueInv
    <2>3. \A m \in Owners : Installing(m) /\ t.op \in Acquisitions
                            => call[m].lease.id # t.lease.id
      BY DEF IInv, UniqueInv
    <2>4. \A m \in Owners : call'[m] = call[m]
      BY <1>2
    <2> QED BY <1>1, <1>2, <1>3, <1>4, <2>1, <2>2, <2>3, <2>4, ApplyInv
  <1>5. CASE ~Applies(t)
    <2>1. UNCHANGED etcd
      BY <1>2, <1>5 DEF Apply
    <2>2. TypeInv'
      BY <1>2, <2>1 DEF IInv, TypeInv, etcd
    <2>3. LedgerInv'
      BY <1>2, <2>1 DEF IInv, LedgerInv, Installed, etcd
    <2>4. LateInv'
      BY <1>2, <2>1 DEF IInv, LateInv, TransactionOK, Installed, etcd
    <2>5. CallInv'
      BY <1>2, <2>1 DEF IInv, CallInv, CallOK, AcquisitionOK, MutationOK,
                        TransactionOK, Installed, etcd
    <2>6. UniqueInv'
      BY <1>2, <1>3 DEF IInv, UniqueInv
    <2> QED BY <2>2, <2>3, <2>4, <2>5, <2>6 DEF IInv
  <1> QED BY <1>4, <1>5

(* A lease ends, with the session attached to it.                          *)
LEMMA EndLeaseInv ==
    ASSUME IInv, NEW id, EndLease(id), UNCHANGED <<grants, late, refused, returned>>,
           call' = call \/ \E n \in Owners : Finish(n)
    PROVE  IInv'
  <1>0. revision \in Nat
    BY DEF IInv, TypeInv
  <1>1. /\ session' \in {session, None}
        /\ UNCHANGED <<record, revision, placement, installs, served>>
    BY DEF EndLease
  <1>2. \A m \in Owners : call'[m] \in {call[m], None}
    BY DEF Finish, Continue, IInv, TypeInv
  <1>3. ASSUME NEW x \in Calls, NEW m \in Owners
        PROVE  /\ x.pc = "transact" /\ TransactionOK(x) => TransactionOK(x)'
               /\ CallOK(m, x) => CallOK(m, x)'
    <2>1. \A lease : Installed(lease) => Installed(lease)'
      BY <1>1 DEF Installed
    <2>2. revision' \in Nat /\ revision' = revision /\ record' = record
          /\ installs' = installs
      BY <1>0, <1>1
    <2> QED BY <1>1, <2>1, <2>2, OthersKept
  <1>4. TypeInv'
    <2>1. call' \in [Owners -> {None} \cup Calls]
      BY DEF Finish, Continue, IInv, TypeInv
    <2> QED BY <1>1, <2>1 DEF IInv, TypeInv
  <1>5. LedgerInv'
    BY <1>1 DEF IInv, LedgerInv, Installed
  <1>6. LateInv'
    <2> SUFFICES ASSUME NEW t \in late' PROVE t.pc = "transact" /\ TransactionOK(t)'
      BY DEF LateInv
    <2>1. t \in Calls /\ t.pc = "transact" /\ TransactionOK(t)
      BY DEF IInv, TypeInv, LateInv
    <2>2. t.lease.owner \in Owners
      BY <2>1 DEF TransactionOK, Leases
    <2> QED BY <1>3, <2>1, <2>2
  <1>7. CallInv'
    <2> SUFFICES ASSUME NEW m \in Owners, call'[m] # None PROVE CallOK(m, call[m])'
      BY DEF CallInv
    <2>1. call'[m] = call[m] /\ call[m] \in Calls /\ CallOK(m, call[m])
      BY <1>2, CallFacts
    <2>2. PICK x \in Calls : x = call[m]
      BY <2>1
    <2>3. CallOK(m, x)'
      BY <1>3, <2>1, <2>2
    <2> QED BY <2>1, <2>2, <2>3
  <1>8. \A m \in Owners : Installing(m)' => Installing(m) /\ call'[m] = call[m]
    BY <1>2 DEF Installing
  <1>9. UniqueInv'
    BY <1>8 DEF IInv, UniqueInv
  <1> QED BY <1>4, <1>5, <1>6, <1>7, <1>9 DEF IInv

(* Placements are independent of ownership.                                *)
LEMMA PlacementInv ==
    ASSUME IInv, NEW r \in Roots,
           \/ CreateRootPlacement(r)
           \/ \E lifecycle \in Control!Lifecycles : CompareAndSetRootPlacement(r, lifecycle)
    PROVE  IInv'
  <1>1. UNCHANGED <<record, revision, session, installs, served, grants, call, late,
                    refused, returned>>
    BY DEF CreateRootPlacement, CompareAndSetRootPlacement, SetPlacement
  <1>2. placement' \in [Roots -> {None} \cup Control!Placements]
    <2>1. CASE CreateRootPlacement(r)
      BY <2>1 DEF CreateRootPlacement, SetPlacement, IInv, TypeInv,
                  Control!Placements, Control!Lifecycles
    <2>2. ASSUME NEW lifecycle \in Control!Lifecycles,
                 CompareAndSetRootPlacement(r, lifecycle)
          PROVE  placement' \in [Roots -> {None} \cup Control!Placements]
      BY <2>2 DEF CompareAndSetRootPlacement, SetPlacement, IInv, TypeInv,
                  Control!Placements
    <2> QED BY <2>1, <2>2
  <1>3. TypeInv'
    BY <1>1, <1>2 DEF IInv, TypeInv
  <1>4. LedgerInv' /\ UniqueInv'
    BY <1>1 DEF IInv, LedgerInv, UniqueInv, Installed, Installing
  <1>5. LateInv'
    BY <1>1 DEF IInv, LateInv, TransactionOK, Installed
  <1>6. CallInv'
    BY <1>1 DEF IInv, CallInv, CallOK, AcquisitionOK, MutationOK, TransactionOK,
                Installed
  <1> QED BY <1>3, <1>4, <1>5, <1>6 DEF IInv

LEMMA InitInv == Init => IInv
  <1> SUFFICES ASSUME Init PROVE IInv
    OBVIOUS
  <1>1. <<>> \in Control!Logs
    <2>1. <<>> \in [1..0 -> Control!Segments]
      OBVIOUS
    <2> QED BY <2>1, MaxSegmentsAssumption DEF Control!Logs
  <1>2. record \in Records
    BY <1>1, EtcdBounds DEF Init, Unassigned, Records, Control!Records
  <1>3. ValidRecord(record)
    BY DEF Init, ValidRecord, ValidSettled, Unassigned, ReferenceLsn,
           CheckpointLsn, LogLsn
  <1>4. TypeInv
    BY <1>2, EtcdBounds DEF Init, TypeInv
  <1>5. LedgerInv
    BY <1>3 DEF Init, LedgerInv, Unassigned
  <1> QED BY <1>4, <1>5 DEF Init, IInv, CallInv, LateInv, UniqueInv, Installing

LEMMA StepInv == IInv /\ [Next]_vars => IInv'
  <1> SUFFICES ASSUME IInv, [Next]_vars PROVE IInv'
    OBVIOUS
  <1>1. ASSUME NEW n \in Owners, Step(n) PROVE IInv'
    <2>1. CASE Revoke(n)
      <3>1. EndLease(call[n].lease.id) /\ Finish(n) /\ UNCHANGED <<grants, late, refused, returned>>
        BY <2>1 DEF Revoke
      <3> QED BY <3>1, EndLeaseInv
    <2> QED BY <1>1, <2>1, BeginInv, FetchInv, GrantInv, ReadSessionInv,
               TransactInv, LoseReplyInv, ClassifyInv DEF Step
  <1>2. ASSUME NEW t \in late, LateTransact(t) PROVE IInv'
    BY <1>2, LateTransactInv
  <1>3. ASSUME NEW id \in leases, LeaseExpires(id) PROVE IInv'
    BY <1>3, EndLeaseInv DEF LeaseExpires
  <1>4. ASSUME NEW r \in Roots,
               \/ CreateRootPlacement(r)
               \/ \E lifecycle \in Control!Lifecycles :
                    CompareAndSetRootPlacement(r, lifecycle)
        PROVE  IInv'
    BY <1>4, PlacementInv
  <1>5. CASE UNCHANGED vars
    <2>1. UNCHANGED <<record, revision, session, placement, installs, served,
                      grants, call, late, refused, returned>>
      BY <1>5 DEF vars, etcd
    <2>2. TypeInv' /\ LedgerInv' /\ UniqueInv'
      BY <2>1 DEF IInv, TypeInv, LedgerInv, UniqueInv, Installed, Installing
    <2>3. LateInv'
      BY <2>1 DEF IInv, LateInv, TransactionOK, Installed
    <2>4. CallInv'
      BY <2>1 DEF IInv, CallInv, CallOK, AcquisitionOK, MutationOK, TransactionOK,
                  Installed
    <2> QED BY <2>2, <2>3, <2>4 DEF IInv
  <1> QED BY <1>1, <1>2, <1>3, <1>4, <1>5 DEF Next

LEMMA Invariance == Spec => []IInv
  BY InitInv, StepInv, PTL DEF Spec

(* Whatever replies are lost and however late a transaction commits, the   *)
(* lease of a caller that was told it lost the race is never installed.    *)
THEOREM RefusalsStand == Spec => []RefusedNeverInstalled
  <1>1. IInv => RefusedNeverInstalled
    BY DEF IInv, LedgerInv, RefusedNeverInstalled
  <1> QED BY Invariance, <1>1, PTL

(* Every positive answer is true, also when it was found out by reading    *)
(* after a transaction whose reply was lost.                               *)
THEOREM AnswersTrue == Spec => []AnswersAreTrue
  <1>1. IInv => AnswersAreTrue
    <2> SUFFICES ASSUME IInv, NEW n \in Owners, call[n] # None, call[n].pc = "ok"
                 PROVE  IF call[n].op \in Acquisitions
                        THEN \E i \in 1..Len(installs) : installs[i] = call[n].lease
                        ELSE call[n].met
      BY DEF AnswersAreTrue
    <2>1. CallOK(n, call[n])
      BY CallFacts
    <2> QED BY <2>1 DEF CallOK, AcquisitionOK, MutationOK, Installed
  <1> QED BY Invariance, <1>1, PTL

-----------------------------------------------------------------------------
(* The refinement.                                                         *)

(* The mapping renumbers the lease of a record and nothing else.           *)
Numbered(r, k) == [r EXCEPT !.lease = k]

LEMMA NumberedFields ==
    ASSUME NEW r \in Records, NEW k \in Nat
    PROVE  /\ Numbered(r, k) \in Records
           /\ Numbered(r, k).owner = r.owner /\ Numbered(r, k).epoch = r.epoch
           /\ Numbered(r, k).state = r.state /\ Numbered(r, k).log = r.log
           /\ Numbered(r, k).checkpoint = r.checkpoint
           /\ Numbered(r, k).durable = r.durable
           /\ Numbered(r, k).pending = r.pending
           /\ Numbered(r, k).lease = k
  BY DEF Numbered, Records, Control!Records

(* Whether a record is valid, and what it accepts, does not depend on the  *)
(* number of its lease.                                                    *)
LEMMA NumberedChecks ==
    ASSUME NEW r \in Records, NEW k \in Nat, (k = 0) = (r.lease = 0)
    PROVE  /\ \A pub : PublicationAccepted(Numbered(r, k), pub) = PublicationAccepted(r, pub)
           /\ \A pub : Published(Numbered(r, k), pub) = Numbered(Published(r, pub), k)
           /\ \A i : IntentAccepted(Numbered(r, k), i) = IntentAccepted(r, i)
           /\ ValidRecord(Numbered(r, k)) = ValidRecord(r)
  <1> DEFINE q == Numbered(r, k)
  <1>1. /\ q \in Records /\ q.owner = r.owner /\ q.epoch = r.epoch /\ q.state = r.state
        /\ q.log = r.log /\ q.checkpoint = r.checkpoint /\ q.durable = r.durable
        /\ q.pending = r.pending /\ q.lease = k
    BY NumberedFields
  <1>2. ASSUME NEW pub PROVE Published(q, pub) = Numbered(Published(r, pub), k)
    <2>1. CASE pub.checkpoint = None /\ pub.log = <<>>
      BY <2>1 DEF Published
    <2>2. CASE ~(pub.checkpoint = None /\ pub.log = <<>>)
      <3> DEFINE c == IF pub.checkpoint # None THEN pub.checkpoint ELSE r.checkpoint
                 l == IF pub.log # <<>> THEN pub.log ELSE r.log
                 m == IF c # None /\ LogLsn(l) <= c.lsn THEN <<>> ELSE l
      <3>1. /\ Published(q, pub) =
                 [q EXCEPT !.checkpoint = c, !.log = m, !.durable = pub.durable]
            /\ Published(r, pub) =
                 [r EXCEPT !.checkpoint = c, !.log = m, !.durable = pub.durable]
        BY <1>1, <2>2 DEF Published
      <3> HIDE DEF c, m
      <3>2. [[r EXCEPT !.lease = k] EXCEPT !.checkpoint = c, !.log = m, !.durable = pub.durable]
            = [[r EXCEPT !.checkpoint = c, !.log = m, !.durable = pub.durable] EXCEPT !.lease = k]
        BY DEF Records, Control!Records
      <3> QED BY <3>1, <3>2 DEF Numbered
    <2> QED BY <2>1, <2>2
  <1>3. ASSUME NEW pub
        PROVE  [Published(q, pub) EXCEPT !.pending = None]
                 = Numbered([Published(r, pub) EXCEPT !.pending = None], k)
    <2>1. /\ DOMAIN Published(r, pub) = {"owner", "epoch", "lease", "state",
                "checkpoint", "log", "durable", "pending"}
          /\ Published(r, pub) = [f \in DOMAIN Published(r, pub) |-> Published(r, pub)[f]]
      BY DEF Published, Records, Control!Records
    <2> QED BY <1>2, <2>1 DEF Numbered
  <1> HIDE DEF q
  <1>4. TailDigest(q) = TailDigest(r)
    BY <1>1 DEF TailDigest
  <1>5. \A c, l : ValidLogRef(q, c, l) = ValidLogRef(r, c, l)
    BY <1>1 DEF ValidLogRef
  <1>6. \A pub : PublicationAccepted(q, pub) = PublicationAccepted(r, pub)
    BY <1>1, <1>4, <1>5, ZenonT(60) DEF PublicationAccepted
  <1>7. \A i : IntentAccepted(q, i) = IntentAccepted(r, i)
    BY <1>1, <1>4 DEF IntentAccepted
  <1>8. ASSUME NEW a, NEW b, a.owner = b.owner, a.epoch = b.epoch, a.state = b.state,
               a.log = b.log, a.checkpoint = b.checkpoint, a.durable = b.durable,
               a.pending = b.pending, (a.lease = 0) = (b.lease = 0)
        PROVE  ValidSettled(a) = ValidSettled(b)
    <2>1. ValidLogRef(a, None, a.log) = ValidLogRef(b, None, b.log)
      BY <1>8 DEF ValidLogRef
    <2> QED BY <1>8, <2>1 DEF ValidSettled
  <1>9. ValidSettled(q) = ValidSettled(r)
    BY <1>1, <1>8
  <1>10. \A i : PublicationAfterIntent(q, i) = PublicationAfterIntent(r, i)
    BY <1>1 DEF PublicationAfterIntent
  <1>11. ASSUME NEW pub
         PROVE  ValidSettled([Published(q, pub) EXCEPT !.pending = None])
                  = ValidSettled([Published(r, pub) EXCEPT !.pending = None])
    <2> DEFINE a == [Published(q, pub) EXCEPT !.pending = None]
               b == [Published(r, pub) EXCEPT !.pending = None]
    <2>1. /\ a = [b EXCEPT !.lease = k]
          /\ DOMAIN b = {"owner", "epoch", "lease", "state", "checkpoint", "log",
                         "durable", "pending"}
          /\ b.lease = r.lease
      BY <1>3 DEF Numbered, Published, Records, Control!Records
    <2>2. b = [f \in DOMAIN b |-> b[f]]
      BY DEF Published, Records, Control!Records
    <2> HIDE DEF a, b
    <2>3. /\ a.owner = b.owner /\ a.epoch = b.epoch /\ a.state = b.state
          /\ a.log = b.log /\ a.checkpoint = b.checkpoint /\ a.durable = b.durable
          /\ a.pending = b.pending /\ a.lease = k
      BY <2>1, <2>2
    <2>4. ValidSettled(a) = ValidSettled(b)
      BY <1>8, <2>1, <2>3
    <2> QED BY <2>4 DEF a, b
  <1>12. PendingFinishable(q) = PendingFinishable(r)
    <2> DEFINE pub == PublicationAfterIntent(r, r.pending)
    <2>1. PublicationAfterIntent(q, q.pending) = pub
      BY <1>1, <1>10
    <2>2. /\ IntentAccepted(q, q.pending) = IntentAccepted(r, r.pending)
          /\ PublicationAccepted(q, pub) = PublicationAccepted(r, pub)
          /\ ValidSettled([Published(q, pub) EXCEPT !.pending = None])
               = ValidSettled([Published(r, pub) EXCEPT !.pending = None])
      BY <1>1, <1>6, <1>7, <1>11
    <2> QED BY <2>1, <2>2 DEF PendingFinishable
  <1>13. ValidRecord(q) = ValidRecord(r)
    BY <1>1, <1>9, <1>12 DEF ValidRecord
  <1> QED BY <1>2, <1>6, <1>7, <1>13 DEF q

(* The place of an id in a history of installations.                       *)
RankIn(s, id) == IF id = 0 THEN 0 ELSE CHOOSE i \in 1..Len(s) : s[i].id = id
Distinct(s) == \A i, j \in 1..Len(s) : s[i].id = s[j].id => i = j

LEMMA RankOf ==
    ASSUME NEW s \in Seq(Leases), Distinct(s), NEW i \in 1..Len(s)
    PROVE  RankIn(s, s[i].id) = i
  <1>1. s[i] \in Leases
    OBVIOUS
  <1>2. s[i].id # 0
    BY <1>1 DEF Leases
  <1> DEFINE j == CHOOSE j \in 1..Len(s) : s[j].id = s[i].id
  <1>3. j \in 1..Len(s) /\ s[j].id = s[i].id
    OBVIOUS
  <1>4. j = i
    BY <1>3 DEF Distinct
  <1> QED BY <1>2, <1>4 DEF RankIn

(* No more leases are installed than were granted.                         *)
LEMMA InstallsBounded ==
    ASSUME NEW s \in Seq(Leases), Distinct(s), NEW g \in Nat,
           \A i \in 1..Len(s) : s[i].id <= g
    PROVE  Len(s) <= g
  <1> SUFFICES ASSUME Len(s) > g PROVE FALSE
    OBVIOUS
  <1> DEFINE f == [i \in 1..Len(s) |-> s[i].id]
  <1>1. f \in [1..Len(s) -> 1..g]
    <2>1. \A i \in 1..Len(s) : s[i] \in Leases
      OBVIOUS
    <2>2. \A i \in 1..Len(s) : s[i].id \in Nat \ {0}
      BY <2>1 DEF Leases
    <2> QED BY <2>2
  <1>2. /\ IsFiniteSet(1..Len(s)) /\ Cardinality(1..Len(s)) = Len(s)
        /\ IsFiniteSet(1..g) /\ Cardinality(1..g) = g
    <2>1. \A b \in Nat : IsFiniteSet(1..b) /\ Cardinality(1..b) = b
      <3> TAKE b \in Nat
      <3>1. 1 \in Int /\ b \in Int
        OBVIOUS
      <3>2. IsFiniteSet(1..b) /\ Cardinality(1..b) = IF 1 > b THEN 0 ELSE b - 1 + 1
        BY <3>1, FS_Interval, Zenon
      <3> QED BY <3>2
    <2>2. Len(s) \in Nat
      OBVIOUS
    <2> QED BY <2>1, <2>2
  <1>3. PICK i, j \in 1..Len(s) : i # j /\ f[i] = f[j]
    <2> HIDE DEF f
    <2> QED BY <1>1, <1>2, FS_PigeonHole
  <1> QED BY <1>3 DEF Distinct

(* What the ledger says of the mapping: it is the place in the history.    *)
LEMMA RankFacts ==
    ASSUME IInv
    PROVE  /\ installs \in Seq(Leases) /\ Distinct(installs)
           /\ \A id : Rank(id) = RankIn(installs, id)
           /\ \A i \in 1..Len(installs) :
                /\ Rank(installs[i].id) = i
                /\ Ranked(installs[i]) = [owner |-> installs[i].owner,
                                          epoch |-> installs[i].epoch, id |-> i]
           /\ Rank(record.lease) \in Nat
           /\ (Rank(record.lease) = 0) = (record.lease = 0)
  <1>1. installs \in Seq(Leases) /\ Distinct(installs)
    BY DEF IInv, TypeInv, LedgerInv, Distinct
  <1>2. \A id : Rank(id) = RankIn(installs, id)
    BY DEF Rank, RankIn
  <1>3. ASSUME NEW i \in 1..Len(installs)
        PROVE  /\ Rank(installs[i].id) = i
               /\ Ranked(installs[i]) = [owner |-> installs[i].owner,
                                         epoch |-> installs[i].epoch, id |-> i]
    <2>1. Rank(installs[i].id) = i
      BY <1>1, <1>2, RankOf
    <2>2. installs[i] \in Leases
      BY <1>1
    <2> QED BY <2>1, <2>2 DEF Ranked, Leases
  <1>4. Rank(record.lease) \in Nat /\ (Rank(record.lease) = 0) = (record.lease = 0)
    <2>1. CASE record.lease = 0
      BY <2>1 DEF Rank
    <2>2. CASE record.lease # 0
      <3>1. PICK i \in 1..Len(installs) : installs[i].id = record.lease
        BY <2>2 DEF IInv, LedgerInv
      <3>2. Rank(record.lease) = i
        BY <1>3, <3>1
      <3> QED BY <1>1, <2>2, <3>2
    <2> QED BY <2>1, <2>2
  <1> QED BY <1>1, <1>2, <1>3, <1>4

(* Every lease that was installed keeps its place.                         *)
LEMMA RankKept ==
    ASSUME IInv, IInv', NEW lease, Installed(lease),
           installs' = installs \/ \E l \in Leases : installs' = Append(installs, l)
    PROVE  /\ Ranked(lease)' = Ranked(lease) /\ Rank(lease.id)' = Rank(lease.id)
           /\ \E i \in 1..Len(installs) : Ranked(lease) = Ranked(installs[i])
  <1>1. PICK i \in 1..Len(installs) : installs[i] = lease
    BY DEF Installed
  <1>2. installs \in Seq(Leases)
    BY DEF IInv, TypeInv
  <1>3. i \in 1..Len(installs') /\ installs'[i] = lease
    BY <1>1, <1>2
  <1>4. Rank(lease.id) = i
    BY <1>1, RankFacts
  <1>5. /\ installs' \in Seq(Leases) /\ Distinct(installs')
        /\ Rank(lease.id)' = RankIn(installs', lease.id)
    BY DEF IInv, TypeInv, LedgerInv, Distinct, Rank, RankIn
  <1>6. Rank(lease.id)' = i
    BY <1>3, <1>5, RankOf
  <1> QED BY <1>1, <1>4, <1>6 DEF Ranked

(* Requests that leave the keys alone are not steps of the store.          *)
LEMMA KeysAlone ==
    ASSUME UNCHANGED <<record, session, placement, installs, served>>
    PROVE  UNCHANGED Control!controlVars
  BY DEF Control!controlVars, Rank, Ranked

(* A committed acquisition is an acquisition of the abstract store: a      *)
(* first owner, a successor, or the next attempt of a recovery.            *)
LEMMA InstallStep ==
    ASSUME IInv, IInv', NEW t \in Calls, t.op \in Acquisitions, TransactionOK(t),
           Applies(t), Apply(t), grants' = grants
    PROVE  Control!Acquire
  <1> PICK k : k = Len(installs) + 1
    OBVIOUS
  <1> DEFINE n == t.lease.owner
             old == Numbered(record, Rank(record.lease))
             new == Numbered(t.next, k)
             lease == [owner |-> n, epoch |-> t.lease.epoch, id |-> k]
  <1>1. /\ record \in Records /\ installs \in Seq(Leases) /\ grants \in 0..MaxGrants
        /\ ValidRecord(record) /\ t.lease \in Leases
        /\ \A l \in served : Installed(l)
    BY DEF IInv, TypeInv, LedgerInv, TransactionOK
  <1>2. /\ revision = t.rev /\ session = None /\ placement[t.root] = t.place
        /\ Makes(t.op, t.lease, record, t.next)
        /\ t.root \in Roots /\ t.place # None /\ t.place.lifecycle # "Retired"
    BY DEF Applies, Compares, TransactionOK
  <1>3. /\ record' = t.next /\ session' = t.lease /\ installs' = Append(installs, t.lease)
        /\ served' = served /\ placement' = placement
    BY DEF Apply, Acquisitions
  <1>4. t.next \in Records /\ ValidRecord(t.next) /\ t.next.lease = t.lease.id
    <2>1. PICK op, next : op = t.op /\ next = t.next
      OBVIOUS
    <2>2. Makes(op, t.lease, record, next) /\ op \in Acquisitions
      BY <1>2, <2>1
    <2>3. next \in Records /\ ValidRecord(next) /\ next.lease = t.lease.id
      BY <1>1, <2>2, MakesType
    <2> QED BY <2>1, <2>3
  <1>5. /\ n \in Owners /\ t.lease.id \in Nat \ {0} /\ t.lease # None
        /\ t.lease = [owner |-> n, epoch |-> t.lease.epoch, id |-> t.lease.id]
    BY <1>1, EtcdBounds DEF Leases
  \* The new lease is the last one, and there was room for it.
  <1>6. /\ installs' \in Seq(Leases) /\ Distinct(installs') /\ Len(installs') = k
        /\ installs'[k] = t.lease /\ k \in 1..Len(installs') /\ k \in Nat \ {0}
        /\ \A i \in 1..Len(installs) : installs'[i] = installs[i]
    BY <1>1, <1>3 DEF IInv, TypeInv, LedgerInv, Distinct
  <1>7. Len(installs) < MaxGrants
    <2>1. \A i \in 1..Len(installs') : installs'[i].id <= grants
      BY DEF IInv, LedgerInv
    <2>2. grants \in Nat /\ grants <= MaxGrants /\ MaxGrants \in Nat
      BY <1>1, EtcdBounds
    <2>3. Len(installs') <= grants
      BY <1>6, <2>1, <2>2, InstallsBounded
    <2> QED BY <1>1, <1>6, <2>2, <2>3
  <1>8. Rank(t.lease.id)' = k
    <2>1. RankIn(installs', t.lease.id) = k
      BY <1>6, RankOf
    <2> QED BY <2>1 DEF Rank, RankIn
  <1>9. [record EXCEPT !.lease = Rank(@)]' = new
    BY <1>3, <1>4, <1>8 DEF Numbered
  <1>10. [record EXCEPT !.lease = Rank(@)] = old
    BY DEF Numbered
  <1>11. ValidRecord(old) /\ ValidRecord(new)
    BY <1>1, <1>4, <1>5, <1>6, RankFacts, NumberedChecks
  <1>12. (IF session = None THEN None ELSE Ranked(session))' = lease
    BY <1>3, <1>5, <1>8 DEF Ranked, Leases
  <1>13. /\ new.owner = n /\ new.epoch = t.lease.epoch /\ new.lease = k
    <2>1. t.next.owner = n /\ t.next.epoch = t.lease.epoch
      <3>1. PICK op, next : op = t.op /\ next = t.next
        OBVIOUS
      <3>2. Makes(op, t.lease, record, next) /\ op \in Acquisitions
        BY <1>2, <3>1
      <3>3. NamesLease(next, t.lease)
        BY <1>1, <3>2, MakesType DEF Acquisitions
      <3> QED BY <3>1, <3>3 DEF NamesLease
    <2> QED BY <1>4, <1>6, <2>1, NumberedFields
  <1>14. {Ranked(installs[i]) : i \in 1..Len(installs)}'
           = {Ranked(installs[i]) : i \in 1..Len(installs)} \cup {lease}
    <2>1. ASSUME NEW i \in 1..Len(installs)
          PROVE  Ranked(installs[i])' = Ranked(installs[i])
      <3>1. PICK l \in Leases : l = installs[i]
        BY <1>1
      <3>2. Ranked(l)' = Ranked(l)
        BY <1>1, <1>3, <3>1, RankKept DEF Installed
      <3>3. installs'[i] = l
        BY <1>6, <3>1
      <3> QED BY <3>1, <3>2, <3>3 DEF Ranked
    <2>2. Ranked(installs[k])' = lease
      <3>1. Ranked(installs[k])' = [t.lease EXCEPT !.id = k]
        BY <1>6, <1>8 DEF Ranked
      <3> QED BY <1>5, <3>1
    <2>3. 1..Len(installs') = (1..Len(installs)) \cup {k}
      BY <1>1, <1>6
    <2>4. {Ranked(installs[i]) : i \in 1..Len(installs)}'
            = {Ranked(installs[i])' : i \in (1..Len(installs)) \cup {k}}
      BY <2>3
    <2> QED BY <2>1, <2>2, <2>4
  <1>15. {Ranked(l) : l \in served}' = {Ranked(l) : l \in served}
    <2>1. ASSUME NEW l \in served PROVE Ranked(l)' = Ranked(l)
      BY <1>1, <1>3, RankKept
    <2> QED BY <1>3, <2>1
  <1>16. /\ old.epoch = record.epoch /\ old.owner = record.owner
         /\ old.state = record.state
    BY <1>1, RankFacts, NumberedFields
  \* The abstract step is the one of the operation.
  <1>17. Control!InstallOwner(new)
    <2>1. Control!ValidRecord(old) /\ Control!ValidRecord(new)
      BY <1>11, SameChecks
    <2>2. Control!LeaseOf(new) = lease
      BY <1>13 DEF Control!LeaseOf
    <2> HIDE DEF old, new, lease
    <2> QED BY <1>3, <1>6, <1>9, <1>10, <1>12, <1>14, <1>15, <2>1, <2>2
            DEF Control!InstallOwner
  <1>18. Control!Placed
    BY <1>2 DEF Control!Placed
  <1>19. CASE t.op \in {"acquire", "successor"}
    <2>1. t.next = Acquired(record, n, t.lease.id)
      BY <1>2, <1>19 DEF Makes, Mutations, RecordWrites
    <2>2. new = Control!Acquired(old, n, k)
      BY <1>1, <2>1 DEF Acquired, Control!Acquired, Numbered, Records, Control!Records
    <2>3. t.op = "acquire" => record.epoch = 0 /\ record.owner = None
      BY <1>1, <1>2 DEF Makes, ValidRecord, ValidSettled, Mutations, RecordWrites
    <2>4. t.op = "successor" => record.epoch # 0 /\ record.state # "Recovering"
      BY <1>2 DEF Makes, Mutations, RecordWrites
    <2> HIDE DEF old, new, n
    <2>5. t.op = "acquire" => Control!AcquireOwner(n)
      BY <1>10, <1>16, <1>17, <1>18, <2>2, <2>3 DEF Control!AcquireOwner
    <2>6. t.op = "successor" => Control!AcquireSuccessor(n, [record EXCEPT !.lease = Rank(@)].epoch)
      BY <1>2, <1>10, <1>16, <1>17, <1>18, <2>2, <2>4 DEF Control!AcquireSuccessor
    <2> QED BY <1>5, <1>7, <1>19, <2>5, <2>6 DEF Control!Acquire, n
  <1>20. CASE t.op = "reacquire"
    <2>1. /\ t.next = Reacquired(record, n, t.lease.id)
          /\ record.epoch # 0 /\ record.state = "Recovering"
      BY <1>2, <1>20 DEF Makes, Mutations, RecordWrites
    <2>2. new = Control!Reacquired(old, n, k)
      BY <1>1, <2>1 DEF Reacquired, Control!Reacquired, Numbered, Records, Control!Records
    <2> HIDE DEF old, new, n
    <2>3. Control!ReacquireRecovery(n, [record EXCEPT !.lease = Rank(@)].epoch)
      BY <1>2, <1>10, <1>16, <1>17, <1>18, <2>1, <2>2 DEF Control!ReacquireRecovery
    <2> QED BY <1>5, <1>7, <2>3 DEF Control!Acquire, n
  <1> QED BY <1>19, <1>20 DEF Acquisitions

(* Renumbering commutes with the other changes of a record.                *)
LEMMA NumberedChanges ==
    ASSUME NEW r \in Records, NEW k
    PROVE  /\ \A s : [Numbered(r, k) EXCEPT !.state = s] = Numbered([r EXCEPT !.state = s], k)
           /\ \A i : [Numbered(r, k) EXCEPT !.pending = i] = Numbered([r EXCEPT !.pending = i], k)
  BY DEF Numbered, Records, Control!Records

(* A committed call under a lease is the same call of the abstract store,  *)
(* or a repetition that changes nothing.                                   *)
LEMMA MutationStep ==
    ASSUME IInv, IInv', NEW t \in Calls, t.op \notin Acquisitions, TransactionOK(t),
           Applies(t), Apply(t)
    PROVE  Control!Next \/ UNCHANGED Control!controlVars
  <1> DEFINE granted == {Ranked(installs[i]) : i \in 1..Len(installs)}
  <1> PICK k, lease, old, op, next :
             /\ k = Rank(record.lease) /\ lease = Ranked(t.lease)
             /\ old = Numbered(record, k) /\ op = t.op /\ next = t.next
    OBVIOUS
  <1>1. /\ record \in Records /\ installs \in Seq(Leases) /\ ValidRecord(record)
        /\ t.lease \in Leases /\ Installed(t.lease)
        /\ \A l \in served : Installed(l)
    BY DEF IInv, TypeInv, LedgerInv, TransactionOK
  <1>2. /\ revision = t.rev /\ session = t.lease
        /\ Makes(op, t.lease, record, next)
    BY DEF Applies, Compares, TransactionOK
  <1>3. /\ op \in Mutations \ {"renew"} /\ NamesLease(record, t.lease)
        /\ next \in Prepared(op, record) /\ ValidRecord(next)
    BY <1>2 DEF Makes, Acquisitions
  <1>4. /\ next \in Records
        /\ op # "release" => next.lease = record.lease
        /\ op = "release" => next.lease = 0
    BY <1>1, <1>3, PreparedType
  <1>5. /\ record' = next /\ installs' = installs /\ placement' = placement
        /\ session' = IF op \in {"suspend", "release"} THEN None ELSE session
        /\ served' = IF op = "mark" THEN served \cup {t.lease} ELSE served
    BY DEF Apply
  <1>6. \A id : Rank(id)' = Rank(id)
    BY <1>5 DEF Rank
  <1>7. \A l : Ranked(l)' = Ranked(l)
    BY <1>6 DEF Ranked
  <1>8. /\ k \in Nat /\ (k = 0) = (record.lease = 0)
        /\ Rank(0) = 0 /\ t.lease # None /\ t.lease.id = record.lease
    BY <1>1, <1>3, RankFacts, EtcdBounds DEF Rank, Leases, NamesLease
  \* The values of the abstract variables, before and after.
  <1>9. [record EXCEPT !.lease = Rank(@)] = old
    BY DEF Numbered
  <1>10. (IF session = None THEN None ELSE Ranked(session)) = lease
    BY <1>2, <1>8
  <1>11. granted' = granted
    BY <1>5, <1>7
  <1>12. op # "release" => [record EXCEPT !.lease = Rank(@)]' = Numbered(next, k)
    BY <1>4, <1>5, <1>6 DEF Numbered
  <1>13. op = "release" => [record EXCEPT !.lease = Rank(@)]' = Numbered(next, 0)
    BY <1>4, <1>5, <1>6, <1>8 DEF Numbered
  <1>14. (IF session = None THEN None ELSE Ranked(session))'
           = IF op \in {"suspend", "release"} THEN None ELSE lease
    BY <1>2, <1>5, <1>7, <1>8
  <1>15. {Ranked(l) : l \in served}'
           = IF op = "mark" THEN {Ranked(l) : l \in served} \cup {lease}
             ELSE {Ranked(l) : l \in served}
    BY <1>5, <1>7
  <1>16. lease \in granted
    <2>1. PICK i \in 1..Len(installs) : installs[i] = t.lease
      BY <1>1 DEF Installed
    <2> QED BY <2>1
  <1>17. /\ old \in Records /\ old.owner = record.owner /\ old.epoch = record.epoch
         /\ old.state = record.state /\ old.pending = record.pending /\ old.lease = k
         /\ old.log = record.log /\ old.durable = record.durable
    BY <1>1, <1>8, NumberedFields
  <1>18. Control!NamesLease(old, lease)
    BY <1>1, <1>3, <1>8, <1>17 DEF Control!NamesLease, NamesLease, Ranked, Leases
  <1>19. Control!Holds(lease)
    BY <1>9, <1>10, <1>18 DEF Control!Holds
  <1>20. (op # "release" => Control!ValidRecord(Numbered(next, k)))
         /\ (op = "release" => Control!ValidRecord(Numbered(next, 0)))
    BY <1>3, <1>4, <1>8, NumberedChecks, SameChecks
  <1>21. /\ \A pub : Control!PublicationAccepted(old, pub) = PublicationAccepted(record, pub)
         /\ \A pub : Control!Published(old, pub) = Numbered(Published(record, pub), k)
         /\ \A i : Control!IntentAccepted(old, i) = IntentAccepted(record, i)
    BY <1>1, <1>8, NumberedChecks, SameChecks
  <1> HIDE DEF granted
  <1>22. CASE op = "mark"
    <2>1. PICK pub \in Publications : /\ PublicationAccepted(record, pub)
                                      /\ next = ServingRecord(record, pub)
      BY <1>3, <1>22, PreparedCases
    <2>2. record.pending = None /\ pub \in Control!Publications
      BY <1>3, <1>22, <2>1, PreparedCases, PublicationType
    <2>3. Published(record, pub) \in Records
      BY <1>1, PublishedType
    <2>4. Numbered(next, k) = Control!ServingRecord(old, pub)
      BY <1>21, <2>1, <2>3, NumberedChanges DEF ServingRecord, Control!ServingRecord
    <2>5. Control!MarkServing(lease, pub)
      BY <1>9, <1>10, <1>11, <1>12, <1>14, <1>15, <1>17, <1>19, <1>20, <1>21, <1>22,
         <1>5, <2>1, <2>2, <2>4 DEF Control!MarkServing, Control!PutRecord, granted
    <2> QED BY <1>16, <2>2, <2>5 DEF Control!Next, Control!OwnerCall, granted
  <1>23. CASE op = "prepare"
    <2>1. PICK i \in Control!Intents : /\ IntentAccepted(record, i)
                                       /\ record.pending \in {None, i}
                                       /\ next = [record EXCEPT !.pending = i]
      BY <1>3, <1>23, PreparedCases
    <2>2. Numbered(next, k) = [old EXCEPT !.pending = i]
      BY <1>1, <2>1 DEF Numbered, Records, Control!Records
    <2>3. Control!PrepareRecoveryUpload(lease, i)
      BY <1>9, <1>10, <1>11, <1>12, <1>14, <1>15, <1>17, <1>19, <1>20, <1>21, <1>23,
         <1>5, <2>1, <2>2 DEF Control!PrepareRecoveryUpload, Control!PutRecord, granted
    <2> QED BY <1>16, <2>3 DEF Control!Next, Control!OwnerCall, granted
  <1>24. CASE op = "finalize" /\ record.pending # None
    <2>1. PICK pub \in Publications : /\ PublicationMatches(record.pending, pub)
                                      /\ PublicationAccepted(record, pub)
                                      /\ next = FinalizedRecord(record, pub)
      BY <1>3, <1>24, PreparedCases
    <2>2. pub \in Control!Publications /\ record.pending \in Control!Intents
      BY <1>1, <1>24, <2>1, PublicationType DEF Records, Control!Records
    <2>3. Published(record, pub) \in Records
      BY <1>1, PublishedType
    <2>4. Numbered(next, k) = Control!FinalizedRecord(old, pub)
      BY <1>21, <2>1, <2>3, NumberedChanges DEF FinalizedRecord, Control!FinalizedRecord
    <2>5. Control!PublicationMatches(record.pending, pub)
      BY <2>1, SameChecks
    <2>6. Control!FinalizeRecoveryUpload(lease, record.pending, pub)
      BY <1>9, <1>10, <1>11, <1>12, <1>14, <1>15, <1>17, <1>19, <1>20, <1>21, <1>24,
         <1>5, <2>1, <2>4, <2>5 DEF Control!FinalizeRecoveryUpload, granted
    <2> QED BY <1>16, <2>2, <2>6 DEF Control!Next, Control!OwnerCall, granted
  <1>25. CASE op \in {"finalize", "abort"} /\ record.pending = None
    <2>1. next = record
      BY <1>3, <1>25, PreparedCases
    <2> QED BY <1>5, <1>25, <2>1, KeysAlone
  <1>26. CASE op = "abort" /\ record.pending # None
    <2>1. record.state = "Recovering" /\ next = [record EXCEPT !.pending = None]
      BY <1>3, <1>26, PreparedCases
    <2>2. record.pending \in Control!Intents
      BY <1>1, <1>26 DEF Records, Control!Records
    <2>3. Numbered(next, k) = [old EXCEPT !.pending = None]
      BY <1>1, <2>1 DEF Numbered, Records, Control!Records
    <2>4. Control!AbortRecoveryUpload(lease, record.pending)
      BY <1>9, <1>10, <1>11, <1>12, <1>14, <1>15, <1>17, <1>19, <1>20, <1>26,
         <1>5, <2>1, <2>3 DEF Control!AbortRecoveryUpload, granted
    <2> QED BY <1>16, <2>2, <2>4 DEF Control!Next, Control!OwnerCall, granted
  <1>27. CASE op = "release"
    <2>1. /\ record.pending = None /\ record.state # "Recovering"
          /\ next = ReleasedRecord(record)
      BY <1>3, <1>27, PreparedCases
    <2>2. Numbered(next, 0) = Control!ReleasedRecord(old)
      BY <1>1, <2>1 DEF Numbered, Records, Control!Records, ReleasedRecord,
                       Control!ReleasedRecord
    <2>3. Control!ReleaseOwner(lease)
      BY <1>9, <1>10, <1>11, <1>13, <1>14, <1>15, <1>17, <1>19, <1>20, <1>27,
         <1>5, <2>1, <2>2 DEF Control!ReleaseOwner, Control!PutRecord, granted
    <2> QED BY <1>16, <2>3 DEF Control!Next, Control!OwnerCall, granted
  <1>28. CASE op = "suspend"
    <2>1. record.state = "Recovering" /\ next = record
      BY <1>3, <1>28, PreparedCases
    <2>2. Control!SuspendRecovery(lease)
      BY <1>9, <1>10, <1>11, <1>12, <1>14, <1>15, <1>17, <1>18, <1>28,
         <1>5, <2>1 DEF Control!SuspendRecovery, Control!Suspendable, granted
    <2> QED BY <1>16, <2>2 DEF Control!Next, Control!OwnerCall, granted
  <1> QED BY <1>3, <1>22, <1>23, <1>24, <1>25, <1>26, <1>27, <1>28
          DEF Mutations, RecordWrites

(* A transaction that arrives commits as a step of the abstract store, or  *)
(* its comparisons fail and it leaves the keys alone.                      *)
LEMMA ApplyStep ==
    ASSUME IInv, IInv', NEW t \in Calls, TransactionOK(t), Apply(t), grants' = grants
    PROVE  Control!Next \/ UNCHANGED Control!controlVars
  <1>1. CASE ~Applies(t)
    <2>1. UNCHANGED <<record, session, placement, installs, served>>
      BY <1>1 DEF Apply, etcd
    <2> QED BY <2>1, KeysAlone
  <1>2. CASE Applies(t) /\ t.op \in Acquisitions
    BY <1>2, InstallStep DEF Control!Next
  <1>3. CASE Applies(t) /\ t.op \notin Acquisitions
    BY <1>3, MutationStep
  <1> QED BY <1>1, <1>2, <1>3

(* A lease that ends takes its session with it, if it has one.             *)
LEMMA EndLeaseStep ==
    ASSUME IInv, NEW id, EndLease(id)
    PROVE  Control!Next \/ UNCHANGED Control!controlVars
  <1>1. /\ UNCHANGED <<record, placement, installs, served>>
        /\ session' = IF session # None /\ session.id = id THEN None ELSE session
    BY DEF EndLease
  <1>2. CASE session' = session
    BY <1>1, <1>2, KeysAlone
  <1>3. CASE session' # session
    <2>1. session # None /\ session' = None /\ session \in Leases
      BY <1>1, <1>3 DEF IInv, TypeInv
    <2>2. Ranked(session) # None
      <3>1. PICK i \in 1..Len(installs) : installs[i] = session
        BY <2>1 DEF IInv, LedgerInv, Installed
      <3>2. installs \in Seq(Leases)
        BY DEF IInv, TypeInv
      <3>3. Ranked(session) = [owner |-> session.owner, epoch |-> session.epoch, id |-> i]
        BY <3>1, RankFacts
      <3>4. i \in Nat /\ session.owner \in Owners /\ session.epoch \in Nat
        BY <2>1, <3>1, <3>2 DEF Leases
      <3> QED BY <3>3, <3>4, EtcdBounds
    <2>3. (\A id_ : Rank(id_)' = Rank(id_)) /\ (\A l : Ranked(l)' = Ranked(l))
      BY <1>1 DEF Rank, Ranked
    <2>4. Control!SessionEnds
      BY <1>1, <2>1, <2>2, <2>3 DEF Control!SessionEnds
    <2> QED BY <2>4 DEF Control!Next
  <1> QED BY <1>2, <1>3

LEMMA PlacementStep ==
    ASSUME IInv, NEW r \in Roots,
           \/ CreateRootPlacement(r)
           \/ \E lifecycle \in Control!Lifecycles : CompareAndSetRootPlacement(r, lifecycle)
    PROVE  Control!Next
  <1>1. UNCHANGED <<record, session, installs, served>>
    BY DEF CreateRootPlacement, CompareAndSetRootPlacement, SetPlacement
  <1>2. (\A id : Rank(id)' = Rank(id)) /\ (\A l : Ranked(l)' = Ranked(l))
    BY <1>1 DEF Rank, Ranked
  <1>3. CASE CreateRootPlacement(r)
    <2>1. Control!CreateRootPlacement(r)
      BY <1>1, <1>2, <1>3 DEF CreateRootPlacement, SetPlacement, Control!CreateRootPlacement
    <2> QED BY <2>1 DEF Control!Next, Control!PlacementCall
  <1>4. ASSUME NEW lifecycle \in Control!Lifecycles,
               CompareAndSetRootPlacement(r, lifecycle)
        PROVE  Control!Next
    <2>1. Control!CompareAndSetRootPlacement(r, placement[r], lifecycle)
      BY <1>1, <1>2, <1>4 DEF CompareAndSetRootPlacement, SetPlacement,
                              Control!CompareAndSetRootPlacement
    <2>2. placement[r] # None /\ placement[r].generation < MaxGeneration
      BY <1>4 DEF CompareAndSetRootPlacement
    <2> QED BY <2>1, <2>2 DEF Control!Next, Control!PlacementCall
  <1> QED BY <1>3, <1>4

LEMMA InitRefines == Init => Control!ControlInit
  <1> SUFFICES ASSUME Init PROVE Control!ControlInit
    OBVIOUS
  <1>1. Rank(0) = 0
    BY DEF Rank
  <1>2. [record EXCEPT !.lease = Rank(@)] = Control!Unassigned
    BY <1>1 DEF Init, Unassigned, Control!Unassigned
  <1>3. 1..Len(installs) = {}
    BY DEF Init
  <1> QED BY <1>2, <1>3 DEF Init, Control!ControlInit

LEMMA StepRefines ==
    ASSUME IInv, IInv', [Next]_vars
    PROVE  Control!Next \/ UNCHANGED Control!controlVars
  <1>1. ASSUME NEW n \in Owners, Step(n)
        PROVE  Control!Next \/ UNCHANGED Control!controlVars
    <2>1. CASE Revoke(n)
      BY <2>1, EndLeaseStep DEF Revoke
    <2>2. CASE Transact(n)
      <3>1. PICK t \in Calls : t = call[n] /\ TransactionOK(t)
        BY <2>2, CallFacts DEF Transact, CallOK
      <3>2. Apply(t) /\ grants' = grants
        BY <2>2, <3>1 DEF Transact
      <3> QED BY <3>1, <3>2, ApplyStep
    <2>3. CASE ~Revoke(n) /\ ~Transact(n)
      <3>1. UNCHANGED <<record, session, placement, installs, served>>
        BY <1>1, <2>3 DEF Step, BeginAcquisition, BeginMutation, FetchForAcquisition,
           Grant, ReadSession, LoseReply, InstallVisibleRecord, InstallVisibleSession,
           ClassifyRecord, ClassifySession, CheckSessionless, KeepAlive, Return,
           CallFails, etcd
      <3> QED BY <3>1, KeysAlone
    <2> QED BY <2>1, <2>2, <2>3
  <1>2. ASSUME NEW t \in late, LateTransact(t)
        PROVE  Control!Next \/ UNCHANGED Control!controlVars
    <2>1. t \in Calls /\ TransactionOK(t)
      BY DEF IInv, TypeInv, LateInv
    <2> QED BY <1>2, <2>1, ApplyStep DEF LateTransact
  <1>3. ASSUME NEW id \in leases, LeaseExpires(id)
        PROVE  Control!Next \/ UNCHANGED Control!controlVars
    BY <1>3, EndLeaseStep DEF LeaseExpires
  <1>4. ASSUME NEW r \in Roots,
               \/ CreateRootPlacement(r)
               \/ \E lifecycle \in Control!Lifecycles :
                    CompareAndSetRootPlacement(r, lifecycle)
        PROVE  Control!Next
    BY <1>4, PlacementStep
  <1>5. CASE UNCHANGED vars
    <2>1. UNCHANGED <<record, session, placement, installs, served>>
      BY <1>5 DEF vars, etcd
    <2> QED BY <2>1, KeysAlone
  <1> QED BY <1>1, <1>2, <1>3, <1>4, <1>5 DEF Next

(* Every behaviour of the etcd backend, with calls that interleave request *)
(* by request, leases that expire in between and transactions that commit  *)
(* after their caller gave up, is a behaviour of the atomic control store. *)
THEOREM Refinement == Spec => Control!Spec
  <1>1. IInv /\ IInv' /\ [Next]_vars => [Control!Next]_(Control!controlVars)
    BY StepRefines
  <1> QED BY InitRefines, Invariance, <1>1, PTL DEF Spec, Control!Spec

(* The same in the form in which TLC checks it.                            *)
THEOREM RefinesStore == Spec => Refines
  <1>1. IInv /\ IInv' /\ [Next]_vars
          => [UNCHANGED etcd \/ Control!Next]_(Control!controlVars)
    BY StepRefines
  <1> QED BY InitRefines, Invariance, <1>1, PTL DEF Spec, Refines

=============================================================================
