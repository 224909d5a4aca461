------------------------- MODULE ControlStoreProofs --------------------------
(***************************************************************************)
(* Proofs about ControlStore, for every number of nodes, leases and        *)
(* segments: type correctness, the uniqueness of the live session, one     *)
(* serving lease per owner epoch, the hand-over of a pending upload, and   *)
(* the durable frontier.                                                   *)
(***************************************************************************)
EXTENDS ControlStore, TLAPS

(* Unowned exactly when Unassigned.                                        *)
StateInv == control.owner = None <=> control.state = "Unassigned"

(* Lease ids are bounded by the allocator, so the next one is fresh.       *)
LeaseInv ==
    /\ session # None => session = LeaseOf(control)
    /\ control.lease <= nextLease
    /\ \A l \in granted : l.id <= nextLease
    /\ \A a, b \in granted : a.id = b.id => a = b
    /\ session # None => session \in granted

(* What has served up to the current epoch.                                *)
ServedInv ==
    /\ \A l \in served : l.epoch <= control.epoch
    /\ \A l \in served : l.epoch = control.epoch =>
         /\ control.state # "Recovering"
         /\ control.state = "Serving" => l = LeaseOf(control)
    /\ \A a, b \in served : a.epoch = b.epoch => a = b

IInv == TypeOK /\ StateInv /\ LeaseInv /\ ServedInv

-----------------------------------------------------------------------------

(* A log of a client is a sequence of segments.                            *)
LEMMA LogsAreSequences ==
    ASSUME NEW log \in Logs
    PROVE  /\ log \in Seq(Segments)
           /\ log # <<>> => Len(log) \in 1..Len(log) /\ log[Len(log)] \in Segments
  BY MaxSegmentsAssumption DEF Logs

(* LSNs stay within the range clients name.                                *)
LEMMA ReferenceLsnType ==
    ASSUME NEW checkpoint \in {None} \cup Checkpoints, NEW log \in Logs
    PROVE  ReferenceLsn(checkpoint, log) \in 0..MaxLsn
  <1>1. CheckpointLsn(checkpoint) \in 0..MaxLsn
    BY BoundsAssumption DEF CheckpointLsn, Checkpoints
  <1>2. \A segment \in Segments : segment.last \in 0..MaxLsn
    BY BoundsAssumption DEF Segments, Ranges
  <1>3. LogLsn(log) \in 0..MaxLsn
    BY <1>2, LogsAreSequences, BoundsAssumption DEF LogLsn
  <1> QED BY <1>1, <1>3 DEF ReferenceLsn

LEMMA PublicationType ==
    ASSUME NEW pub \in Publications
    PROVE  /\ pub.checkpoint \in {None} \cup Checkpoints
           /\ pub.log \in Logs
           /\ pub.durable \in 0..MaxLsn
  <1>1. <<>> \in Logs
    <2>1. <<>> \in [1..0 -> Segments]
      OBVIOUS
    <2> QED BY <2>1, MaxSegmentsAssumption DEF Logs
  <1> QED BY <1>1, ReferenceLsnType, SMTT(60) DEF Publications

(* Publishing changes only the recovery references of a record.            *)
LEMMA PublishedType ==
    ASSUME NEW record \in Records, NEW pub \in Publications
    PROVE  /\ Published(record, pub) \in Records
           /\ Published(record, pub).owner = record.owner
           /\ Published(record, pub).epoch = record.epoch
           /\ Published(record, pub).lease = record.lease
           /\ Published(record, pub).state = record.state
           /\ Published(record, pub).pending = record.pending
  <1>1. <<>> \in Logs
    <2>1. <<>> \in [1..0 -> Segments]
      OBVIOUS
    <2> QED BY <2>1, MaxSegmentsAssumption DEF Logs
  <1> QED BY <1>1, PublicationType, ZenonT(60) DEF Published, Records

(* Acquisition changes the owner, the lease and, for a successor, the epoch. *)
LEMMA AcquiredType ==
    ASSUME NEW r \in Records, NEW n \in Owners, NEW id \in Nat
    PROVE  /\ Acquired(r, n, id) \in Records
           /\ Acquired(r, n, id).owner = n
           /\ Acquired(r, n, id).state = "Recovering"
           /\ Acquired(r, n, id).lease = id
           /\ Acquired(r, n, id).epoch = r.epoch + 1
           /\ Reacquired(r, n, id) \in Records
           /\ Reacquired(r, n, id).owner = n
           /\ Reacquired(r, n, id).state = r.state
           /\ Reacquired(r, n, id).lease = id
           /\ Reacquired(r, n, id).epoch = r.epoch
  <1>1. Acquired(r, n, id) \in Records
    <2>1. \A e \in Nat :
            [r EXCEPT !.owner = n, !.epoch = e, !.lease = id,
                      !.state = "Recovering"] \in Records
      BY DEF Records
    <2>2. r.epoch + 1 \in Nat
      BY DEF Records
    <2> QED BY <2>1, <2>2, Zenon DEF Acquired
  <1>2. Acquired(r, n, id).owner = n /\ Acquired(r, n, id).lease = id
    BY DEF Acquired, Records
  <1>3. Acquired(r, n, id).state = "Recovering"
    BY DEF Acquired, Records
  <1>4. Acquired(r, n, id).epoch = r.epoch + 1
    BY DEF Acquired, Records
  <1>5. Reacquired(r, n, id) \in Records
    BY DEF Reacquired, Records
  <1>6. Reacquired(r, n, id).owner = n /\ Reacquired(r, n, id).lease = id
    BY DEF Reacquired, Records
  <1>7. /\ Reacquired(r, n, id).state = r.state
        /\ Reacquired(r, n, id).epoch = r.epoch
    BY DEF Reacquired, Records
  <1> QED BY <1>1, <1>2, <1>3, <1>4, <1>5, <1>6, <1>7

(* Initially nobody owns the shard.                                        *)
LEMMA InitInv == ControlInit => IInv
  <1> SUFFICES ASSUME ControlInit PROVE IInv
    OBVIOUS
  <1>1. <<>> \in Logs
    <2>1. <<>> \in [1..0 -> Segments]
      OBVIOUS
    <2> QED BY <2>1, MaxSegmentsAssumption DEF Logs
  <1>2. TypeOK
    BY <1>1, BoundsAssumption DEF ControlInit, TypeOK, Unassigned, Records
  <1> QED BY <1>2 DEF ControlInit, IInv, StateInv, LeaseInv, ServedInv,
                      Unassigned, LeaseOf

(* A new lease is fresh, and its epoch, if it is not new, has not served.  *)
LEMMA InstallOwnerInv ==
    ASSUME IInv, NEW record \in Records, nextLease < MaxLeases,
           InstallOwner(record),
           record.owner \in Owners, record.state = "Recovering",
           record.lease = nextLease + 1,
           \/ record.epoch = control.epoch + 1
           \/ record.epoch = control.epoch /\ control.state = "Recovering"
    PROVE  IInv'
  <1> USE DEF IInv
  <1>0. /\ control.epoch \in Nat /\ nextLease \in Nat /\ record.epoch \in Nat
        /\ control.lease \in Nat
    BY DEF TypeOK, Records
  <1>1. LeaseOf(record) \in Leases
    BY <1>0 DEF LeaseOf, Leases
  <1>2. TypeOK'
    BY <1>0, <1>1, BoundsAssumption DEF TypeOK, InstallOwner
  <1>3. StateInv'
    BY BoundsAssumption DEF StateInv, InstallOwner
  <1>4. LeaseInv'
    <2>1. LeaseOf(record).id = nextLease + 1
      BY DEF LeaseOf
    <2>2. \A l \in granted : l.id \in Nat /\ l.id <= nextLease
      BY DEF TypeOK, Leases, LeaseInv
    <2>3. \A a, b \in granted' : a.id = b.id => a = b
      BY <2>1, <2>2, <1>0 DEF InstallOwner, LeaseInv
    <2>4. \A l \in granted' : l.id <= nextLease'
      BY <2>1, <2>2, <1>0 DEF InstallOwner
    <2> QED BY <2>3, <2>4, <1>0 DEF InstallOwner, LeaseInv
  <1>5. ServedInv'
    <2>1. \A l \in served : l.epoch \in Nat
      BY DEF TypeOK, Leases
    <2>2. \A l \in served : l.epoch < record.epoch
      BY <2>1, <1>0 DEF ServedInv
    <2>3. served' = served /\ control' = record
      BY DEF InstallOwner
    <2> QED BY <2>1, <2>2, <2>3, <1>0 DEF ServedInv
  <1> QED BY <1>2, <1>3, <1>4, <1>5

(* Every way to become the owner.                                          *)
LEMMA AcquireInv == ASSUME IInv, Acquire PROVE IInv'
  <1>0. /\ control \in Records /\ control.epoch \in Nat
        /\ nextLease \in Nat /\ nextLease + 1 \in Nat
    BY DEF IInv, TypeOK, Records
  <1> PICK id \in Nat : id = nextLease + 1
    BY <1>0
  <1>1. PICK n \in Owners :
          \/ AcquireOwner(n)
          \/ AcquireSuccessor(n, control.epoch)
          \/ ReacquireRecovery(n, control.epoch)
    BY DEF Acquire
  <1>2. CASE AcquireOwner(n) \/ AcquireSuccessor(n, control.epoch)
    <2> DEFINE record == Acquired(control, n, id)
    <2>1. /\ record \in Records /\ record.owner = n /\ record.state = "Recovering"
          /\ record.lease = id /\ record.epoch = control.epoch + 1
      <3>1. record \in Records
        BY <1>0, AcquiredType
      <3>2. record.owner = n
        BY <1>0, AcquiredType
      <3>3. record.state = "Recovering"
        BY <1>0, AcquiredType
      <3>4. record.lease = id
        BY <1>0, AcquiredType, ZenonT(60)
      <3>5. record.epoch = control.epoch + 1
        BY <1>0, AcquiredType
      <3> QED BY <3>1, <3>2, <3>3, <3>4, <3>5
    <2>2. InstallOwner(record)
      BY <1>2 DEF AcquireOwner, AcquireSuccessor
    <2> HIDE DEF record
    <2> QED BY <2>1, <2>2, InstallOwnerInv DEF Acquire
  <1>3. CASE ReacquireRecovery(n, control.epoch)
    <2> DEFINE record == Reacquired(control, n, id)
    <2>1. control.state = "Recovering" /\ InstallOwner(record)
      BY <1>3 DEF ReacquireRecovery
    <2>2. /\ record \in Records /\ record.owner = n /\ record.state = "Recovering"
          /\ record.lease = id /\ record.epoch = control.epoch
      <3>1. record \in Records
        BY <1>0, AcquiredType
      <3>2. record.owner = n
        BY <1>0, AcquiredType
      <3>3. record.state = "Recovering"
        BY <1>0, <2>1, AcquiredType, ZenonT(60)
      <3>4. record.lease = id
        BY <1>0, AcquiredType, ZenonT(60)
      <3>5. record.epoch = control.epoch
        BY <1>0, AcquiredType
      <3> QED BY <3>1, <3>2, <3>3, <3>4, <3>5
    <2> HIDE DEF record
    <2> QED BY <2>1, <2>2, InstallOwnerInv DEF Acquire
  <1> QED BY <1>1, <1>2, <1>3

(* A write that keeps the identity of the owner and its lease, and does    *)
(* not leave or enter Recovering, keeps the invariant.                     *)
LEMMA SameOwnerInv ==
    ASSUME IInv, control' \in Records,
           control'.owner = control.owner, control'.epoch = control.epoch,
           control'.lease = control.lease, control'.state = control.state,
           session' \in {session, None},
           UNCHANGED <<nextLease, placement, granted, served>>
    PROVE  IInv'
  <1> USE DEF IInv
  <1>1. LeaseOf(control') = LeaseOf(control)
    BY DEF LeaseOf
  <1>2. TypeOK'
    BY DEF TypeOK
  <1>3. StateInv'
    BY DEF StateInv
  <1>4. LeaseInv'
    BY <1>1 DEF LeaseInv
  <1>5. ServedInv'
    BY <1>1 DEF ServedInv
  <1> QED BY <1>2, <1>3, <1>4, <1>5

(* Announcing Serving closes the epoch to every other lease.               *)
LEMMA MarkServingInv ==
    ASSUME IInv, NEW lease \in granted, NEW pub \in Publications,
           MarkServing(lease, pub)
    PROVE  IInv'
  <1> USE DEF IInv
  <1> DEFINE next == ServingRecord(control, pub)
  <1>0. control \in Records
    BY DEF TypeOK
  <1>1. /\ next \in Records /\ next.owner = control.owner
        /\ next.epoch = control.epoch /\ next.lease = control.lease
        /\ next.state = "Serving"
    BY <1>0, PublishedType DEF ServingRecord, Records
  <1>2. /\ control' = next /\ served' = served \cup {lease}
        /\ UNCHANGED <<session, nextLease, placement, granted>>
    BY DEF MarkServing, PutRecord
  <1>3. lease = LeaseOf(control) /\ lease \in Leases
    <2>1. lease \in Leases
      BY DEF TypeOK
    <2>2. /\ lease.owner = control.owner /\ lease.epoch = control.epoch
          /\ lease.id = control.lease
      BY DEF MarkServing, Holds, NamesLease
    <2> QED BY <2>1, <2>2 DEF Leases, LeaseOf
  <1> HIDE DEF next
  <1>4. LeaseOf(control') = LeaseOf(control)
    BY <1>1, <1>2 DEF LeaseOf
  <1>5. TypeOK'
    BY <1>1, <1>2 DEF TypeOK
  <1>6. StateInv'
    <2>1. lease.owner = control.owner /\ lease.owner \in Owners
      BY <1>3 DEF LeaseOf, Leases
    <2> QED BY <2>1, <1>1, <1>2, BoundsAssumption DEF StateInv
  <1>7. LeaseInv'
    BY <1>1, <1>2, <1>4 DEF LeaseInv
  <1>8. ServedInv'
    <2>1. lease.epoch = control.epoch
      BY <1>3 DEF LeaseOf
    <2>2. control.state # "Unassigned"
      BY <1>3, BoundsAssumption DEF StateInv, LeaseOf, Leases
    <2>3. control.state \in {"Recovering", "Serving"}
      BY <1>0, <2>2 DEF Records
    <2>4. \A l \in served : l.epoch = control.epoch => l = lease
      BY <1>3, <2>3 DEF ServedInv
    <2>5. control.epoch \in Nat
      BY <1>0 DEF Records
    <2> QED BY <1>1, <1>2, <1>3, <1>4, <2>1, <2>4, <2>5 DEF ServedInv
  <1> QED BY <1>5, <1>6, <1>7, <1>8

(* Releasing keeps the epoch, so it stays closed.                          *)
LEMMA ReleaseInv ==
    ASSUME IInv, NEW lease \in granted, ReleaseOwner(lease) PROVE IInv'
  <1> USE DEF IInv
  <1>0. control \in Records
    BY DEF TypeOK
  <1>1. /\ control' = ReleasedRecord(control) /\ session' = None
        /\ UNCHANGED <<nextLease, placement, granted, served>>
    BY DEF ReleaseOwner, PutRecord
  <1>2. /\ control' \in Records /\ control'.owner = None /\ control'.lease = 0
        /\ control'.state = "Unassigned" /\ control'.epoch = control.epoch
    BY <1>0, <1>1 DEF ReleasedRecord, Records
  <1>3. TypeOK'
    BY <1>1, <1>2 DEF TypeOK
  <1>4. LeaseInv'
    BY <1>1, <1>2 DEF LeaseInv, TypeOK
  <1>5. StateInv' /\ ServedInv'
    BY <1>1, <1>2 DEF StateInv, ServedInv
  <1> QED BY <1>3, <1>4, <1>5

(* Every call under a lease, current or stale.                             *)
LEMMA OwnerCallInv ==
    ASSUME IInv, NEW lease \in granted, OwnerCall(lease) PROVE IInv'
  <1>0. control \in Records
    BY DEF IInv, TypeOK
  <1>1. ASSUME NEW pub \in Publications, MarkServing(lease, pub) PROVE IInv'
    BY <1>1, MarkServingInv
  <1>2. ASSUME NEW intent \in Intents, PrepareRecoveryUpload(lease, intent)
        PROVE  IInv'
    <2>1. /\ control' = [control EXCEPT !.pending = intent]
          /\ UNCHANGED <<session, nextLease, placement, granted, served>>
      BY <1>2 DEF PrepareRecoveryUpload, PutRecord
    <2>2. /\ control' \in Records /\ control'.owner = control.owner
          /\ control'.epoch = control.epoch /\ control'.lease = control.lease
          /\ control'.state = control.state
      BY <1>0, <2>1 DEF Records
    <2> QED BY <2>1, <2>2, SameOwnerInv
  <1>3. ASSUME NEW intent \in Intents, NEW pub \in Publications,
               FinalizeRecoveryUpload(lease, intent, pub)
        PROVE  IInv'
    <2>1. /\ control' \in {control, FinalizedRecord(control, pub)}
          /\ UNCHANGED <<session, nextLease, placement, granted, served>>
      BY <1>3 DEF FinalizeRecoveryUpload
    <2>2. /\ control' \in Records /\ control'.owner = control.owner
          /\ control'.epoch = control.epoch /\ control'.lease = control.lease
          /\ control'.state = control.state
      BY <1>0, <2>1, PublishedType DEF FinalizedRecord, Records
    <2> QED BY <2>1, <2>2, SameOwnerInv
  <1>4. ASSUME NEW intent \in Intents, AbortRecoveryUpload(lease, intent)
        PROVE  IInv'
    <2>1. /\ control' \in {control, [control EXCEPT !.pending = None]}
          /\ UNCHANGED <<session, nextLease, placement, granted, served>>
      BY <1>4 DEF AbortRecoveryUpload
    <2>2. /\ control' \in Records /\ control'.owner = control.owner
          /\ control'.epoch = control.epoch /\ control'.lease = control.lease
          /\ control'.state = control.state
      BY <1>0, <2>1 DEF Records
    <2> QED BY <2>1, <2>2, SameOwnerInv
  <1>5. CASE SuspendRecovery(lease)
    BY <1>0, <1>5, SameOwnerInv DEF SuspendRecovery, Suspendable
  <1>6. CASE ReleaseOwner(lease)
    BY <1>6, ReleaseInv
  <1> QED BY <1>1, <1>2, <1>3, <1>4, <1>5, <1>6 DEF OwnerCall

(* Placements are independent of ownership.                                *)
LEMMA PlacementInv ==
    ASSUME IInv, NEW r \in Roots, PlacementCall(r) PROVE IInv'
  <1>1. UNCHANGED <<control, session, nextLease, granted, served>>
    BY DEF PlacementCall, CreateRootPlacement, CompareAndSetRootPlacement
  <1>2. placement' \in [Roots -> {None} \cup Placements]
    <2>1. CASE CreateRootPlacement(r)
      BY <2>1 DEF CreateRootPlacement, IInv, TypeOK, Placements, Lifecycles
    <2>2. ASSUME NEW lifecycle \in Lifecycles, placement[r] # None,
                 CompareAndSetRootPlacement(r, placement[r], lifecycle)
          PROVE  placement' \in [Roots -> {None} \cup Placements]
      BY <2>2 DEF CompareAndSetRootPlacement, IInv, TypeOK, Placements
    <2> QED BY <2>1, <2>2 DEF PlacementCall
  <1> QED BY <1>1, <1>2 DEF IInv, TypeOK, StateInv, LeaseInv, ServedInv

LEMMA StepInv == IInv /\ [Next]_controlVars => IInv'
  <1> SUFFICES ASSUME IInv, [Next]_controlVars PROVE IInv'
    OBVIOUS
  <1>1. CASE Acquire
    BY <1>1, AcquireInv
  <1>2. ASSUME NEW lease \in granted, OwnerCall(lease) PROVE IInv'
    BY <1>2, OwnerCallInv
  <1>3. ASSUME NEW r \in Roots, PlacementCall(r) PROVE IInv'
    BY <1>3, PlacementInv
  <1>4. CASE SessionEnds
    BY <1>4, SameOwnerInv DEF SessionEnds, IInv, TypeOK
  <1>5. CASE UNCHANGED controlVars
    BY <1>5, SameOwnerInv DEF controlVars, IInv, TypeOK
  <1> QED BY <1>1, <1>2, <1>3, <1>4, <1>5 DEF Next

LEMMA Invariance == Spec => []IInv
  BY InitInv, StepInv, PTL DEF Spec

(* Every record, session, lease and placement is well formed, whatever the *)
(* clients call.                                                           *)
THEOREM TypeCorrect == Spec => []TypeOK
  <1>1. IInv => TypeOK
    BY DEF IInv
  <1> QED BY Invariance, <1>1, PTL

(* The live session is the one the record names and no lease id is reused: *)
(* at most one process can pass the ownership checks of the store.         *)
THEOREM SessionUnique == Spec => []SessionIsCurrent
  <1>1. IInv => SessionIsCurrent
    BY DEF IInv, LeaseInv, SessionIsCurrent
  <1> QED BY Invariance, <1>1, PTL

(* However often recovery changes hands, an owner epoch is served by one   *)
(* lease at most.                                                          *)
THEOREM EpochServedOnce == Spec => []OneServingLeasePerEpoch
  <1>1. IInv => OneServingLeasePerEpoch
    BY DEF IInv, ServedInv, OneServingLeasePerEpoch
  <1> QED BY Invariance, <1>1, PTL

-----------------------------------------------------------------------------
(* The recovery references.                                                *)

(* The record is one that validate_logical_shard_record accepts: every     *)
(* operation validates what it writes, so that a pending upload is never   *)
(* stranded.                                                               *)
RecordInv == TypeOK /\ ValidRecord(control)

(* The record of a shard that nobody has owned is valid.                   *)
LEMMA UnassignedValid == ValidRecord(Unassigned)
  BY DEF ValidRecord, ValidSettled, Unassigned, ReferenceLsn, CheckpointLsn,
         LogLsn

(* No operation writes a record that would not be accepted when it is read *)
(* again.                                                                  *)
LEMMA RecordStep ==
    ValidRecord(control) /\ [Next]_controlVars => ValidRecord(control)'
  <1> SUFFICES ASSUME ValidRecord(control), [Next]_controlVars
               PROVE  ValidRecord(control')
    OBVIOUS
  <1>1. CASE Acquire
    BY <1>1 DEF Acquire, AcquireOwner, AcquireSuccessor, ReacquireRecovery,
                InstallOwner
  <1>2. ASSUME NEW lease \in granted, OwnerCall(lease)
        PROVE  ValidRecord(control')
    <2>1. ASSUME NEW pub \in Publications, MarkServing(lease, pub)
          PROVE  ValidRecord(control')
      BY <2>1 DEF MarkServing, PutRecord
    <2>2. ASSUME NEW intent \in Intents, PrepareRecoveryUpload(lease, intent)
          PROVE  ValidRecord(control')
      BY <2>2 DEF PrepareRecoveryUpload, PutRecord
    <2>3. ASSUME NEW intent \in Intents, NEW pub \in Publications,
                 FinalizeRecoveryUpload(lease, intent, pub)
          PROVE  ValidRecord(control')
      BY <2>3 DEF FinalizeRecoveryUpload
    <2>4. ASSUME NEW intent \in Intents, AbortRecoveryUpload(lease, intent)
          PROVE  ValidRecord(control')
      BY <2>4 DEF AbortRecoveryUpload
    <2>5. CASE SuspendRecovery(lease)
      BY <2>5 DEF SuspendRecovery, Suspendable
    <2>6. CASE ReleaseOwner(lease)
      BY <2>6 DEF ReleaseOwner, PutRecord
    <2> QED BY <1>2, <2>1, <2>2, <2>3, <2>4, <2>5, <2>6 DEF OwnerCall
  <1>3. ASSUME NEW r \in Roots, PlacementCall(r) PROVE ValidRecord(control')
    BY <1>3 DEF PlacementCall, CreateRootPlacement, CompareAndSetRootPlacement
  <1>4. CASE SessionEnds
    BY <1>4 DEF SessionEnds
  <1>5. CASE UNCHANGED controlVars
    BY <1>5 DEF controlVars
  <1> QED BY <1>1, <1>2, <1>3, <1>4, <1>5 DEF Next

LEMMA RecordInvariance == Spec => []RecordInv
  <1>1. ControlInit => ValidRecord(control)
    BY UnassignedValid DEF ControlInit
  <1>2. Spec => []ValidRecord(control)
    BY <1>1, RecordStep, PTL DEF Spec
  <1>3. TypeOK /\ ValidRecord(control) => RecordInv
    BY DEF RecordInv
  <1> QED BY <1>2, <1>3, TypeCorrect, PTL

(* The LSNs of a valid record: neither reference is beyond the durable     *)
(* frontier, and one of them reaches it.                                   *)
LEMMA LsnFacts ==
    ASSUME NEW log \in Logs
    PROVE  /\ LogLsn(log) \in Nat
           /\ log = <<>> => LogLsn(log) = 0
  <1>1. \A segment \in Segments : segment.last \in Nat
    BY BoundsAssumption DEF Segments, Ranges
  <1> QED BY <1>1, LogsAreSequences DEF LogLsn

LEMMA CheckpointFacts ==
    ASSUME NEW checkpoint \in {None} \cup Checkpoints
    PROVE  /\ CheckpointLsn(checkpoint) \in Nat
           /\ checkpoint # None => /\ checkpoint.lsn = CheckpointLsn(checkpoint)
                                   /\ checkpoint.digest \in Digests
  BY BoundsAssumption DEF CheckpointLsn, Checkpoints

(* What DurableFrontierKept says of one write.                             *)
FrontierKept(old, new) ==
    /\ new.durable >= old.durable
    /\ new.durable = old.durable /\ TailDigest(old) # None
         => TailDigest(new) = TailDigest(old)
    /\ \/ IsPrefix(old.log, new.log)
       \/ CheckpointLsn(new.checkpoint) >= LogLsn(old.log)

(* A write that keeps the references keeps the frontier.                   *)
LEMMA SameReferences ==
    ASSUME NEW old \in Records, NEW new,
           new.log = old.log, new.checkpoint = old.checkpoint,
           new.durable = old.durable
    PROVE  FrontierKept(old, new)
  <1>1. old.durable \in Nat /\ old.log \in Seq(Segments)
    BY LogsAreSequences, BoundsAssumption DEF Records
  <1>2. IsPrefix(old.log, old.log)
    BY <1>1 DEF IsPrefix
  <1> QED BY <1>1, <1>2 DEF FrontierKept, TailDigest

(* An accepted publication never rewrites what was durable: it starts from *)
(* a valid record, and a reference that ends where the record ends has the *)
(* digest the record ends with.                                            *)
LEMMA PublishedKeepsFrontier ==
    ASSUME NEW old \in Records, ValidSettled(old), NEW pub \in Publications,
           PublicationAccepted(old, pub)
    PROVE  FrontierKept(old, Published(old, pub))
  <1> DEFINE new == Published(old, pub)
             empty == pub.checkpoint = None /\ pub.log = <<>>
             checkpoint == IF pub.checkpoint # None THEN pub.checkpoint
                           ELSE old.checkpoint
             log == IF pub.log # <<>> THEN pub.log ELSE old.log
             covered == checkpoint # None /\ LogLsn(log) <= checkpoint.lsn
  <1>1. /\ old.checkpoint \in {None} \cup Checkpoints /\ old.log \in Logs
        /\ old.durable \in Nat
        /\ pub.checkpoint \in {None} \cup Checkpoints /\ pub.log \in Logs
        /\ pub.durable \in Nat
    BY PublicationType, BoundsAssumption DEF Records
  <1>2. CASE empty
    BY <1>2, SameReferences DEF Published
  <1>3. CASE ~empty
    <2>1. /\ new.checkpoint = checkpoint
          /\ new.log = IF covered THEN <<>> ELSE log
          /\ new.durable = pub.durable
      BY <1>3 DEF Published, Records
    <2> HIDE DEF new
    <2>2. /\ LogLsn(old.log) \in Nat /\ LogLsn(pub.log) \in Nat
          /\ old.log = <<>> => LogLsn(old.log) = 0
          /\ pub.log = <<>> => LogLsn(pub.log) = 0
      BY <1>1, LsnFacts
    <2>3. /\ CheckpointLsn(old.checkpoint) \in Nat
          /\ CheckpointLsn(pub.checkpoint) \in Nat
          /\ pub.checkpoint # None => pub.checkpoint.lsn = CheckpointLsn(pub.checkpoint)
          /\ old.checkpoint # None => old.checkpoint.lsn = CheckpointLsn(old.checkpoint)
          /\ pub.checkpoint = None => CheckpointLsn(pub.checkpoint) = 0
      BY <1>1, CheckpointFacts DEF CheckpointLsn
    <2>4. /\ LogLsn(old.log) <= old.durable
          /\ CheckpointLsn(old.checkpoint) <= old.durable
      BY <2>2, <2>3 DEF ValidSettled, ReferenceLsn
    <2>5. /\ pub.checkpoint # None => CheckpointLsn(pub.checkpoint) >= old.durable
          /\ pub.log # <<>> => LogLsn(pub.log) >= old.durable
          /\ CheckpointLsn(pub.checkpoint) <= pub.durable
          /\ LogLsn(pub.log) <= pub.durable
      BY <1>3, <2>2, <2>3 DEF PublicationAccepted, ReferenceLsn
    <2>6. new.durable >= old.durable
      BY <1>1, <1>3, <2>1, <2>2, <2>3, <2>5
    <2>7. ASSUME new.durable = old.durable, TailDigest(old) # None
          PROVE  TailDigest(new) = TailDigest(old)
      <3>1. /\ pub.checkpoint # None =>
                 /\ CheckpointLsn(pub.checkpoint) = old.durable
                 /\ pub.checkpoint.digest = TailDigest(old)
            /\ pub.log # <<>> =>
                 /\ LogLsn(pub.log) = old.durable
                 /\ pub.log[Len(pub.log)].digest = TailDigest(old)
        BY <1>1, <1>3, <2>1, <2>2, <2>3, <2>5, <2>7 DEF PublicationAccepted
      <3>2. CASE covered
        <4>1. new.log = <<>> /\ new.checkpoint = checkpoint
          BY <2>1, <3>2
        <4>2. CASE pub.checkpoint # None
          BY <3>1, <4>1, <4>2, <2>3, <2>7 DEF TailDigest
        <4>3. CASE pub.checkpoint = None
          <5>1. /\ checkpoint = old.checkpoint /\ log = pub.log /\ pub.log # <<>>
                /\ checkpoint.lsn = old.durable
            BY <1>1, <1>3, <3>1, <3>2, <4>3, <2>3, <2>4
          <5>2. TailDigest(new) = old.checkpoint.digest
            BY <3>2, <4>1, <5>1, <2>7 DEF TailDigest
          <5>3. CASE old.log # <<>> /\ LogLsn(old.log) = old.durable
            BY <3>2, <5>1, <5>2, <5>3 DEF TailDigest, ValidSettled
          <5>4. CASE ~(old.log # <<>> /\ LogLsn(old.log) = old.durable)
            BY <3>2, <5>1, <5>2, <5>4 DEF TailDigest
          <5> QED BY <5>3, <5>4
        <4> QED BY <4>2, <4>3
      <3>3. CASE ~covered
        <4>1. pub.log # <<>>
          BY <1>3, <2>2, <2>3, <2>4, <3>1, <3>3
        <4>2. new.log = pub.log
          BY <2>1, <3>3, <4>1
        <4> QED BY <2>7, <3>1, <4>1, <4>2 DEF TailDigest
      <3> QED BY <3>2, <3>3
    <2>8. \/ IsPrefix(old.log, new.log)
          \/ CheckpointLsn(new.checkpoint) >= LogLsn(old.log)
      <3>1. CASE pub.log = <<>>
        BY <1>3, <2>1, <2>2, <2>3, <2>4, <2>5, <3>1, <1>1
      <3>2. CASE pub.log # <<>> /\ covered
        BY <1>1, <2>1, <2>2, <2>3, <2>4, <2>5, <3>2 DEF CheckpointLsn
      <3>3. CASE pub.log # <<>> /\ ~covered
        <4>1. new.log = pub.log /\ new.checkpoint = checkpoint
          BY <2>1, <3>3
        <4>2. old.log \in Seq(Segments) /\ pub.log \in Seq(Segments)
          BY <1>1, LogsAreSequences
        <4>3. CASE old.log = <<>>
          BY <4>1, <4>2, <4>3 DEF IsPrefix
        <4>4. CASE LogLsn(old.log) = LogLsn(pub.log) /\ old.log # <<>>
          <5>1. old.log = pub.log
            BY <1>3, <3>3, <4>4 DEF PublicationAccepted
          <5> QED BY <4>1, <4>2, <5>1 DEF IsPrefix
        <4>5. CASE LogLsn(old.log) # LogLsn(pub.log) /\ old.log # <<>>
          <5>1. LogLsn(pub.log) > LogLsn(old.log)
            BY <1>1, <2>2, <2>4, <2>5, <3>3, <4>5
          <5>2. ValidLogRef(old, pub.checkpoint, pub.log)
            BY <1>3, <3>3 DEF PublicationAccepted
          <5>3. CheckpointLsn(checkpoint) \in Nat
            BY <2>3
          <5> QED BY <2>2, <4>1, <4>5, <5>1, <5>2, <5>3 DEF ValidLogRef
        <4> QED BY <4>3, <4>4, <4>5
      <3> QED BY <3>1, <3>2, <3>3
    <2> QED BY <2>6, <2>7, <2>8 DEF FrontierKept, new
  <1> QED BY <1>2, <1>3

(* Every operation keeps the frontier of the record.                       *)
LEMMA FrontierStep ==
    RecordInv /\ [Next]_controlVars => FrontierKept(control, control')
  <1> SUFFICES ASSUME RecordInv, [Next]_controlVars
               PROVE  FrontierKept(control, control')
    OBVIOUS
  <1>0. control \in Records /\ ValidSettled(control)
    BY DEF RecordInv, TypeOK, ValidRecord
  <1>1. CASE control' = control
    BY <1>0, <1>1, SameReferences
  <1>2. CASE Acquire
    <2>1. PICK n \in Owners :
            control' \in {Acquired(control, n, nextLease + 1),
                          Reacquired(control, n, nextLease + 1)}
      BY <1>2 DEF Acquire, AcquireOwner, AcquireSuccessor, ReacquireRecovery,
                  InstallOwner
    <2>2. /\ control'.log = control.log /\ control'.durable = control.durable
          /\ control'.checkpoint = control.checkpoint
      BY <1>0, <2>1 DEF Acquired, Reacquired, Records
    <2> QED BY <1>0, <2>2, SameReferences
  <1>3. ASSUME NEW lease \in granted, OwnerCall(lease)
        PROVE  FrontierKept(control, control')
    <2>1. ASSUME NEW pub \in Publications, MarkServing(lease, pub)
          PROVE  FrontierKept(control, control')
      <3>1. /\ control' = [Published(control, pub) EXCEPT !.state = "Serving"]
            /\ PublicationAccepted(control, pub)
        BY <2>1 DEF MarkServing, PutRecord, ServingRecord
      <3>2. Published(control, pub) \in Records
        BY <1>0, PublishedType
      <3>3. FrontierKept(control, Published(control, pub))
        BY <1>0, <3>1, PublishedKeepsFrontier
      <3> QED BY <3>1, <3>2, <3>3 DEF FrontierKept, TailDigest, Records
    <2>2. ASSUME NEW intent \in Intents, PrepareRecoveryUpload(lease, intent)
          PROVE  FrontierKept(control, control')
      <3>1. control' = [control EXCEPT !.pending = intent]
        BY <2>2 DEF PrepareRecoveryUpload, PutRecord
      <3> QED BY <1>0, <3>1, SameReferences DEF Records
    <2>3. ASSUME NEW intent \in Intents, NEW pub \in Publications,
                 FinalizeRecoveryUpload(lease, intent, pub), control' # control
          PROVE  FrontierKept(control, control')
      <3>1. /\ control' = [Published(control, pub) EXCEPT !.pending = None]
            /\ PublicationAccepted(control, pub)
        BY <2>3 DEF FinalizeRecoveryUpload, FinalizedRecord
      <3>2. Published(control, pub) \in Records
        BY <1>0, PublishedType
      <3>3. FrontierKept(control, Published(control, pub))
        BY <1>0, <3>1, PublishedKeepsFrontier
      <3>4. /\ control'.log = Published(control, pub).log
            /\ control'.durable = Published(control, pub).durable
            /\ control'.checkpoint = Published(control, pub).checkpoint
        BY <3>1, <3>2 DEF Records
      <3> QED BY <3>3, <3>4 DEF FrontierKept, TailDigest
    <2>4. ASSUME NEW intent \in Intents, AbortRecoveryUpload(lease, intent),
                 control' # control
          PROVE  FrontierKept(control, control')
      <3>1. control' = [control EXCEPT !.pending = None]
        BY <2>4 DEF AbortRecoveryUpload
      <3> QED BY <1>0, <3>1, SameReferences DEF Records
    <2>5. CASE SuspendRecovery(lease)
      BY <1>1, <2>5 DEF SuspendRecovery, Suspendable
    <2>6. CASE ReleaseOwner(lease)
      <3>1. control' = ReleasedRecord(control)
        BY <2>6 DEF ReleaseOwner, PutRecord
      <3>2. /\ control'.log = control.log /\ control'.durable = control.durable
            /\ control'.checkpoint = control.checkpoint
        BY <1>0, <3>1 DEF ReleasedRecord, Records
      <3> QED BY <1>0, <3>2, SameReferences
    <2> QED BY <1>1, <1>3, <2>1, <2>2, <2>3, <2>4, <2>5, <2>6 DEF OwnerCall
  <1>4. ASSUME NEW r \in Roots, PlacementCall(r) PROVE control' = control
    BY <1>4 DEF PlacementCall, CreateRootPlacement, CompareAndSetRootPlacement
  <1>5. SessionEnds \/ UNCHANGED controlVars => control' = control
    BY DEF SessionEnds, controlVars
  <1> QED BY <1>1, <1>2, <1>3, <1>4, <1>5 DEF Next

(* No write of any client, current or stale, shortens, rewrites or rebases *)
(* what is durable.                                                        *)
THEOREM FrontierNeverLost == Spec => DurableFrontierKept
  <1>1. RecordInv /\ [Next]_controlVars =>
          [/\ control'.durable >= control.durable
           /\ control'.durable = control.durable /\ TailDigest(control) # None
                => TailDigest(control') = TailDigest(control)
           /\ \/ IsPrefix(control.log, control'.log)
              \/ CheckpointLsn(control'.checkpoint) >= LogLsn(control.log)
          ]_controlVars
    BY FrontierStep DEF FrontierKept
  <1> QED BY RecordInvariance, <1>1, PTL DEF Spec, DurableFrontierKept

(* What a pending upload may become in one write, under the session s.     *)
SameFrontier(old, new) ==
    /\ new.durable = old.durable /\ new.checkpoint = old.checkpoint
    /\ new.log = old.log

Settles(old, new, s) ==
    \/ new.pending = old.pending /\ SameFrontier(old, new)
    \/ /\ new.pending = None
       /\ LeaseOf(new) = s
       /\ \/ new.durable = old.pending.last /\ TailDigest(new) = old.pending.digest
          \/ old.state = "Recovering" /\ SameFrontier(old, new)

(* A finalization ends the durable log exactly where the upload ends.  The *)
(* checkpoint of the record lies before the upload, which starts behind    *)
(* the durable frontier; and one that comes with the finalization and      *)
(* covers the log ends where the log ends, with the same digest.           *)
LEMMA FinalizedSettles ==
    ASSUME NEW old \in Records, ValidRecord(old), old.pending # None,
           NEW pub \in Publications, PublicationAccepted(old, pub),
           PublicationMatches(old.pending, pub)
    PROVE  /\ FinalizedRecord(old, pub).pending = None
           /\ LeaseOf(FinalizedRecord(old, pub)) = LeaseOf(old)
           /\ FinalizedRecord(old, pub).durable = old.pending.last
           /\ TailDigest(FinalizedRecord(old, pub)) = old.pending.digest
  <1> DEFINE new == Published(old, pub)
             intent == old.pending
             checkpoint == IF pub.checkpoint # None THEN pub.checkpoint
                           ELSE old.checkpoint
             covered == checkpoint # None /\ LogLsn(pub.log) <= checkpoint.lsn
  <1>1. /\ new \in Records /\ new.owner = old.owner /\ new.epoch = old.epoch
        /\ new.lease = old.lease
    BY PublishedType
  <1>2. /\ pub.checkpoint \in {None} \cup Checkpoints /\ pub.log \in Logs
        /\ old.checkpoint \in {None} \cup Checkpoints /\ old.log \in Logs
        /\ old.durable \in Nat
    BY PublicationType, BoundsAssumption DEF Records
  <1>3. /\ pub.durable = intent.last /\ pub.log # <<>>
        /\ pub.log[Len(pub.log)] = SegmentOf(intent)
    BY DEF PublicationMatches
  <1>4. /\ LogLsn(pub.log) = intent.last
        /\ pub.log[Len(pub.log)].digest = intent.digest
    BY <1>3 DEF LogLsn, SegmentOf
  <1>5. /\ new.checkpoint = checkpoint /\ new.durable = intent.last
        /\ new.log = IF covered THEN <<>> ELSE pub.log
    BY <1>3 DEF Published, Records
  <1>6. /\ FinalizedRecord(old, pub).pending = None
        /\ LeaseOf(FinalizedRecord(old, pub)) = LeaseOf(old)
        /\ FinalizedRecord(old, pub).durable = new.durable
        /\ FinalizedRecord(old, pub).log = new.log
        /\ FinalizedRecord(old, pub).checkpoint = new.checkpoint
    BY <1>1 DEF FinalizedRecord, LeaseOf, Records
  <1>7. /\ LogLsn(pub.log) \in Nat
        /\ CheckpointLsn(pub.checkpoint) \in Nat /\ CheckpointLsn(old.checkpoint) \in Nat
        /\ pub.checkpoint # None => pub.checkpoint.lsn = CheckpointLsn(pub.checkpoint)
        /\ old.checkpoint # None => old.checkpoint.lsn = CheckpointLsn(old.checkpoint)
    BY <1>2, LsnFacts, CheckpointFacts
  <1> HIDE DEF new
  <1>8. TailDigest(new) = intent.digest
    <2>1. CASE ~covered
      BY <1>3, <1>4, <1>5, <2>1 DEF TailDigest
    <2>2. CASE covered /\ pub.checkpoint # None
      <3>1. pub.durable = ReferenceLsn(pub.checkpoint, pub.log)
        BY <1>3 DEF PublicationAccepted
      <3>2. pub.checkpoint.lsn = LogLsn(pub.log)
        BY <1>3, <1>4, <1>7, <2>2, <3>1 DEF ReferenceLsn
      <3>3. pub.checkpoint.digest = pub.log[Len(pub.log)].digest
        BY <1>3, <2>2, <3>2 DEF PublicationAccepted
      <3> QED BY <1>4, <1>5, <2>2, <3>2, <3>3 DEF TailDigest
    <2>3. CASE covered /\ pub.checkpoint = None
      <3>1. /\ intent.first = old.durable + 1 /\ intent.first <= intent.last
            /\ intent.last \in Nat
        BY <1>4, <1>7 DEF ValidRecord, PendingFinishable, IntentAccepted
      <3>2. CheckpointLsn(old.checkpoint) <= old.durable
        <4>1. LogLsn(old.log) \in Nat
          BY <1>2, LsnFacts
        <4> QED BY <1>7, <4>1 DEF ValidRecord, ValidSettled, ReferenceLsn
      <3> QED BY <1>2, <1>4, <1>7, <2>3, <3>1, <3>2
    <2> QED BY <2>1, <2>2, <2>3
  <1>9. TailDigest(FinalizedRecord(old, pub)) = TailDigest(new)
    BY <1>6 DEF TailDigest
  <1> QED BY <1>5, <1>6, <1>8, <1>9

(* Every write hands a pending upload on or settles it.                    *)
LEMMA PendingStep ==
    IInv /\ RecordInv /\ [Next]_controlVars =>
        (control.pending # None => Settles(control, control', session))
  <1> SUFFICES ASSUME IInv, RecordInv, [Next]_controlVars, control.pending # None
               PROVE  Settles(control, control', session)
    OBVIOUS
  <1>0. control \in Records /\ ValidRecord(control)
    BY DEF RecordInv, TypeOK
  <1>1. CASE control' = control
    BY <1>1 DEF Settles, SameFrontier
  <1>2. CASE Acquire
    <2>1. PICK n \in Owners :
            control' \in {Acquired(control, n, nextLease + 1),
                          Reacquired(control, n, nextLease + 1)}
      BY <1>2 DEF Acquire, AcquireOwner, AcquireSuccessor, ReacquireRecovery,
                  InstallOwner
    <2>2. control'.pending = control.pending /\ SameFrontier(control, control')
      BY <1>0, <2>1 DEF Acquired, Reacquired, Records, SameFrontier
    <2> QED BY <2>2 DEF Settles
  <1>3. ASSUME NEW lease \in granted, OwnerCall(lease)
        PROVE  Settles(control, control', session)
    <2>0. ASSUME Holds(lease) PROVE session = LeaseOf(control)
      <3>1. lease \in Leases
        BY DEF RecordInv, TypeOK
      <3> QED BY <2>0, <3>1 DEF Holds, NamesLease, LeaseOf, Leases
    <2>1. ASSUME NEW pub \in Publications, MarkServing(lease, pub) PROVE FALSE
      BY <2>1 DEF MarkServing
    <2>2. ASSUME NEW intent \in Intents, PrepareRecoveryUpload(lease, intent)
          PROVE  control' = control
      <3>1. control.pending = intent /\ control' = [control EXCEPT !.pending = intent]
        BY <2>2 DEF PrepareRecoveryUpload, PutRecord
      <3> QED BY <1>0, <3>1 DEF Records
    <2>3. ASSUME NEW intent \in Intents, NEW pub \in Publications,
                 FinalizeRecoveryUpload(lease, intent, pub)
          PROVE  Settles(control, control', session)
      <3>1. /\ Holds(lease) /\ PublicationAccepted(control, pub)
            /\ PublicationMatches(control.pending, pub)
            /\ control' = FinalizedRecord(control, pub)
        BY <2>3 DEF FinalizeRecoveryUpload
      <3>2. /\ control'.pending = None /\ LeaseOf(control') = LeaseOf(control)
            /\ control'.durable = control.pending.last
            /\ TailDigest(control') = control.pending.digest
        BY <1>0, <3>1, FinalizedSettles
      <3> QED BY <2>0, <3>1, <3>2 DEF Settles
    <2>4. ASSUME NEW intent \in Intents, AbortRecoveryUpload(lease, intent)
          PROVE  Settles(control, control', session)
      <3>1. /\ Holds(lease) /\ control.state = "Recovering"
            /\ control' = [control EXCEPT !.pending = None]
        BY <2>4 DEF AbortRecoveryUpload
      <3>2. /\ control'.pending = None /\ LeaseOf(control') = LeaseOf(control)
            /\ SameFrontier(control, control')
        BY <1>0, <3>1 DEF Records, LeaseOf, SameFrontier
      <3> QED BY <2>0, <3>1, <3>2 DEF Settles
    <2>5. CASE SuspendRecovery(lease)
      BY <1>1, <2>5 DEF SuspendRecovery, Suspendable
    <2>6. CASE ReleaseOwner(lease)
      BY <2>6 DEF ReleaseOwner
    <2> QED BY <1>1, <1>3, <2>1, <2>2, <2>3, <2>4, <2>5, <2>6 DEF OwnerCall
  <1>4. ASSUME NEW r \in Roots, PlacementCall(r) PROVE control' = control
    BY <1>4 DEF PlacementCall, CreateRootPlacement, CompareAndSetRootPlacement
  <1>5. SessionEnds \/ UNCHANGED controlVars => control' = control
    BY DEF SessionEnds, controlVars
  <1> QED BY <1>1, <1>2, <1>3, <1>4, <1>5 DEF Next

(* A pending upload survives every takeover, suspension and stale call     *)
(* with the frontier it was prepared on, until the live session finishes   *)
(* it exactly or a recovery aborts it.                                     *)
THEOREM PendingSettles == Spec => PendingIsSettled
  <1>1. IInv /\ RecordInv /\ [Next]_controlVars =>
          [control.pending # None => Settles(control, control', session)]_controlVars
    BY PendingStep
  <1>2. [control.pending # None => Settles(control, control', session)]_controlVars =>
          [control.pending # None =>
             LET intent == control.pending
                 same == /\ control'.durable = control.durable
                         /\ control'.checkpoint = control.checkpoint
                         /\ control'.log = control.log
             IN  \/ control'.pending = intent /\ same
                 \/ /\ control'.pending = None
                    /\ LeaseOf(control') = session
                    /\ \/ control'.durable = intent.last /\ TailDigest(control') = intent.digest
                       \/ control.state = "Recovering" /\ same
          ]_controlVars
    BY DEF Settles, SameFrontier
  <1> QED BY Invariance, RecordInvariance, <1>1, <1>2, PTL DEF Spec, PendingIsSettled

=============================================================================
