---------------------------- MODULE ControlStore -----------------------------
(***************************************************************************)
(* The control store of one shard against arbitrary clients: any node may  *)
(* ask for ownership, and any lease ever granted may be used with any      *)
(* arguments, well formed or not, until long after it is stale.            *)
(***************************************************************************)
EXTENDS ControlShard

CONSTANTS Digests,         \* chain digests a client may name
          MaxLsn,          \* bound on the LSNs a client may name
          MaxLeases,       \* bound on the leases granted
          MaxGeneration    \* bound on placement generations

ASSUME BoundsAssumption ==
    /\ MaxLsn \in Nat /\ MaxLeases \in Nat /\ MaxGeneration \in Nat
    /\ None \notin Owners /\ None \notin Digests

\* Empty LSN ranges, and publications whose durable LSN is not the one their
\* references reach, are rejected before anything else is looked at and are
\* left out of the inputs.
Ranges == {r \in (1..MaxLsn) \X (1..MaxLsn) : r[1] <= r[2]}
Segments == {[first |-> r[1], last |-> r[2], digest |-> d] :
               r \in Ranges, d \in Digests}
Checkpoints == [lsn : 0..MaxLsn, digest : Digests]
Intents == {[first |-> r[1], last |-> r[2], prev |-> p, digest |-> d] :
              r \in Ranges, p \in Digests, d \in Digests}
Logs == UNION {[1..k -> Segments] : k \in 0..MaxSegments}
Publications ==
    {[checkpoint |-> c, log |-> l, durable |-> ReferenceLsn(c, l)] :
        c \in {None} \cup Checkpoints, l \in Logs}
    \cup [checkpoint : {None}, log : {<<>>}, durable : 0..MaxLsn]

Leases == [owner : Owners, epoch : Nat, id : Nat]
Lifecycles == {"Provisioning", "Active", "Draining", "Retired"}
Placements == [generation : Nat \ {0}, lifecycle : Lifecycles]
Records == [owner : Owners \cup {None}, epoch : Nat, lease : Nat,
            state : {"Unassigned", "Recovering", "Serving"},
            checkpoint : {None} \cup Checkpoints, log : Logs,
            durable : 0..MaxLsn, pending : {None} \cup Intents]

-----------------------------------------------------------------------------

Acquire ==
    /\ nextLease < MaxLeases
    /\ \E n \in Owners :
         \/ AcquireOwner(n)
         \/ AcquireSuccessor(n, control.epoch)
         \/ ReacquireRecovery(n, control.epoch)

\* A call under some lease, current or stale.
OwnerCall(lease) ==
    \/ \E pub \in Publications : MarkServing(lease, pub)
    \/ \E intent \in Intents : PrepareRecoveryUpload(lease, intent)
    \/ \E intent \in Intents, pub \in Publications :
         FinalizeRecoveryUpload(lease, intent, pub)
    \/ \E intent \in Intents : AbortRecoveryUpload(lease, intent)
    \/ SuspendRecovery(lease)
    \/ ReleaseOwner(lease)

PlacementCall(r) ==
    \/ CreateRootPlacement(r)
    \/ /\ placement[r] # None
       /\ placement[r].generation < MaxGeneration
       /\ \E lifecycle \in Lifecycles :
            CompareAndSetRootPlacement(r, placement[r], lifecycle)

Next ==
    \/ Acquire
    \/ \E lease \in granted : OwnerCall(lease)
    \/ \E r \in Roots : PlacementCall(r)
    \/ SessionEnds

Spec == ControlInit /\ [][Next]_controlVars

-----------------------------------------------------------------------------

\* The record, the session, the placements and the leases are typed, and only
\* granted leases have served.
TypeOK ==
    /\ control \in Records
    /\ session \in {None} \cup Leases
    /\ nextLease \in 0..MaxLeases
    /\ placement \in [Roots -> {None} \cup Placements]
    /\ granted \subseteq Leases
    /\ served \subseteq granted

(* A live session is always the session of the lease the record names, and *)
(* lease ids are never granted twice: whoever passes validate_record_lease *)
(* and the session check is the only process that can.                     *)
SessionIsCurrent ==
    /\ session # None => session = LeaseOf(control)
    /\ control.lease <= nextLease
    /\ \A a, b \in granted : a.id = b.id => a = b

(* An owner epoch is served by one lease at most.  Recovery of an epoch    *)
(* may change hands any number of times, but once a lease has made the     *)
(* shard Serving its epoch is closed to everybody else: the metadata       *)
(* engine's owner-epoch equality check therefore separates processes.      *)
OneServingLeasePerEpoch ==
    \A a, b \in served : a.epoch = b.epoch => a = b

(* A pending upload is handed on until it is settled.  While it is pending *)
(* nothing moves the durable frontier, whoever takes the shard over, gives *)
(* up or calls late.  It is settled under the lease whose session is live: *)
(* the frontier then ends exactly where the upload ends, with its digest,  *)
(* also when a checkpoint arrives with the finalization and covers the     *)
(* log; or a recovery aborts it, and the frontier stays where it was.      *)
PendingIsSettled ==
    [][control.pending # None =>
         LET intent == control.pending
             same == /\ control'.durable = control.durable
                     /\ control'.checkpoint = control.checkpoint
                     /\ control'.log = control.log
         IN  \/ control'.pending = intent /\ same
             \/ /\ control'.pending = None
                /\ LeaseOf(control') = session
                /\ \/ control'.durable = intent.last /\ TailDigest(control') = intent.digest
                   \/ control.state = "Recovering" /\ same
      ]_controlVars

(* The durable frontier is never lost or rewritten: its LSN does not       *)
(* decrease, the digest known for an unchanged LSN does not change, and a  *)
(* log is replaced only by an extension or by a checkpoint that covers it. *)
DurableFrontierKept ==
    [][/\ control'.durable >= control.durable
       /\ control'.durable = control.durable /\ TailDigest(control) # None
            => TailDigest(control') = TailDigest(control)
       /\ \/ IsPrefix(control.log, control'.log)
          \/ CheckpointLsn(control'.checkpoint) >= LogLsn(control.log)
      ]_controlVars

=============================================================================
