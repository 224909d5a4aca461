---------------------------- MODULE ControlShard -----------------------------
(***************************************************************************)
(* The control store of one logical shard: its record, the owner session   *)
(* and the root placements (trait ControlStore; InMemoryControlStore in    *)
(* crates/nokv-control/src/store.rs, whose transitions the etcd and local  *)
(* backends share).                                                        *)
(*                                                                         *)
(* Each operation is one atomic step: it runs under the store mutex or as  *)
(* one compare-and-swap transaction.  A rejected call changes nothing and  *)
(* is the disabled action.  Every lease ever granted may be used at any    *)
(* time: a process that lost its session does not know it.                 *)
(***************************************************************************)
EXTENDS ControlRecord

CONSTANTS Owners,      \* nodes that may own the shard
          Roots        \* roots whose placement names the shard

VARIABLES
    control,     \* LogicalShardRecord
    session,     \* the live owner session: a lease, or None
    nextLease,   \* next_lease_id: lease ids granted so far
    placement,   \* root -> its RootPlacement, or None
    granted,     \* history: every lease ever granted
    served       \* history: leases under which the record became Serving

controlVars == <<control, session, nextLease, placement, granted, served>>

ControlInit ==
    /\ control = Unassigned
    /\ session = None
    /\ nextLease = 0
    /\ placement = [r \in Roots |-> None]
    /\ granted = {}
    /\ served = {}

-----------------------------------------------------------------------------
(* Root placements.                                                        *)

\* Bug: the first generation is numbered from zero.
CreateRootPlacementAtZero(r) ==
    /\ placement[r] = None
    /\ placement' = [placement EXCEPT
                       ![r] = [generation |-> 0, lifecycle |-> "Provisioning"]]
    /\ UNCHANGED <<control, session, nextLease, granted, served>>

CreateRootPlacement(r) ==
    /\ placement[r] = None
    /\ placement' = [placement EXCEPT
                       ![r] = [generation |-> 1, lifecycle |-> "Provisioning"]]
    /\ UNCHANGED <<control, session, nextLease, granted, served>>

\* validate_placement_transition
PlacementTransitions ==
    {<<"Provisioning", "Active">>, <<"Provisioning", "Retired">>,
     <<"Active", "Draining">>, <<"Draining", "Active">>,
     <<"Draining", "Retired">>}

CompareAndSetRootPlacement(r, expected, lifecycle) ==
    /\ placement[r] = expected
    /\ <<expected.lifecycle, lifecycle>> \in PlacementTransitions
    /\ placement' = [placement EXCEPT
                       ![r] = [generation |-> expected.generation + 1,
                               lifecycle |-> lifecycle]]
    /\ UNCHANGED <<control, session, nextLease, granted, served>>

\* ensure_root_placement
Placed ==
    \E r \in Roots : placement[r] # None /\ placement[r].lifecycle # "Retired"

-----------------------------------------------------------------------------
(* Ownership.                                                              *)

LeaseOf(record) ==
    [owner |-> record.owner, epoch |-> record.epoch, id |-> record.lease]

\* Install the record and open the session of its lease.
InstallOwner(record) ==
    /\ ValidRecord(control) /\ ValidRecord(record)
    /\ control' = record
    /\ session' = LeaseOf(record)
    /\ nextLease' = nextLease + 1
    /\ granted' = granted \cup {LeaseOf(record)}
    /\ UNCHANGED <<placement, served>>

AcquireOwner(n) ==
    /\ Placed
    /\ control.epoch = 0 /\ control.owner = None
    /\ InstallOwner(Acquired(control, n, nextLease + 1))

AcquireSuccessor(n, expected) ==
    /\ Placed
    /\ expected # 0 /\ control.epoch = expected
    /\ control.state # "Recovering"
    /\ session = None
    /\ InstallOwner(Acquired(control, n, nextLease + 1))

\* Bug: a Serving epoch may be taken again, by somebody else.
ReacquireServing(n, epoch) ==
    /\ Placed
    /\ epoch # 0 /\ control.epoch = epoch
    /\ session = None
    /\ control.state \in {"Recovering", "Serving"}
    /\ InstallOwner(Reacquired(control, n, nextLease + 1))

ReacquireRecovery(n, epoch) ==
    /\ Placed
    /\ epoch # 0 /\ control.epoch = epoch
    /\ session = None
    /\ control.state = "Recovering"
    /\ InstallOwner(Reacquired(control, n, nextLease + 1))

\* validate_record_lease and validate_in_memory_session: renew_owner and
\* prove_owner answer exactly this, and every mutation below requires it.
Holds(lease) == NamesLease(control, lease) /\ session = lease

\* Write a record under a held lease.
PutRecord(record) ==
    /\ ValidRecord(record)
    /\ control' = record
    /\ UNCHANGED <<nextLease, placement, granted>>

MarkServing(lease, pub) ==
    /\ Holds(lease)
    /\ PublicationAccepted(control, pub)
    /\ control.pending = None
    /\ PutRecord(ServingRecord(control, pub))
    /\ served' = served \cup {lease}
    /\ UNCHANGED session

PrepareRecoveryUpload(lease, intent) ==
    /\ Holds(lease)
    /\ IntentAccepted(control, intent)
    /\ control.pending \in {None, intent}
    /\ PutRecord([control EXCEPT !.pending = intent])
    /\ UNCHANGED <<session, served>>

\* A retry of a finalization that is already exactly published is accepted
\* and changes nothing.
FinalizeRecoveryUpload(lease, intent, pub) ==
    /\ Holds(lease)
    /\ PublicationAccepted(control, pub)
    /\ IF control.pending = None
       THEN /\ Published(control, pub) = control
            /\ IsPublished(control, intent)
            /\ UNCHANGED control
       ELSE /\ control.pending = intent
            /\ PublicationMatches(intent, pub)
            /\ ValidRecord(FinalizedRecord(control, pub))
            /\ control' = FinalizedRecord(control, pub)
    /\ UNCHANGED <<session, nextLease, placement, granted, served>>

AbortRecoveryUpload(lease, intent) ==
    /\ Holds(lease)
    /\ IF control.pending = None
       THEN IsPublished(control, intent) /\ UNCHANGED control
       ELSE /\ control.pending = intent
            /\ control.state = "Recovering"
            /\ control' = [control EXCEPT !.pending = None]
            /\ ValidRecord(control')
    /\ UNCHANGED <<session, nextLease, placement, granted, served>>

\* The checks of suspend_recovery.
Suspendable(lease) ==
    /\ NamesLease(control, lease)
    /\ control.state = "Recovering"
    /\ session \in {None, lease}

\* The record keeps its lease: the attempt stays Recovering, sessionless.
SuspendRecovery(lease) ==
    /\ Suspendable(lease)
    /\ session' = None
    /\ UNCHANGED <<control, nextLease, placement, granted, served>>

\* Bug: the session key outlives the released record.
ReleaseKeepsSession(lease) ==
    /\ Holds(lease)
    /\ control.pending = None
    /\ control.state # "Recovering"
    /\ PutRecord(ReleasedRecord(control))
    /\ UNCHANGED <<session, served>>

ReleaseOwner(lease) ==
    /\ Holds(lease)
    /\ control.pending = None
    /\ control.state # "Recovering"
    /\ PutRecord(ReleasedRecord(control))
    /\ session' = None
    /\ UNCHANGED served

\* The backend ends the session: the etcd lease expires, or the process that
\* holds the local session lock dies.
SessionEnds ==
    /\ session # None
    /\ session' = None
    /\ UNCHANGED <<control, nextLease, placement, granted, served>>

=============================================================================
