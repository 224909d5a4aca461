---------------------------- MODULE ShardFailover ----------------------------
(***************************************************************************)
(* Ownership failover of one logical shard: server processes that boot     *)
(* (bootstrap.rs), install and reconcile the shared recovery log           *)
(* (recovery_installer.rs), publish their outbox before acknowledging      *)
(* (recovery_publisher.rs), lose their session, crash, lose power or       *)
(* disks, and take over from one another through the control store.        *)
(*                                                                         *)
(* A local metadata store is the chain of its recovery outbox rows; the    *)
(* chain digest of a row is the chain up to it, and the genesis digest     *)
(* depends on the shard only.  A row is an owner-epoch advance (request    *)
(* None), the root-fence rows of attach_root (request RootFence, one row   *)
(* for the three) or the commit of one client request.                     *)
(*                                                                         *)
(* Checkpoints are never published by the server and are None throughout.  *)
(* An error at any step of a boot is Abandon; a failed publish round is    *)
(* RoundFails.  A step that answers after its caller has lost the session  *)
(* still happens: only control-store mutations check the lease.            *)
(***************************************************************************)
EXTENDS ControlShard, FiniteSets

CONSTANTS Requests,     \* client metadata writes
          RootFence,    \* the rows that attach the root
          Deployments,  \* how the shard may be deployed
          MaxLeases     \* bound on ownership acquisitions

\* A deployment has a RecoveryPublicationMode, the nodes that run the shard,
\* and stopped nodes that may lose their local store, or may not.  In local-only
\* mode the exclusive local WAL is the only recovery authority: one node runs
\* the shard, and losing its directory loses the metadata.
ASSUME DeploymentAssumption ==
    /\ Deployments \subseteq [mode : {"Shared", "LocalOnly"},
                              nodes : SUBSET Owners, disksFail : BOOLEAN]
    /\ \A d \in Deployments : d.mode = "LocalOnly" =>
          ~d.disksFail /\ \A m, n \in d.nodes : m = n

ASSUME FailoverBounds ==
    /\ MaxLeases \in Nat
    /\ None \notin Seq([epoch : Nat, request : Requests \cup {RootFence, None}])

VARIABLES
    deployment,   \* the deployment at hand, never changed
    store,     \* node -> local outbox chain, or None when no store exists
    synced,    \* node -> length of the chain that survives power loss
    objects,   \* recovery segments completely present in the object store
    proc,      \* node -> its server process
    round,     \* node -> the publish round it runs, or None
    req        \* request -> [at, stage]

vars == <<controlVars, deployment, store, synced, objects, proc, round, req>>

Shared == deployment.mode = "Shared"

Down == [pc |-> "down", open |-> None, record |-> None, lease |-> None,
         intent |-> None]

Init ==
    /\ control = Unassigned /\ session = None /\ nextLease = 0
    /\ placement = [r \in Roots |-> [generation |-> 1,
                                     lifecycle |-> "Provisioning"]]
    /\ granted = {} /\ served = {}
    /\ deployment \in Deployments
    /\ store = [n \in Owners |-> None]
    /\ synced = [n \in Owners |-> 0]
    /\ objects = {}
    /\ proc = [n \in Owners |-> Down]
    /\ round = [n \in Owners |-> None]
    /\ req = [r \in Requests |-> [at |-> None, stage |-> "new"]]

Row(epoch, request) == [epoch |-> epoch, request |-> request]
Rows(chain) == {chain[i].request : i \in 1..Len(chain)}
LocalEpoch(chain) == IF chain = <<>> THEN 0 ELSE chain[Len(chain)].epoch
DurableChain(record) ==
    IF record.log = <<>> THEN <<>> ELSE record.log[Len(record.log)].digest

-----------------------------------------------------------------------------
(* Proofs about a local store (recovery_installer.rs).                     *)

\* Bug: the local chain is compared with the frontier by LSN alone.
DurablePrefixByLsn(record, chain) == Len(chain) >= record.durable

\* validate_local_durable_recovery_prefix
DurablePrefix(record, chain) == IsPrefix(DurableChain(record), chain)

\* validate_local_pending_segment
PendingIsLocal(record, chain) ==
    record.pending # None =>
        /\ Len(chain) >= record.pending.last
        /\ SubSeq(chain, 1, record.pending.last) = record.pending.digest

\* validate_local_recovery_prefix
LocalPrefix(record, chain) ==
    DurablePrefix(record, chain) /\ PendingIsLocal(record, chain)

\* install_durable_recovery_log: nothing to do when the local chain already
\* reaches the frontier; otherwise every durable segment is read and replayed.
CanInstall(record, chain) ==
    IF Len(chain) >= record.durable
    THEN DurablePrefix(record, chain)
    ELSE /\ IsPrefix(chain, DurableChain(record))
         /\ \A i \in 1..Len(record.log) : record.log[i] \in objects

Installed(record, chain) ==
    IF Len(chain) >= record.durable THEN chain ELSE DurableChain(record)

-----------------------------------------------------------------------------
(* bootstrap_shard.                                                        *)

\* The epoch the local store must carry (prepare_acquiring_meta).
EpochAdmissible(record, previous, chain) ==
    IF previous = 0 THEN LocalEpoch(chain) = 0
    ELSE \/ LocalEpoch(chain) = previous
         \/ record.state = "Recovering" /\ LocalEpoch(chain) = previous - 1

\* Open or create the local store and prove it against the control record,
\* before anything is acquired.  A store created here stays.
Boot(n, open, previous) ==
    LET found == IF store[n] = None THEN <<>> ELSE store[n]
        chain == IF open = "RecoverLog" THEN Installed(control, found) ELSE found
    IN  /\ proc[n].pc = "down"
        /\ n \in deployment.nodes
        /\ nextLease < MaxLeases
        /\ CASE open = "New"        -> /\ store[n] = None /\ previous = 0
                                       /\ control.durable = 0
                                       /\ control.pending = None
             [] open = "Existing"   -> store[n] # None
             [] open = "RecoverLog" -> Shared /\ previous # 0
        /\ IF open = "RecoverLog" THEN CanInstall(control, found)
           ELSE LocalPrefix(control, found)
        /\ previous # 0 => previous = control.epoch
        /\ EpochAdmissible(control, previous, chain)
        /\ store' = [store EXCEPT ![n] = chain]
        /\ synced' = [synced EXCEPT ![n] = Len(chain)]
        /\ proc' = [proc EXCEPT ![n] = [Down EXCEPT
                      !.pc = "opened", !.open = open,
                      !.record = [epoch |-> previous, state |-> control.state]]]
        /\ UNCHANGED <<controlVars, objects, round, req>>

\* admit_owner, decided from the record read when the store was opened.
Admit(n) ==
    /\ proc[n].pc = "opened"
    /\ nextLease < MaxLeases
    /\ LET seen == proc[n].record
       IN  IF seen.epoch = 0 THEN AcquireOwner(n)
           ELSE IF seen.state = "Recovering"
                THEN ReacquireRecovery(n, seen.epoch)
                ELSE AcquireSuccessor(n, seen.epoch)
    /\ proc' = [proc EXCEPT ![n].pc = "admitted", ![n].lease = session',
                            ![n].record = None]
    /\ UNCHANGED <<store, synced, objects, round, req>>

\* reconcile_acquired_recovery up to its first side effect: install what is
\* durable, then resolve a pending upload from its object.
Reconcile(n) ==
    LET chain == Installed(control, store[n])
        segment == SegmentOf(control.pending)
        shared == proc[n].open = "RecoverLog"
        adopt == shared /\ control.pending # None
                        /\ Len(chain) < control.pending.last
    IN  /\ proc[n].pc = "admitted"
        /\ Holds(proc[n].lease)
        /\ IF shared THEN CanInstall(control, store[n])
           ELSE LocalPrefix(control, store[n])
        /\ shared /\ ~adopt => PendingIsLocal(control, chain)
        /\ adopt => chain = DurableChain(control)
        /\ IF adopt /\ segment \notin objects
           THEN /\ store' = [store EXCEPT ![n] = chain]
                /\ synced' = [synced EXCEPT ![n] = Len(chain)]
                /\ proc' = [proc EXCEPT ![n].pc = "cleanup",
                                        ![n].intent = control.pending]
           ELSE LET final == IF adopt THEN control.pending.digest
                             ELSE IF shared THEN chain ELSE store[n]
                IN  /\ store' = [store EXCEPT ![n] = final]
                    /\ synced' = [synced EXCEPT ![n] = Len(final)]
                    /\ proc' = [proc EXCEPT ![n].pc = "reconciled"]
        /\ UNCHANGED <<controlVars, objects, round, req>>

\* cleanup_pending_recovery_upload: delete the keys of the pending plan.  The
\* object store knows nothing of leases.
CleanupPending(n) ==
    /\ proc[n].pc = "cleanup"
    /\ objects' = objects \ {SegmentOf(proc[n].intent)}
    /\ proc' = [proc EXCEPT ![n].pc = "abort"]
    /\ UNCHANGED <<controlVars, store, synced, round, req>>

AbortPending(n) ==
    /\ proc[n].pc = "abort"
    /\ AbortRecoveryUpload(proc[n].lease, proc[n].intent)
    /\ CanInstall(control', store[n]) /\ LocalPrefix(control', store[n])
    /\ proc' = [proc EXCEPT ![n].pc = "reconciled", ![n].intent = None]
    /\ UNCHANGED <<store, synced, objects, round, req>>

\* Append a row and wait for the local acknowledgement.
WriteLocally(n, row) ==
    /\ store' = [store EXCEPT ![n] = Append(store[n], row)]
    /\ synced' = [synced EXCEPT ![n] = Len(store[n]) + 1]

\* Bug: a successor serves under its predecessor's local epoch.
ActivateWithoutAdvance(n) ==
    /\ proc[n].pc = "reconciled"
    /\ LocalEpoch(store[n]) \in {proc[n].lease.epoch, proc[n].lease.epoch - 1}
    /\ proc' = [proc EXCEPT ![n].pc = "first"]
    /\ UNCHANGED <<controlVars, store, synced, objects, round, req>>

\* activate_shard, then the first publish_current.
Activate(n) ==
    LET epoch == proc[n].lease.epoch
    IN  /\ proc[n].pc = "reconciled"
        /\ IF LocalEpoch(store[n]) = epoch THEN UNCHANGED <<store, synced>>
           ELSE /\ LocalEpoch(store[n]) = epoch - 1
                /\ WriteLocally(n, Row(epoch, None))
        /\ proc' = [proc EXCEPT ![n].pc = "first"]
        /\ UNCHANGED <<controlVars, objects, round, req>>

\* attach_root, then the publish_current calls that precede mark_serving.
Attach(n) ==
    /\ proc[n].pc = "attach"
    /\ IF RootFence \in Rows(store[n]) THEN UNCHANGED <<store, synced>>
       ELSE WriteLocally(n, Row(proc[n].lease.epoch, RootFence))
    /\ proc' = [proc EXCEPT ![n].pc = "second"]
    /\ UNCHANGED <<controlVars, objects, round, req>>

AnnounceServing(n) ==
    /\ proc[n].pc = "mark"
    /\ MarkServing(proc[n].lease,
                   [checkpoint |-> None, log |-> <<>>,
                    durable |-> proc[n].record.durable])
    /\ proc' = [proc EXCEPT ![n].pc = "serving", ![n].record = None]
    /\ UNCHANGED <<store, synced, objects, round, req>>

\* rollback_bootstrap: the attempt stays Recovering and gives up its session.
Abandon(n) ==
    /\ proc[n].pc \notin {"down", "serving", "releasing", "release"}
    /\ IF proc[n].lease # None /\ Suspendable(proc[n].lease)
       THEN SuspendRecovery(proc[n].lease)
       ELSE UNCHANGED controlVars
    /\ proc' = [proc EXCEPT ![n] = Down]
    /\ round' = [round EXCEPT ![n] = None]
    /\ UNCHANGED <<store, synced, objects, req>>

-----------------------------------------------------------------------------
(* Requests and the publish round (recovery_publisher.rs).  That a caller  *)
(* is covered only by a round that starts after it is module               *)
(* CoveringRounds: a round here covers the requests waiting when it starts. *)

\* RecoveryPublishingExecutor::execute: a shared owner repairs first.
Arrive(n, r) ==
    /\ proc[n].pc = "serving"
    /\ req[r].stage = "new"
    /\ req' = [req EXCEPT ![r] = [at |-> n, stage |-> IF Shared
                                                      THEN "arrived"
                                                      ELSE "admitted"]]
    /\ UNCHANGED <<controlVars, store, synced, objects, proc, round>>

\* The engine commits the row; write_session releases its gate before the
\* row reaches the local acknowledgement boundary.
Execute(n, r) ==
    /\ proc[n].pc \in {"serving", "releasing"}
    /\ req[r] = [at |-> n, stage |-> "admitted"]
    /\ LocalEpoch(store[n]) = proc[n].lease.epoch
    /\ store' = [store EXCEPT ![n] = Append(store[n],
                                            Row(proc[n].lease.epoch, r))]
    /\ req' = [req EXCEPT ![r].stage = "executed"]
    /\ UNCHANGED <<controlVars, synced, objects, proc, round>>

\* Bug: the request goes on before its row is durable.
LocalAckWithoutBarrier(n, r) ==
    /\ req[r] = [at |-> n, stage |-> "executed"]
    /\ req' = [req EXCEPT ![r].stage = "waiting"]
    /\ UNCHANGED <<controlVars, store, synced, objects, proc, round>>

\* acknowledge_or_defer: the request's row is durable, and it calls
\* publish_current.
LocalAck(n, r) ==
    /\ req[r] = [at |-> n, stage |-> "executed"]
    /\ synced' = [synced EXCEPT ![n] = Len(store[n])]
    /\ req' = [req EXCEPT ![r].stage = "waiting"]
    /\ UNCHANGED <<controlVars, store, objects, proc, round>>

Waiting(n) == {r \in Requests : req[r].at = n
                                /\ req[r].stage \in {"arrived", "waiting"}}

\* Requests that hold a permit of the owner registry.
InFlight(n) == {r \in Requests : req[r].at = n
                   /\ req[r].stage \in {"arrived", "admitted", "executed", "waiting"}}

\* publish_round: the barrier of a shared round; a local-only round only
\* proves ownership.  A release publishes once its requests are drained.
StartRound(n) ==
    /\ round[n] = None
    /\ \/ proc[n].pc \in {"first", "second"}
       \/ proc[n].pc \in {"serving", "releasing"} /\ Waiting(n) # {}
       \/ proc[n].pc = "releasing" /\ InFlight(n) = {}
    /\ synced' = IF Shared
                 THEN [synced EXCEPT ![n] = Len(store[n])] ELSE synced
    /\ round' = [round EXCEPT ![n] =
                   [step |-> IF Shared THEN "sample" ELSE "confirm",
                    covers |-> Waiting(n), required |-> None, intent |-> None]]
    /\ UNCHANGED <<controlVars, store, objects, proc, req>>

SampleFrontier(n) ==
    /\ round[n] # None /\ round[n].step = "sample"
    /\ round' = [round EXCEPT ![n].step = "prove", ![n].required = store[n]]
    /\ UNCHANGED <<controlVars, store, synced, objects, proc, req>>

\* validate_control_frontier
FrontierOk(record, required) ==
    /\ record.durable <= Len(required)
    /\ record.durable = Len(required) => DurableChain(record) = required

\* What the caller of a successful round does next.
Covered(n, durable) ==
    /\ round' = [round EXCEPT ![n] = None]
    /\ proc' = CASE proc[n].pc = "first"  -> [proc EXCEPT ![n].pc = "attach"]
                 [] proc[n].pc = "second" ->
                      [proc EXCEPT ![n].pc = "mark",
                                   ![n].record = [durable |-> durable]]
                 [] proc[n].pc = "releasing" /\ round[n].covers = {} ->
                      [proc EXCEPT ![n].pc = "release"]
                 [] OTHER -> proc
    /\ req' = [r \in Requests |->
                 IF r \notin round[n].covers THEN req[r]
                 ELSE [at |-> n, stage |-> IF req[r].stage = "arrived"
                                           THEN "admitted" ELSE "acked"]]

\* confirm_local_only
ConfirmLocalOnly(n) ==
    /\ round[n] # None /\ round[n].step = "confirm"
    /\ Holds(proc[n].lease)
    /\ FrontierOk(control, store[n])
    /\ control.pending = None
    /\ Covered(n, control.durable)
    /\ UNCHANGED <<controlVars, store, synced, objects>>

\* Bug: matching frontiers are taken for a proof of ownership.
AlreadyPublishedUnproved(n) ==
    /\ round[n] # None /\ round[n].step = "prove"
    /\ control.pending = None /\ control.durable = Len(round[n].required)
    /\ Covered(n, control.durable)
    /\ UNCHANGED <<controlVars, store, synced, objects>>

\* publish_required: everything sampled is durable already.
AlreadyPublished(n) ==
    /\ round[n] # None /\ round[n].step = "prove"
    /\ Holds(proc[n].lease)
    /\ FrontierOk(control, round[n].required)
    /\ control.pending = None /\ control.durable = Len(round[n].required)
    /\ Covered(n, control.durable)
    /\ UNCHANGED <<controlVars, store, synced, objects>>

\* plan_next_segment, or restore_pending_segment of an earlier round.
PlanSegment(n) ==
    LET required == round[n].required
        next == [first |-> control.durable + 1, last |-> Len(required),
                 prev |-> DurableChain(control), digest |-> required]
    IN  /\ round[n] # None /\ round[n].step = "prove"
        /\ Holds(proc[n].lease)
        /\ FrontierOk(control, required)
        /\ IF control.pending # None
           THEN /\ PendingIsLocal(control, store[n])
                /\ round' = [round EXCEPT ![n].step = "prepare",
                                          ![n].intent = control.pending]
           ELSE /\ control.durable < Len(required)
                /\ Len(control.log) < MaxSegments
                /\ DurablePrefix(control, store[n])
                /\ round' = [round EXCEPT ![n].step = "prepare",
                                          ![n].intent = next]
        /\ UNCHANGED <<controlVars, store, synced, objects, proc, req>>

PrepareUpload(n) ==
    /\ round[n] # None /\ round[n].step = "prepare"
    /\ PrepareRecoveryUpload(proc[n].lease, round[n].intent)
    /\ round' = [round EXCEPT ![n].step = "upload"]
    /\ UNCHANGED <<store, synced, objects, proc, req>>

\* write_recovery_log_segment_from_plan: create-if-absent, never fenced.
Upload(n) ==
    /\ round[n] # None /\ round[n].step = "upload"
    /\ objects' = objects \cup {SegmentOf(round[n].intent)}
    /\ round' = [round EXCEPT ![n].step = "finalize"]
    /\ UNCHANGED <<controlVars, store, synced, proc, req>>

FinalizeUpload(n) ==
    /\ round[n] # None /\ round[n].step = "finalize"
    /\ FinalizeRecoveryUpload(proc[n].lease, round[n].intent,
                              PublicationAfterIntent(control, round[n].intent))
    /\ IF control'.durable >= Len(round[n].required)
       THEN FrontierOk(control', round[n].required) /\ Covered(n, control'.durable)
       ELSE /\ round' = [round EXCEPT ![n].step = "prove", ![n].intent = None]
            /\ UNCHANGED <<proc, req>>
    /\ UNCHANGED <<store, synced, objects>>

\* A failed round is the error of the request that ran it; the others wait
\* for a newer round.  A boot or a release gives up.
RoundFails(n) ==
    /\ round[n] # None
    /\ round' = [round EXCEPT ![n] = None]
    /\ IF round[n].covers = {}
       THEN /\ proc' = [proc EXCEPT ![n] = IF proc[n].pc = "releasing" THEN Down
                                          ELSE [proc[n] EXCEPT !.pc = "failed"]]
            /\ UNCHANGED req
       ELSE /\ \E r \in round[n].covers : req' = [req EXCEPT ![r].stage = "lost"]
            /\ UNCHANGED proc
    /\ UNCHANGED <<controlVars, store, synced, objects>>

-----------------------------------------------------------------------------
(* The end of a process.                                                   *)

\* ShardOwner::release: stop admission, drain, publish, release the lease.
BeginRelease(n) ==
    /\ proc[n].pc = "serving"
    /\ proc' = [proc EXCEPT ![n].pc = "releasing"]
    /\ UNCHANGED <<controlVars, store, synced, objects, round, req>>

Release(n) ==
    /\ proc[n].pc = "release"
    /\ ReleaseOwner(proc[n].lease)
    /\ proc' = [proc EXCEPT ![n] = Down]
    /\ UNCHANGED <<store, synced, objects, round, req>>

\* The process stops: by itself when keepalive finds the lease lost, or by a
\* crash.  Rows beyond the local acknowledgement boundary may be lost with
\* the machine.
Stop(n) ==
    /\ proc[n].pc # "down"
    /\ \E k \in synced[n]..Len(store[n]) :
         /\ store' = [store EXCEPT ![n] = SubSeq(store[n], 1, k)]
         /\ synced' = [synced EXCEPT ![n] = k]
    /\ proc' = [proc EXCEPT ![n] = Down]
    /\ round' = [round EXCEPT ![n] = None]
    /\ req' = [r \in Requests |-> IF r \in InFlight(n)
                                  THEN [at |-> n, stage |-> "lost"] ELSE req[r]]
    /\ UNCHANGED <<controlVars, objects>>

LoseDisk(n) ==
    /\ deployment.disksFail /\ proc[n].pc = "down" /\ store[n] # None
    /\ store' = [store EXCEPT ![n] = None]
    /\ synced' = [synced EXCEPT ![n] = 0]
    /\ UNCHANGED <<controlVars, objects, proc, round, req>>

ExpireSession ==
    SessionEnds /\ UNCHANGED <<store, synced, objects, proc, round, req>>

-----------------------------------------------------------------------------

Bootstrap(n) ==
    \/ \E open \in {"New", "Existing", "RecoverLog"}, previous \in 0..MaxLeases :
         Boot(n, open, previous)
    \/ Admit(n) \/ Reconcile(n) \/ CleanupPending(n) \/ AbortPending(n)
    \/ Activate(n) \/ Attach(n) \/ AnnounceServing(n) \/ Abandon(n)

Publish(n) ==
    \/ StartRound(n) \/ SampleFrontier(n) \/ ConfirmLocalOnly(n)
    \/ AlreadyPublished(n) \/ PlanSegment(n) \/ PrepareUpload(n)
    \/ Upload(n) \/ FinalizeUpload(n) \/ RoundFails(n)

Serve(n) ==
    \E r \in Requests : Arrive(n, r) \/ Execute(n, r) \/ LocalAck(n, r)

End(n) == BeginRelease(n) \/ Release(n) \/ Stop(n) \/ LoseDisk(n)

Next ==
    /\ \/ \E n \in Owners : Bootstrap(n) \/ Publish(n) \/ Serve(n) \/ End(n)
       \/ ExpireSession
    /\ UNCHANGED deployment

Spec == Init /\ [][Next]_vars

-----------------------------------------------------------------------------
Acked == {r \in Requests : req[r].stage = "acked"}

\* A process that holds the live session and answers requests.
IsServing(n) ==
    proc[n].pc \in {"serving", "releasing"} /\ Holds(proc[n].lease)

(* No acknowledged write is ever missing from the store of a serving       *)
(* owner, whatever crashed, expired or was retried between the             *)
(* acknowledgement and the takeover.                                       *)
AckedSurvive ==
    \A n \in Owners : IsServing(n) => Acked \subseteq Rows(store[n])

(* In shared mode a write is acknowledged only once the control record's   *)
(* durable log contains it.                                                *)
AckedDurable ==
    Shared => Acked \subseteq Rows(DurableChain(control))

(* Recovery attempts that fail and are resumed leave no epoch gap: the     *)
(* durable log of a shard that is not recovering ends in its owner's       *)
(* epoch, and a recovering one is at most one epoch behind, so some node   *)
(* can always be admitted.                                                 *)
NoEpochGap ==
    Shared =>
        IF control.state = "Recovering"
        THEN LocalEpoch(DurableChain(control)) \in
               {control.epoch, control.epoch - 1}
        ELSE LocalEpoch(DurableChain(control)) = control.epoch

(* The durable log only grows, whichever owner writes it.                  *)
DurableLogGrows ==
    [][IsPrefix(DurableChain(control), DurableChain(control'))]_vars

(* Every segment the control record names can be read: a log-only          *)
(* successor can install it.                                               *)
DurableLogReadable ==
    \A i \in 1..Len(control.log) : control.log[i] \in objects

=============================================================================
