# TLA+ models of NoKV

NoKV is a metadata service for agent workspaces: namespaces of paths whose
bodies are artifacts in an object store, with snapshots, commits, restores and
background collection.  Metadata of a *logical shard* lives in an embedded
store that exactly one server process, its *owner*, may write.  Ownership, and
the durable end of the shard's recovery log, are recorded in a control store
(etcd, a local file store or an in-memory one).

This directory holds TLA+ modules of the parts where the code is hard to
test, TLC configurations that check them on small instances, and TLAPS proofs
of the most important results for every size.  Paths below are relative to the
repository's `crates/`.

1. [The system](#1-the-system)
2. [Modules and the code](#2-modules-and-the-code)
3. [Runs](#3-runs)
4. [Disagreements found](#4-disagreements-found)
5. [Proofs](#5-proofs)
6. [Only model-checked, and not modelled](#6-only-model-checked-and-not-modelled)
7. [Plan](#7-plan)

## 1. The system

### Components

| Component | State it keeps | Operations | Where |
|---|---|---|---|
| Control store | shard record (owner, epoch, lease, state, checkpoint, log references, durable LSN, pending upload), owner session, root placements, agent and object-namespace bindings | acquire owner / successor, reacquire recovery, mark serving, prepare / finalize / abort upload, suspend, release, placement create and compare-and-set | `nokv-control/src/{store,types,local,etcd}.rs` |
| Shard bootstrap and installer | the boot in progress: opened store, lease, keepalive | open and prove the local store, acquire, install durable segments, resolve a pending upload, activate, attach roots, mark serving, roll back, release | `nokv-server/src/{bootstrap,recovery_installer}.rs` |
| Recovery publisher | round counters, the outcome of the last round | `publish_current`: sample the outbox, prove ownership, plan, prepare, upload, finalize a segment | `nokv-server/src/recovery_publisher.rs`, `nokv-object/src/recovery_log_segment.rs` |
| Owner registry and server | routes, shard runtimes (closed flag, in-flight permits), owner-loss signal, connection slots | install, remove, dispatch, fail a shard closed, drain | `nokv-server/src/{registry,server}.rs` |
| Request executor | none of its own; request claims and steps are engine rows | one handler per RPC, claim of the request id, steps with derived ids, publish barrier | `nokv-server/src/{executor,request_fingerprint}.rs` |
| Metadata engine | versioned rows, history, dedupe rows, root fences, owner epoch, lease clock, recovery outbox | execute a command, read at a version, advance the epoch, observe the lease clock, replay a log row, durability barrier | `nokv-meta/src/workspace/{engine,recovery}.rs` |
| Artifact publication | artifact sessions, objects reserved and uploaded, publish operations | reserve, upload, publish, abandon, orphan takeover | `nokv-meta/src/workspace/publication*.rs` |
| Revision GC | revision metadata with reference counts, candidates, GC operations, history barrier | claim, begin deletion, delete batch, complete, quarantine | `nokv-meta/src/workspace/gc*.rs` |
| Snapshots, commits, restores | history holds, commit builds and closures, restore operations | create, renew, reap; build, publish, retire; restore in batches | `nokv-meta/src/workspace/{snapshot,commit,restore}*.rs` |
| Lifecycle worker | cursors of each recovery family | one bounded pass over publications, snapshots, restores, commit builds, commits, revisions | `nokv-server/src/lifecycle.rs` |
| Namespace operations, query, catalog, index | path, catalog and index rows | create, put, remove, rename; scans | `nokv-meta/src/workspace/{namespace,remove,rename,query,generic_index}*.rs` |
| Object stores | objects, local hot tier, caches | create-if-absent, read, delete | `nokv-object/src` |
| Access control and audit | policy, principals | authorize a request, refresh the policy | `nokv-server/src/{access,audit}.rs`, `nokv-control/src/identity.rs` |
| Wire protocol, client SDK, agent, CLI, Python | retry state of a client call | encode, decode, retry under one request id | `nokv-protocol`, `nokv-client`, `nokv-agent`, `nokv`, `nokv-python` |

### How they interact

A server process boots a shard: it opens or recreates the local store, proves
it against the control record, acquires the session and an owner epoch (or
resumes a recovery of the same epoch), brings the store up to the durable log,
resolves an upload a predecessor left pending, advances the local epoch,
publishes, attaches roots, publishes again and marks the record Serving.  A
mutating RPC is dispatched through the registry, which counts it in the
runtime of its shard; the executor claims the request id and runs its steps in
a write session of the engine; the result waits for the durability barrier;
the publishing executor then waits for a publish round that started after the
write, and only then is the response written.  Background work plans outside
the session and executes conditionally.  Keepalive, the engine and the
publisher each may discover that the lease is gone; whoever does fails the
shard closed.

### What is hard

* *Interleavings.*  Publish rounds shared by request threads; a barrier and a
  sample that are not atomic; sessions released before results are durable;
  an install racing a fail-close; plans made outside the gate.
* *Crashes and lost machines.*  Between claim and step; between prepare,
  upload, finalize; between local epoch advance and its publication; with or
  without the rows the operating system still held.
* *Stale actors.*  A process whose session expired keeps running.  Control
  mutations check its lease; object-store calls do not.
* *Retries.*  The same request id before and after an owner restart; a
  finalization whose answer was lost; an append attempted again while the
  first attempt may still finish.
* *Lost and late calls.*  An etcd transaction that commits after its caller
  gave up; an upload, a delete or a seal the provider executes later.
* *Half-done work.*  A publication its client abandoned, a restore aborted in
  the middle of a build: rows, references, holds and objects to take down.
* *Boundaries.*  LSN ranges meeting at a checkpoint, a deadline equal to the
  clock, the segment limit of a log chain, version = planned version + 1.

The `hazards` of `PROJECT.json` list these at their lines with the properties
that would catch each going wrong.

### What makes each component correct

* Control store: one live session, the one the record names; one Serving
  lease per epoch; a pending upload is handed on from owner to owner until one
  settles it exactly; the durable frontier is never lost or rewritten.  The etcd backend is that store: its calls answer
  the truth and a refused acquisition is never installed later.
* Publisher: Ok only after a round that began after the caller's write;
  rounds exclude one another; every call returns.
* Failover: no acknowledged write is missing from a serving owner; the
  durable log only grows; no epoch gap that would lock every node out.
* Engine and executor: every answer names the one commit of its request;
  answered reads are repeatable; a replayed log rebuilds the shard.
* Registry: after fail-close returned nothing of the shard runs or will, and
  fail-close returns.
* Revisions and their collection: whatever a path, a held version or a commit
  still resolves has all its objects, in the rows of the owner and in those a
  successor would recover; counts equal references; a revision is sealed
  Deleted only when its objects are gone; nothing unreferenced is forgotten.
* Publication: what is published can be read, in the rows of the owner and in
  those a successor would recover; every object in the provider is owned by a
  row of the durable ledger (the code falls short of both when a provider
  request outlives its owner, section 4); an acknowledged publication stays; an append is published
  once and the keys of its abandoned attempts stay sealed; a live operation is
  left alone and an abandoned one ends.
* Restore: the source stays whole until the restore is done with it; the
  result is exactly the source and its own manifests; all counts are exact at
  every step; peers that finalize together agree; an aborted restore leaves
  nothing and ends.

## 2. Modules and the code

`PROJECT.json` maps every definition to its lines.

### ControlRecord, ControlShard, ControlStore

`ControlRecord` is the pure part of `store.rs`: which publication, upload
intent or release a record accepts and the record that results
(`apply_recovery_publication`, `validate_log_ref`,
`validate_recovery_upload_intent`, `prepare_owner_acquisition`, ...).
A segment reference is its LSN range and its tail digest.  `ControlShard` is
one action per `ControlStore` operation on one shard and its root placements:
`control` is the record, `session` the live lease, `placement` the rows of the
roots; `granted` and `served` are history.  The three backends share the
transition functions; the in-memory call, the etcd transaction and the locked
file update are each one step.  `SessionEnds` is the expiry of the etcd lease
or the loss of the session lock file.  `ControlStore` lets any node call any
operation, under any lease ever granted, with any small argument.

### EtcdControl

The etcd backend, one etcd request per step.  `record`, `session`, `placement`
and `leases` are the keys and leases in etcd, `revision` the mod-revision of
the record key (record and recovery state are two keys always read and written
together).  `call[n]` is the `ControlStore` call node `n` has in progress: what
it has read, the record it wants to write and where it is.  An acquisition reads
the placement, the record, asks for a lease, transacts, and revokes its lease
when it lost; the other mutations read record and session, transact and, when
the answer is negative or lost, classify by reading again (`ClassifyRecord`,
`ClassifySession`, `CheckSessionless`, `InstallVisible...`).  `LoseReply` leaves
the transaction in `late`, to commit at any later time or never.  `CallFails` is
any failed request or a dead process; `LeaseExpires` ends a lease and the session
key attached to it.

It refines `ControlStore` (`Refines`): the abstract lease ids are the order of
installation, since etcd numbers also the leases that are never installed.

### CoveringRounds

`CoveringRounds::run` with one action per critical section: `Run` computes
`needed = started + 1` and enters the loop, `LoopPass` is one evaluation of
the loop under the mutex, `Wake` a return of the condition variable (also a
spurious one), `SampleFrontier` and `FinishRound` the round outside the mutex.
`observed[t]` records how much had been written when the caller of
`publish_current` began to wait.

### ShardFailover

Extends `ControlShard` with server processes, their disks and the object
store.  `deployment` is chosen once: the publication mode, the nodes that run
the shard, and whether a stopped node may lose its disk.  `store[n]` is the chain of outbox rows of node `n`'s local store and
`synced[n]` the part a power loss cannot take; the digest of a row is the
chain up to it, so equality of digests is equality of prefixes.  `proc[n].pc`
follows `bootstrap_shard`: opened, admitted, reconciled (through cleanup and
abort when a pending upload's object is missing), first publish, attach,
second publish, mark, serving, releasing.  `round[n]` is the publish round,
with a step each for the frontier sample, the proof of ownership, the plan,
prepare, upload and finalize.  Every control-store mutation is the
`ControlShard` action itself.  Upload and object deletion are unfenced, as in
the code.  A client's requests move through arrived (the repair publish that
precedes execution), admitted, executed, waiting, acked or lost.

Checkpoints are None: nothing in the server publishes one.

### MetaEngine, MetaShard

`MetaEngine` is the engine as operators on a store record: rows with version
and history, dedupe rows, the root fence, owner epoch, lease clock and outbox;
`CommandAdmitted`/`Executed` are `execute_with_lease_deadline_unlocked` and
`build_command_txn`, `ReplayAdmitted`/`Replayed` the replay of a log row of any
of the three kinds, `ReadAt` the read at a version.  `MetaShard` composes it
with the executor's protocol: `BeginRpc` claims the request id, `ReplayStep`,
`ExecuteStep` and `RefuseStep` are the outcomes of the step in the same write
session, `Acknowledge` the durability barrier after the gate is released.
`PlanJob`/`RunJob` are the worker's commands, `Crash` an owner restart and
`Replay` a log-only successor.  Operations are sets of row writes: a create
whose step leaves deduplication to the engine, a put with a lease deadline, a
remove.

### OwnerRegistry

`registry.rs`: `owners` is the route table, `writer` the write lock across the
two steps of `install` (the owner-loss flag it tests is an atomic no lock
protects), `closed` and `permits` the runtime of each shard, `asleep` the
threads in `wait_until_drained`, `lost` the `OwnerLossSignal`.  A response
keeps its permit until `serve_connection` has written it; a thread whose
executor reports a lost placement drops its permit and fails the shard closed
itself; the lifecycle worker takes a permit around each destructive batch.

### RevisionGc

The life of artifact revisions in one visible workspace that has a head
commit.  `db` is the rows of the serving store: `rev` the
`ArtifactRevisionRecord`s, `refs` the `RevisionRef` rows of the three kinds,
`cand` and `gc` the collector's candidates and operations, `hold` the history
holds of builds and snapshots with the bindings their version resolves, `build`
the commit builds, `path` the current bindings.  `durable` is the rows of the
last publication of the recovery log, `objects` the provider's objects, `late`
those a delete of unknown outcome may still remove.

Client handlers are one step each, since a command commits one version above
the one it read or has no effect (`StampsAreExact`, proved): `Publish` is
`finalize_publish` of a new body or of an append that reuses the blocks of its
base; `RemovePath`; `MintSnapshot`, `ReleaseSnapshot` (retirement and expiry);
`BeginBuild`, `BuildMember`, `FinalizeBuild`, `AbortBuild`, `CleanupMember`,
`FinishCleanup`.  `Touched` is the update of epoch, count, zero version and
candidate they all share.

The worker follows `collect_revisions`, `resume_gc` and `delete_gc_batch`: it
lists a page, visits its entries in key order, and for each claims, raises the
history barrier, defers, clears a stale candidate, or takes the next step of
the deletion; each provider delete is a step of its own, preceded by the
publication of the recovery log, which may fail and end the cycle.  A client command
since the worker last looked sets `raced`, and then `Defer` may replace the worker's own
command.  `DeleteAmbiguous` is a failed provider call, which may have deleted,
or delete later (`LateDelete`).  `Crash` and `Restart` bring up a successor on
the durable rows.

Abstractions: a build attaches one member per command and its sealing steps
are part of `FinalizeBuild`; the phase Aborting is passed in `AbortBuild`; the
tree manifest is one of the members; every revision is bound to one path, so a build
never finds its reference already there; revision identities are handed out in
order; a page holds the whole queue; the cleaner's Retryable error, which no adapter in
the server returns, is left out.

### Publication

Generic publications and the attempts of one logical append, from admission to
the end of their ledger.  A plan, chosen at the start, gives each operation its
revision and attempt number.  `db` is the rows: the publish operations with
their cursors, the claim on each revision, the published revisions, manifest
rows, the logical append (`parent`), the generation of the path, and the index
of active operations.  `durable` is what a successor recovers, `objects` the
provider, `puts` uploads in flight (sent, stored, or late: nobody waits for
them), `doomed` the keys a cleanup of unknown outcome may still reach, also
those of an owner that crashed.  `struck` and `emptied` are history: the keys
such a cleanup struck after its caller was gone, and the objects a cleanup has
removed, sealed or found absent.

Client steps are `Begin`, `StageObjects`, `AdmitUpload`, `RecordUpload`,
`StageManifest`, `BeginFinalization`, `FinalizePublish`, `AbortPublish`,
`FailAppendConflict`, `RetryAppendCleanup`; each is one metadata command,
heartbeat included (`Heartbeat`).  A caller needs the digest of the current
operation, which it learned from a reply that waited until it was durable:
`TokenHeld`.  The worker observes an orphan and takes it over in two steps, with
the comparison of the complete row in between; it cleans in batches, publishing
the recovery log before each provider call; ambiguity quarantines.  The operator
reconciles a quarantined generic publication.  `Crash` and `Restart` bring up a
successor whose clock may be behind.

Abstractions: payloads are the operation that wrote them; digests of rows are
the rows; the heartbeat deadline is a flag; publications under commit authority
and rows from before revision claims existed are left out.

### Restore

Restores of a commit or a snapshot, with everything that may disturb them:
abort, cleanup, manifest publications, snapshot retirement and reaping, head
changes, commit retirement, path removals and collection.  A plan gives the rows
of the base commit, of the snapshot, the source and destination name of each
restore.  `db` is the rows: `op` the restore operations with their cursors, `ws`
the destination names, `pub` the manifest publications, `entry` the paths,
`ledger` the copied members, `commit`, `member`, `ref` and `consumer` the
commits, `snapshot` and `hold` the snapshot, `rev` the revisions with their
counts.  `session` is the finalize requests in progress, each at the phase it
saw last; several may drive one restore.  `worker` is the lifecycle worker,
whose observation of an expired snapshot or an unconsumed commit is a step apart
from its command.

Abstractions: a path is a number in canonical order; source digests are the rows
themselves; generic indexes, renewal of snapshots, replay of request ids and the
quarantine for want of cleanup capacity (excluded by
`every_copied_member_can_be_cleaned`) are left out; collection of a revision is
one step, as is the cleaning of a publication's objects (`RevisionGc` and
`Publication` have their steps); durability is not modelled here.

## 3. Runs

| Run | Instance | Question |
|---|---|---|
| `ControlStore` | 2 nodes, 2 digests, LSNs to 2, 3 leases, 1 root, 2 segments | Do sessions, epochs, pending uploads and the frontier stay sound under arbitrary, also stale, callers? |
| `CoveringRounds` | 3 threads, 4 calls | Is every Ok covered, do rounds exclude one another, does every call return? |
| `EtcdControl` | 2 nodes, 2 etcd leases, 1 lost reply outstanding, 4 writes of the record | Is every etcd request a step of the atomic store or none? Are answers true, refusals final? |
| `Failover` | shared on 2 nodes with disk loss, or LocalOnly on 1 node; 1 write, 3 acquisitions, crashes and power loss | Does a serving owner hold every acknowledged write? Is it in the durable log? Does the log only grow, without an epoch gap? |
| `MetaShard` | 2 request ids, create/put/remove, 1 read at any version, 2 epochs; or put/remove with the worker, the lease clock and a successor | Does every answer name the one commit of its request? Can an answered read be repeated? Does the log rebuild the shard? Are stamped versions exact, deadlines strict? |
| `OwnerRegistry` | 3 threads, 1 shard, 2 epochs | Is a shard fenced once fail-close returned? Does every fail-close return? |
| `RevisionGc` | 1 path, 2 revisions of 1 own block, batches of 2, 1 build, 1 snapshot, 4 client commands, 1 crash | Does every reader find every object? Are counts exact, deletions complete, and is everything unreferenced collected? |
| `Publication` | plans: two operations of one revision; two attempts of an append; an append of 2 objects on a contended path. 2 uploads in flight, 1 provider failure, 1 crash | When is what is published readable, and what is stored owned by a row? Are appends exactly once, abandoned keys sealed, live operations spared, abandoned ones ended? |
| `Restore` | plans: two finalizers; a snapshot; a restore of a restore; a name used again; a source without artifacts. Batches of 1 | Is the source held, the result whole, every count exact, cleanup complete? Do finalizers agree and aborts end? |
| `LateCleanup`, `LateDelete`, `OrphanedManifest` | | Section 4 |

*Why the bounds are enough.*  Two nodes and three acquisitions contain a
takeover, a resumption of the same epoch by another node and a return of the
first node with an old store; a third node repeats the second.  Two digests
suffice to tell a diverged chain from an equal one, LSN 2 to have a segment
boundary inside the log, two segments to have a prefix and a tail.  Three
threads give `CoveringRounds` a runner, a waiter from before the round and a
latecomer, and the registry a worker, an installer and a closer.  One client
write in `Failover` already meets every stage of a takeover.  Two leases and two
nodes let `EtcdControl` have an acquisition that is lost and late against one
that succeeds, and four writes a full life of the record.  One request id retried with another
operation and one with the same cover the dedupe cases; a behaviour of
`MetaShard` either has retries, restarts and reads or has the worker, the lease
clock and a successor (`MCNext`), since both at once do not fit; the proofs are
about both at once.  Two revisions give
`RevisionGc` an owner and an append that reuses its block, and a batch of two rows
then mixes a reused and an own row; a build may have begun before the model
does, so four commands suffice to replace a path, reference its old revision
again and release it.  In `Publication` two operations are enough for one to
inherit what the other left; two objects give a batch that is half done, and
one failure and one crash each of the ambiguous cases.  The plans of `Restore`
have two or three paths with batches of one, so that every loop can be left in
the middle, and a revision shared by two paths; one restore of a restore is the
shortest chain of commits.  Three of the plans, the snapshot, the chain and the
name used again, have one manifest instead of two, which bounds the product of their
publications.  Bounds are named
constants (`MaxLeases`, `MaxLsn`, `MaxSegments`, `MaxCalls`, `MaxEpoch`,
`MaxLease`, `MaxReads`, `MaxReplay`, `MaxGeneration`, `MaxRevision`,
`MaxCommands`, `MaxCrashes`, `MaxGrants`, `MaxLost`, `MaxUploads`,
`MaxFailures`, `MaxRetries`) in the guards.

*Deadlock* is not checked: every instance may run out of leases, requests or
calls and stop.

*Symmetry* is used on interchangeable nodes, digests and request ids, never in a
run with a liveness property.

*Fairness.*  Liveness is checked for `CoveringRounds` and `OwnerRegistry`
under weak fairness of each thread's own steps once it is inside the call: the operating system schedules threads, `notify_all` wakes every waiter,
control-store calls and response writes have timeouts, and a mutex is held for
bounded time.  The code puts no timeout on a provider delete: that one returns,
with or without success, is taken for granted where a permit is held across it.  No fairness is assumed for arrivals, crashes or for which
waiter gets a mutex; with unboundedly many callers whose rounds all fail, a
waiter of `CoveringRounds` may starve, and the run therefore bounds calls.
`RevisionGc` assumes weak fairness of the worker, whose loop polls for ever, and
of the restart of a failed owner, and strong fairness of the publication before
a delete: it is retried every cycle and a control store that answers at all
lets it through in the end.  It assumes nothing of clients or the provider.
`Publication` and `Restore` assume that time passes (a deadline that is not
renewed expires), that every cycle of the worker visits every operation it finds
(strongly fair in `Publication`, where other operations keep the worker busy)
and that a shard that failed closed is reopened.  `OrphansResolve` excuses
clients that renew for ever.  `AbortsResolve` excuses a worker that fails the
shard closed for ever over something else than a cleanup, which does happen (see
`OrphanedManifest`), or over the cleanup of a restore that copied nothing
(section 4); a cleanup of any other restore has to come to an end.

## 4. Disagreements found

Each is a run that TLC must find violated; `findings` quotes both sides.

* `LateCleanup`: the architecture says the owner epoch keeps an old process
  from deleting objects after failover.  The deletion of a pending upload's
  keys is not fenced, and a stalled recovery can delete a segment that has
  since been published.
* `LateDelete`: the same sentence, of the objects of a publication.  The delete
  of an aborted publication's object carries no epoch.  An owner dies while the
  provider has its request; the successor finishes the cleanup and releases the
  claim on the revision; another publication is given the same revision and
  publishes; then the delete takes effect.  `ReadableUnlessReused` says that this
  is the only way a published object is lost, and is proved.
* `OrphanedManifest`: `take_over_orphaned_publish` says a newer owner may take
  an orphaned publication over at once.  For a manifest of a restore it needs
  the restore to be aborting, and nothing aborts one whose publisher died: the
  command is refused, the worker takes that for fatal, and the next owner fails
  in its first cycle as well.

Also seen while modelling, and checked the same way before other properties took
the place of those runs:

* `docs/metadata-schema.md:715-717` says a same-id retry replays after an owner
  restart.  `create_workspace` (`executor.rs:383-398`) leaves replay to the
  engine, whose digest binds the owner epoch (`engine.rs:231`), and the retry is
  refused as a mismatch: `refused = {}` is not an invariant of `MetaShard`.
* `docs/development/metadata-store-interface.md:271-275` says a LocalOnly
  authority is never substituted.  `prepare_acquiring_meta` (`bootstrap.rs:996`)
  compares the owner epoch only, so a second node whose own store reached that
  epoch is admitted: a LocalOnly deployment on two nodes violates
  `AckedSurvive`.
* `docs/metadata-schema.md:760-761` says a new reference makes an old GC
  candidate stale.  `claim` (`gc.rs:791`) tests the count before the epoch and
  answers with an error the worker takes for fatal: `worker.pc # "failed"` is
  not an invariant of `RevisionGc`.
* The worker is to stop only for lost ownership or a broken invariant
  (`lifecycle.rs:471-472`).  `publication_concurrent` (`lifecycle.rs:1825`) does
  not count `PublicationError::ConcurrentMutation` as a lost race, so a heartbeat
  that beats a takeover fails the shard closed; `commit_concurrent` and
  `snapshot_concurrent` have the same gap for a restore that pins a commit or a
  snapshot between scan and command.  All three are steps of the models
  (`TakeOverFails`, `BeginRetirement`, `ClaimExpiredSnapshot`).
* `docs/metadata-schema.md:804-806` says that an ambiguous create or a late PUT
  remains ledger-owned and Quarantined until it is reconciled.  A create whose
  caller gave up, or died, and which the provider executes after the worker has
  found the key empty and has deleted the staged row, leaves an object no row
  owns: without its last alternative, `<<o, i>> \in emptied`, `ObjectsAreLedgered`
  is violated in 13 states.  With it the property is proved: an upload its own
  cleanup overtook is the only one that leaves such an object.
* An abort of a restore without artifacts, after its commit was built, leaves
  scaffolding `finish_restore_cleanup` refuses for ever (only the `abort_restore`
  API reaches it, which has no caller in the server): the last excuse of
  `AbortsResolve`.
* An owner's heartbeat with a deadline no later than the stored one is accepted
  before the epoch is compared (`executor.rs:4590-4611`): `Heartbeat` and
  `PublishManifest` accept it too.

By reading, not by a run: `docs/metadata-schema.md:1107-1111` says completion
releases the source hold, the code hands it to the child commit.  The
durability barrier and the frontier sample of a publish round are separate
calls, so a row of another thread can be uploaded before its own barrier (no
acknowledged write depends on it); a publish round that panics leaves `running`
set; a log chain at its segment limit makes the shard unavailable, since no
checkpoint is ever published; the record states Draining and ReadOnly are
declared and never set.

## 5. Proofs

All for arbitrary constants satisfying the named assumptions.

* **ControlStoreProofs**: `TypeCorrect`, `SessionUnique`
  (`SessionIsCurrent`), `EpochServedOnce` (`OneServingLeasePerEpoch`),
  `PendingSettles` (`PendingIsSettled`, an action property), `FrontierNeverLost`
  (`DurableFrontierKept`).  The invariant adds that granted leases have
  distinct ids up to `nextLease`, that their epochs are at most the record's,
  and that while the record is Recovering no lease of its epoch has served.  The
  recovery references have an invariant of their own: the record is one that
  `validate_logical_shard_record` accepts, so that its references end at the
  durable LSN; every operation writes only such records.  `PendingSettles` joins
  the two halves: who settles an upload holds the lease of the record, and
  therefore the live session; a publication that finalizes one is accepted only
  with a log that ends at the upload's last LSN and digest, or with a checkpoint
  there, and a checkpoint from before that end leaves the end to the log.
* **EtcdControlProofs**: `RefusalsStand` (`RefusedNeverInstalled`),
  `AnswersTrue` (`AnswersAreTrue`), `Refinement` (initial states and steps) and
  `RefinesStore` (`Refines`): every etcd request is a step of `ControlStore` or
  leaves it as it is.  The invariant says of a transaction that was sent, by a
  call under way or by one in `late`, that as long as the record still has the
  mod-revision it compares, it writes what its operation makes of the record;
  that a lease being installed belongs to one transaction and has been refused
  to nobody; that `installs` names each lease once and knows the lease of the
  record, of the session and of every answer; and of a mutation that an answer
  it has settled on is true, or would be by the step that gives it.
* **ShardFailoverProofs**: `Invariant`, `AnsweredSurvives` (`AckedSurvive`),
  `AnsweredIsDurable` (`AckedDurable`), `EpochsHaveNoGap` (`NoEpochGap`),
  `LogOnlyGrows` (`DurableLogGrows`).  The invariant says of the record that its
  references cover the durable log without a gap and that the objects behind
  them are that log; of a process past admission that its store extends the
  durable log and agrees with the record in epoch as far as its step has come;
  of a publish round that what it sampled is a prefix of its store; of a request
  that its row is where its stage says.  The proof does not use the session: a
  process whose session has expired goes on, and what keeps it from harm is that
  every write of the record compares the lease the record names.  The two
  publication modes need different arguments.  When shared, a store that is
  installed is the durable log; when local, the one node's store is never lost.
* **MetaShardProofs**: `ExactlyOnce` (`AnsweredExactlyOnce`), `StampExact`
  (`StampsAreExact`), `DeadlinesKept` (`DeadlinesHold`), `ReadsRepeat`
  (`RepeatableReads`), `SuccessorFollows` (`SuccessorAgrees`).  The invariant
  ties dedupe rows to the log one to one, the durable store to a prefix of the
  live one, and results to rows: an answer's row is in the durable store, so no
  crash removes it.  `ReadsRepeat` adds that a row is no younger than the clock
  and younger than all of its history, so that a write only adds above every
  version already read.  `SuccessorFollows` needs that the log determines the
  store.  Instead of an induction over the log the invariant carries a *story*,
  one store per prefix of the log, each the replay of the next row on the one
  before, of which the live, the durable and the successor's store are members;
  the successor's next step replays the row that took the story on.
* **ServerProofs**, about what every request thread of one server passes, the
  acknowledgement barrier (`CoveringRounds`) and the registry (`OwnerRegistry`):
  `RoundsTypeCorrect`, `AckBarrier` (`AckCovered`), `RoundsExclusive`
  (`OneRound`); `TypeCorrect`, `FailCloseFences` (`FenceHolds`).  `AckCovered` is
  not inductive: the invariant adds that a round numbered at least `needed[t]`,
  finished or still running, has sampled no less than `observed[t]`, that a waiter
  needs no round beyond the next one, and that `running` names the thread in the
  round.  For the registry it adds that work is counted where it runs, that loss
  is published before routes are removed, and that a shard being drained has no
  route installed or about to be.
* **PublicationProofs**: `Readable` (`ReadableUnlessReused`), `Ledger`
  (`ObjectsAreLedgered`), `AckedStays` (`AckedStaysPublished`), `Once`
  (`AppendedOnce`), `Sealed` (`SealedForGood`), `LiveLeftAlone` (the action
  property `LiveIsLeftAlone`).  One predicate, `StoreOK`, holds of the
  serving rows and of the durable ones, so that a crash has nothing to show;
  between the two stands `Later`, the order in which an operation's row may
  advance.  The rest of the invariant is about what the metadata cannot see: an
  upload is in flight only for a key whose reservation is durable, what was
  recorded as uploaded is kept until its cleanup is durable, a key the cleanup
  has passed is sealed or was emptied, and a provider call of unknown outcome
  concerns only operations whose cleanup a successor would know of.  From the last
  part follow both exceptions: the operation whose request strikes a published
  key has been cleaned, and is another one than the publisher; and an object
  stands below the cleanup's cursor only if its key had been found empty there.
* **RevisionGcProofs**: `Invariant`, `WhatResolvesIsReadable`
  (`ReadersFindObjects`), `CountsStayExact` (`CountsExact`), `SealedIsGone`
  (`DeletedLeavesNothing`).  As in `PublicationProofs`, one `StoreOK` is said of
  the serving rows and of the durable ones.  `ReadersFindObjects` needs the whole
  chain from references to objects: counts are the number of references; a
  referenced revision is Available; a candidate of the current epoch carries the
  version at which its revision lost its last reference; a held version names
  revisions that are referenced or lost their last reference after it, which is
  why a claim below the safe floor never takes one of them; the objects of an
  Available revision are at the provider.  For the worker: what it has listed is
  still listed, the rows it has passed are deleted, and when it asks the provider
  to delete, the serving and the durable rows have both given the revision up, so
  that a delete that takes effect after a crash cannot reach a revision that has
  come back.
* **RestoreProofs**: `Invariance`, `SourceIsHeld` (`SourceHeld`),
  `CountsAreExact` (`CountsExact`), `RestoredCommitIsWhole` (`RestoredIsWhole`),
  `CleanupLeavesNothing` (`CleanedLeavesNothing`), `FinalizersAgree`
  (`FinalizersConverge`), `RestoresMoveOnward` (an action property: no step takes
  a restore back to an earlier finalize phase or out of an abort), for every set of plans (any restores, chains of
  restores, manifests, finalize requests and editors) and every batch size.
  None of the five is inductive.  The invariant, `IInv`, is about the rows but
  for one part, and each part of it answers a question the others raise.  What
  keeps a revision: `RefsOK` counts the paths and the commits that name it, and
  only an Available one has any.  What keeps a commit: `PinsOK` counts its
  consumers, only a Sealed commit has one, and a live restore has either a lease
  on its source or a hold on the snapshot, which `complete_restore` hands to the
  child commit in the step that seals it.  `ViewOK`: while anything holds the
  snapshot, all it names is Available.  How far a restore has come: `Shape` says
  for every phase which rows exist (until the source is sealed the paths are the
  ledger up to the cursor; while the commit is built its members are the paths up
  to the member cursor, and the stored counters are the sizes of the sets a
  cleanup will have to empty), `LedgerOK` that a sealed source was copied whole,
  `CommitOK` that a sealed commit has the content of its source.  `NameOK` and
  `FreshOK` keep restores apart: the destination name belongs to one live restore
  and a manifest's revision exists only once it is published.  `SessionOK` says
  that no request has seen a phase its restore has not reached, unless the
  restore was given up, and `WorkerOK` what the worker remembers between scan
  and command.  A copy, a build and a cleanup batch move many references at once;
  the lemmas on `Count`, `Grown` and `Shrunk` reduce each to the cardinality of a
  disjoint union, and the page that a batch takes to the greatest path of a finite
  set, which is found by a minimum over cardinalities rather than by induction.

Assumptions: `ShardAssumption`, `BoundsAssumption`, `StampAssumption`,
`DeadlineAssumption`, `EtcdBounds`, `FailoverBounds`, `GcAssumption` and the
like type the constants and keep `None` apart from what it stands in for; TLC
evaluates each.  Two say more.  `DeploymentAssumption` says which deployments
`ShardFailover` is about: shared ones on any nodes, and LocalOnly ones on one
node whose disk is not lost.  A document claims more for a second node, and the
code does not keep it (section 4).
`PublicationAssumption` says what a plan is: an attempt number belongs to one
operation, and attempts of an append have revisions of their own; other
operations may share one, and nothing is assumed of the provider.  `RestoreAssumption` says what a plan of `Restore` is: finitely many rows, each
a path with a revision; a restore reads another commit than its own, or the
snapshot of the base; the identities of restores and of their manifests'
revisions are not used by the rows that exist before them.
`DeploymentAssumption` alone restricts what may happen (where a LocalOnly shard
runs, and that its disk is not lost); the others speak of the constants.

## 6. Only model-checked, and not modelled

Only model-checked: liveness (`EveryCallReturns`, `FailCloseReturns`,
`Collected`, `OrphansResolve`, `AbortsResolve`), because temporal reasoning under
fairness is outside what the installed provers do.  Every invariant and every
action property of a passing run, and the refinement, is a theorem.  Induction
over data is out of reach as well; where an argument needs it (that a log
determines its store, in `MetaShard`), the inductive invariant carries the
intermediate states instead.
Type invariants are stated where a proof needs them.

Not modelled: wire encoding and formatting; TLS, access policy and audit;
connection limits; provider I/O and caches (the object store is a map with
create-if-absent, delete and seal); the Holt backend (an atomic checked
transaction and a barrier); the lock files of the local control store and its
probe of a session (`local.rs:404`); CLI,
agent and Python layers; the client's retry loops, whose effect is the repeated
and abandoned requests of `MetaShard` and `Publication`; path trees, rename,
query scans and generic indexes; snapshot aliases and renewal; publications
under commit authority; `LeaseMode::Resume`.  Most of the repository's lines are
these layers, validation, encoding and tests; the modules cover the parts that
decide who may write, what is durable and what may be deleted.

## 7. Plan

1. *Snapshot renewal and aliases* in `Restore`, *commit staging* publications in
   `Publication`.
2. *Generic index*: generations, their builds and their collection.
