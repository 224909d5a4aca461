----------------------------- MODULE RevisionGc -----------------------------
(***************************************************************************)
(* The life of an artifact revision: publications, removals and commit     *)
(* builds add and drop strong references, snapshots and builds hold a read *)
(* version, and the lifecycle worker of the owner claims revisions nobody  *)
(* references, deletes their objects from the provider and seals the       *)
(* result (crates/nokv-meta/src/workspace/{publication,remove,commit,      *)
(* snapshot,gc}.rs and crates/nokv-server/src/lifecycle.rs).               *)
(*                                                                         *)
(* A metadata command commits exactly one version above the one it read at *)
(* or has no effect (MetaShard: StampsAreExact), so a handler is one step  *)
(* on the rows `db`, and a background handler may instead lose the race    *)
(* against another command and defer.  `durable` is what a successor       *)
(* recovers: the rows of the last publication of the recovery log.         *)
(***************************************************************************)
EXTENDS Integers, FiniteSets

CONSTANTS
    None,
    Paths,          \* paths of one visible workspace that has a head commit
    MaxRevision,    \* bound on artifact revisions
    Builds,         \* BuildCommit operations
    Snapshots,      \* leased snapshots
    Seeded,         \* path -> the revision it is bound to at the start, or None
    OwnBlocks,      \* objects a publication uploads
    BatchSize,      \* mutation_batch_size of the lifecycle worker
    MaxCommands,    \* bound on client commands
    MaxCrashes      \* bound on owner crashes

ASSUME GcAssumption ==
    /\ {MaxRevision, OwnBlocks, BatchSize, MaxCommands, MaxCrashes} \subseteq Nat
    /\ BatchSize > 0
    /\ None \notin Nat
    /\ Builds \cap Snapshots = {}
    /\ Seeded \in [Paths -> (1..MaxRevision) \cup {None}]
    /\ \A p, q \in Paths : Seeded[p] = Seeded[q] => p = q \/ Seeded[p] = None

VARIABLES
    db,         \* the rows of the serving store
    durable,    \* the rows a successor would recover
    objects,    \* objects present at the provider
    late,       \* objects a delete of uncertain outcome may still remove
    worker,     \* the lifecycle worker of the serving owner
    spent,      \* client commands executed
    crashes     \* owner crashes

vars == <<db, durable, objects, late, worker, spent, crashes>>

Revisions == 1..MaxRevision
Holders == Builds \cup Snapshots
NoHold == [version |-> 0, view |-> [p \in Paths |-> None]]
NoRevision == [state |-> "Absent", epoch |-> 0, count |-> 0, zero |-> 0, deps |-> {}]
NoGc == [phase |-> "None", cursor |-> 0]
Idle == [pc |-> "idle", todo |-> {}, raced |-> FALSE, row |-> 0, end |-> 0]

-----------------------------------------------------------------------------
(* Revisions, their manifests and their references. *)

OwnObjects(r) == {<<r, i>> : i \in 1..OwnBlocks}

\* The objects a reader of r needs: its own and those of the physical owners
\* its manifest reuses.
Manifest(d, r) == OwnObjects(r) \cup UNION {OwnObjects(o) : o \in d.rev[r].deps}

\* Manifest rows in position order: the reused blocks come first.
ManifestLength(d, r) == OwnBlocks * (1 + Cardinality(d.rev[r].deps))
ReusedRows(d, r) == OwnBlocks * Cardinality(d.rev[r].deps)
DeleteRequired(d, r, position) == position > ReusedRows(d, r)
ObjectAt(d, r, position) == <<r, position - ReusedRows(d, r)>>

PathRef(p, r) == [kind |-> "Path", from |-> p, to |-> r]
CommitRef(b, r) == [kind |-> "Commit", from |-> b, to |-> r]
DependencyRef(child, r) == [kind |-> "Dependency", from |-> child, to |-> r]

Available(d, r) == d.rev[r].state = "Available"

\* The row of a revision that one path is bound to and nothing else.
Published(deps) ==
    [state |-> "Available", epoch |-> 1, count |-> 1, zero |-> 0, deps |-> deps]

SeededPaths == {p \in Paths : Seeded[p] # None}

\* Some paths are bound, and some builds have begun, before the model starts.
Init ==
    /\ \E started \in SUBSET Builds : db =
            [clock |-> 2,
             rev |-> [r \in Revisions |->
                        IF \E p \in SeededPaths : Seeded[p] = r THEN Published({}) ELSE NoRevision],
             refs |-> {PathRef(p, Seeded[p]) : p \in SeededPaths},
             cand |-> {},
             gc |-> [r \in Revisions |-> NoGc],
             hold |-> [h \in Holders |->
                         IF h \in started THEN [version |-> 1, view |-> Seeded] ELSE NoHold],
             build |-> [b \in Builds |->
                          IF b \in started THEN [phase |-> "Building", left |-> SeededPaths]
                                          ELSE [phase |-> "None", left |-> {}]],
             minted |-> {},
             path |-> Seeded]
    /\ durable = db
    /\ objects = UNION {OwnObjects(Seeded[p]) : p \in SeededPaths}
    /\ late = {}
    /\ worker = Idle
    /\ spent = 0
    /\ crashes = 0

\* Every touched revision gets a new reference epoch; one that loses its last
\* reference records the version of this command and enters the GC queue.
Touched(d, delta) ==
    LET version == d.clock + 1
        count(r) == d.rev[r].count + delta[r]
        next(r) == [d.rev[r] EXCEPT !.epoch = @ + 1, !.count = count(r),
                                    !.zero = IF count(r) = 0 THEN version ELSE 0]
        zeros == {r \in DOMAIN delta : count(r) = 0}
    IN  [d EXCEPT
           !.clock = version,
           !.rev = [r \in Revisions |-> IF r \in DOMAIN delta THEN next(r) ELSE @[r]],
           !.cand = @ \cup {[rev |-> r, epoch |-> d.rev[r].epoch + 1,
                             zero |-> version, state |-> "Candidate"] : r \in zeros}]

-----------------------------------------------------------------------------
(* Client commands. *)

\* The shard serves and one more command fits the bound.  A command the worker
\* has read before and not after makes its own command fail.
Command ==
    /\ worker.pc # "failed"
    /\ spent < MaxCommands
    /\ spent' = spent + 1
    /\ worker' = [worker EXCEPT !.raced = worker.pc # "idle"]
    /\ UNCHANGED <<durable, late, crashes>>

Bound(p) == IF db.path[p] = None THEN {} ELSE {db.path[p]}

\* finalize_publish: revision r replaces what path p is bound to.  An append
\* (reuse) keeps the blocks of the base revision and of the owners the base
\* itself reuses.
Publish(p, r, reuse) ==
    LET old == Bound(p)
        owners == IF reuse THEN old \cup UNION {db.rev[o].deps : o \in old} ELSE {}
        delta == [o \in owners \cup old |->
                    (IF o \in owners THEN 1 ELSE 0) - (IF o \in old THEN 1 ELSE 0)]
    IN  /\ Command
        /\ db.rev[r].state = "Absent"
        /\ reuse => old # {}
        /\ \A o \in DOMAIN delta : Available(db, o)
        /\ db' = [Touched(db, delta) EXCEPT
                    !.rev[r] = Published(owners),
                    !.refs = (@ \ {PathRef(p, o) : o \in old})
                             \cup {PathRef(p, r)}
                             \cup {DependencyRef(r, o) : o \in owners},
                    !.path[p] = r]
        /\ objects' = objects \cup OwnObjects(r)

RemovePath(p) ==
    LET r == db.path[p] IN
    /\ Command
    /\ r # None
    /\ Available(db, r)
    /\ db' = [Touched(db, [o \in {r} |-> -1]) EXCEPT
                !.refs = @ \ {PathRef(p, r)},
                !.path[p] = None]
    /\ UNCHANGED objects

\* A hold at the current version keeps the bindings of that version readable.
HeldNow == [version |-> db.clock, view |-> db.path]

MintSnapshot(s) ==
    /\ Command
    /\ s \notin db.minted
    /\ db' = [db EXCEPT !.clock = @ + 1, !.hold[s] = HeldNow, !.minted = @ \cup {s}]
    /\ UNCHANGED objects

\* retire_snapshot and claim_expired_snapshot both drop the hold.
ReleaseSnapshot(s) ==
    /\ Command
    /\ db.hold[s] # NoHold
    /\ db' = [db EXCEPT !.clock = @ + 1, !.hold[s] = NoHold]
    /\ UNCHANGED objects

BeginBuild(b) ==
    /\ Command
    /\ db.build[b].phase = "None"
    /\ db' = [db EXCEPT
                !.clock = @ + 1,
                !.hold[b] = HeldNow,
                !.build[b] = [phase |-> "Building",
                              left |-> {p \in Paths : db.path[p] # None}]]
    /\ UNCHANGED objects

\* build_members, one member per command: the revision comes from the held
\* version, its row from the current one.
BuildMember(b, p) ==
    LET r == db.hold[b].view[p] IN
    /\ Command
    /\ db.build[b].phase = "Building"
    /\ p \in db.build[b].left
    /\ Available(db, r)
    /\ db' = [Touched(db, [o \in {r} |-> 1]) EXCEPT
                !.refs = @ \cup {CommitRef(b, r)},
                !.build[b].left = @ \ {p}]
    /\ UNCHANGED objects

\* seal_revisions, attach_parents, begin_sealing and finalize_build: the
\* closure is complete and its references replace the hold.
FinalizeBuild(b) ==
    /\ Command
    /\ db.build[b].phase = "Building"
    /\ db.build[b].left = {}
    /\ db' = [db EXCEPT !.clock = @ + 1, !.hold[b] = NoHold, !.build[b].phase = "Complete"]
    /\ UNCHANGED objects

\* abort_build and the phase change of the first cleanup_build.
AbortBuild(b) ==
    /\ Command
    /\ db.build[b].phase = "Building"
    /\ db' = [db EXCEPT !.clock = @ + 1, !.build[b].phase = "Cleaning"]
    /\ UNCHANGED objects

CommitRefs(b) == {ref \in db.refs : ref.kind = "Commit" /\ ref.from = b}

CleanupMember(b) ==
    \E ref \in CommitRefs(b) :
        /\ Command
        /\ db.build[b].phase = "Cleaning"
        /\ Available(db, ref.to)
        /\ db' = [Touched(db, [o \in {ref.to} |-> -1]) EXCEPT !.refs = @ \ {ref}]
        /\ UNCHANGED objects

FinishCleanup(b) ==
    /\ Command
    /\ db.build[b].phase = "Cleaning"
    /\ CommitRefs(b) = {}
    /\ db' = [db EXCEPT !.clock = @ + 1, !.hold[b] = NoHold, !.build[b].phase = "Cleaned"]
    /\ UNCHANGED objects

-----------------------------------------------------------------------------
(* The lifecycle worker. *)

GcStep == worker.pc # "failed" /\ UNCHANGED <<spent, crashes>>

\* Entries of a page are visited in key order: revision, then epoch.
Precedes(a, c) == a.rev < c.rev \/ (a.rev = c.rev /\ a.epoch <= c.epoch)
Entry == CHOOSE e \in worker.todo : \A o \in worker.todo : Precedes(e, o)
Visiting(state) == worker.pc = "scan" /\ worker.todo # {} /\ Entry.state = state

\* The worker is done with its entry.
NextEntry ==
    [worker EXCEPT !.pc = "scan", !.todo = @ \ {Entry}, !.raced = FALSE,
                   !.row = 0, !.end = 0]

Skip == UNCHANGED <<db, durable, objects, late>> /\ worker' = NextEntry
Commits == UNCHANGED <<durable, objects, late>> /\ worker' = NextEntry

\* list_candidates; completed and quarantined candidates ask for nothing, and
\* a cycle that finds no others only publishes (PublishCurrent).
List ==
    LET queued == {c \in db.cand : c.state \in {"Candidate", "Claimed"}} IN
    /\ GcStep
    /\ worker.pc = "idle"
    /\ queued # {}
    /\ worker' = [Idle EXCEPT !.pc = "scan", !.todo = queued]
    /\ UNCHANGED <<db, durable, objects, late>>

\* finish_with_durability at the end of a cycle; a publication that fails
\* with a retryable error does not stop the loop.
FinishCycle ==
    /\ GcStep
    /\ worker.pc = "scan" /\ worker.todo = {}
    /\ worker' = Idle
    /\ durable' \in {durable, db}
    /\ UNCHANGED <<db, objects, late>>

\* A command committed since the worker last looked: its own is refused at the
\* write frontier and the entry waits for the next cycle.
Defer ==
    /\ GcStep
    /\ worker.todo # {}
    /\ worker.pc \in {"scan", "quarantine"} \/ (worker.pc = "delete" /\ worker.row > worker.end)
    /\ worker.raced
    /\ Skip

Floor ==
    LET held == {db.hold[h].version : h \in {h \in Holders : db.hold[h] # NoHold}}
    IN  CHOOSE v \in held \cup {db.clock} : \A o \in held \cup {db.clock} : v <= o

Claimable(e) == Available(db, e.rev) /\ db.rev[e.rev].count = 0

\* No retained version can resolve the revision any more.
SafeFloor(e) == Floor > e.zero

SetCandidate(e, state) == (db.cand \ {e}) \cup {[e EXCEPT !.state = state]}

Claim ==
    /\ GcStep
    /\ Visiting("Candidate")
    /\ Claimable(Entry)
    /\ db.rev[Entry.rev].epoch = Entry.epoch
    /\ SafeFloor(Entry)
    /\ db' = [db EXCEPT !.clock = @ + 1,
                        !.rev[Entry.rev].state = "Deleting",
                        !.cand = SetCandidate(Entry, "Claimed"),
                        !.gc[Entry.rev] = [phase |-> "Claimed", cursor |-> 0]]
    /\ Commits

\* Bug: a quiescent root is left to wait for a command that never comes.
BarrierDefers ==
    /\ GcStep
    /\ Visiting("Candidate")
    /\ Claimable(Entry)
    /\ db.rev[Entry.rev].epoch = Entry.epoch
    /\ Entry.zero = Floor /\ Floor = db.clock
    /\ Skip

\* The revision is young and nothing else moves the clock: a barrier does.
AdvanceHistoryBarrier ==
    /\ GcStep
    /\ Visiting("Candidate")
    /\ Claimable(Entry)
    /\ db.rev[Entry.rev].epoch = Entry.epoch
    /\ Entry.zero = Floor /\ Floor = db.clock
    /\ \A h \in Holders : db.hold[h] = NoHold
    /\ db' = [db EXCEPT !.clock = @ + 1]
    /\ Commits

\* A hold keeps the floor down, or the barrier met one.
DeferHeld ==
    /\ GcStep
    /\ Visiting("Candidate")
    /\ Claimable(Entry)
    /\ db.rev[Entry.rev].epoch = Entry.epoch
    /\ ~ SafeFloor(Entry)
    /\ \E h \in Holders : db.hold[h] # NoHold
    /\ Skip

ClearStale ==
    /\ GcStep
    /\ Visiting("Candidate")
    /\ Claimable(Entry)
    /\ db.rev[Entry.rev].epoch # Entry.epoch
    /\ db' = [db EXCEPT !.clock = @ + 1, !.cand = @ \ {Entry}]
    /\ Commits

\* RevisionNotClaimable is no concurrency error to collect_revisions: run_once
\* returns it after finish_with_durability and the shard fails closed.
ClaimFails ==
    /\ GcStep
    /\ Visiting("Candidate")
    /\ ~ Claimable(Entry)
    /\ worker' = [Idle EXCEPT !.pc = "failed"]
    /\ durable' \in {durable, db}
    /\ UNCHANGED <<db, objects, late>>

BeginDeletion ==
    /\ GcStep
    /\ Visiting("Claimed")
    /\ db.gc[Entry.rev].phase = "Claimed"
    /\ db' = [db EXCEPT !.clock = @ + 1, !.gc[Entry.rev].phase = "Deleting"]
    /\ Commits

Remaining == ManifestLength(db, Entry.rev) - db.gc[Entry.rev].cursor

ScanManifestBatch ==
    LET rows == IF Remaining < BatchSize THEN Remaining ELSE BatchSize IN
    /\ GcStep
    /\ Visiting("Claimed")
    /\ db.gc[Entry.rev].phase = "Deleting"
    /\ Remaining > 0
    /\ worker' = [worker EXCEPT !.pc = "delete", !.raced = FALSE,
                    !.row = db.gc[Entry.rev].cursor + 1,
                    !.end = db.gc[Entry.rev].cursor + rows]
    /\ UNCHANGED <<db, durable, objects, late>>

InBatch == worker.pc = "delete" /\ worker.row <= worker.end

\* A reused block belongs to another revision.
PassReusedRow ==
    /\ GcStep
    /\ InBatch
    /\ ~ DeleteRequired(db, Entry.rev, worker.row)
    /\ worker' = [worker EXCEPT !.row = @ + 1]
    /\ UNCHANGED <<db, durable, objects, late>>

\* Bug: the object goes before the claim is durable.
DeleteUnpublished ==
    /\ GcStep
    /\ InBatch
    /\ DeleteRequired(db, Entry.rev, worker.row)
    /\ worker' = [worker EXCEPT !.pc = "cleanup"]
    /\ UNCHANGED <<db, durable, objects, late>>

\* publish_current: nothing is deleted before a successor would know of it.
PublishBeforeDelete ==
    /\ GcStep
    /\ InBatch
    /\ DeleteRequired(db, Entry.rev, worker.row)
    /\ worker' = [worker EXCEPT !.pc = "cleanup"]
    /\ durable' = db
    /\ UNCHANGED <<db, objects, late>>

\* The publication fails with a retryable error: run_once gives up the cycle,
\* and finish_with_durability tries once more.
PublicationFails ==
    /\ GcStep
    /\ InBatch
    /\ DeleteRequired(db, Entry.rev, worker.row)
    /\ worker' = Idle
    /\ durable' \in {durable, db}
    /\ UNCHANGED <<db, objects, late>>

Target == ObjectAt(db, Entry.rev, worker.row)

\* What a delete of Target may still remove if its outcome is not known.
Doomed == {Target} \cap objects

DeleteObject ==
    /\ GcStep
    /\ worker.pc = "cleanup"
    /\ objects' = objects \ {Target}
    /\ late' = late \ {Target}
    /\ worker' = [worker EXCEPT !.pc = "delete", !.row = @ + 1]
    /\ UNCHANGED <<db, durable>>

\* Bug: a failed provider call counts as a deletion.
AmbiguousCounts ==
    /\ GcStep
    /\ worker.pc = "cleanup"
    /\ late' = late \cup Doomed
    /\ worker' = [worker EXCEPT !.pc = "delete", !.row = @ + 1]
    /\ UNCHANGED <<db, durable, objects>>

\* The provider call failed; it may have deleted, and it may still.
DeleteAmbiguous ==
    /\ GcStep
    /\ worker.pc = "cleanup"
    /\ late' = late \cup Doomed
    /\ worker' = [worker EXCEPT !.pc = "quarantine", !.raced = FALSE]
    /\ UNCHANGED <<db, durable, objects>>

AdvanceDeletionBatch ==
    /\ GcStep
    /\ worker.pc = "delete" /\ worker.row > worker.end
    /\ db' = [db EXCEPT !.clock = @ + 1, !.gc[Entry.rev].cursor = worker.end]
    /\ Commits

\* Bug: the owners keep the count of references that are gone.
CompleteForgetsOwners ==
    LET r == Entry.rev IN
    /\ GcStep
    /\ Visiting("Claimed")
    /\ db.gc[r].phase = "Deleting"
    /\ Remaining = 0
    /\ db' = [db EXCEPT
                !.clock = @ + 1,
                !.rev[r].state = "Deleted",
                !.cand = SetCandidate(Entry, "Complete"),
                !.gc[r].phase = "Deleted",
                !.refs = @ \ {DependencyRef(r, o) : o \in db.rev[r].deps}]
    /\ Commits

\* complete drops the references of the deleted revision on its owners.
Complete ==
    LET r == Entry.rev IN
    /\ GcStep
    /\ Visiting("Claimed")
    /\ db.gc[r].phase = "Deleting"
    /\ Remaining = 0
    /\ \A o \in db.rev[r].deps : Available(db, o)
    /\ db' = [Touched(db, [o \in db.rev[r].deps |-> -1]) EXCEPT
                !.rev[r].state = "Deleted",
                !.cand = (@ \ {Entry}) \cup {[Entry EXCEPT !.state = "Complete"]},
                !.gc[r].phase = "Deleted",
                !.refs = @ \ {DependencyRef(r, o) : o \in db.rev[r].deps}]
    /\ Commits

Quarantine ==
    /\ GcStep
    /\ worker.pc = "quarantine"
    /\ db' = [db EXCEPT !.clock = @ + 1,
                        !.rev[Entry.rev].state = "Quarantined",
                        !.cand = SetCandidate(Entry, "Quarantined"),
                        !.gc[Entry.rev].phase = "Quarantined"]
    /\ Commits

-----------------------------------------------------------------------------
(* Durability, the provider and the owner. *)

\* A request thread before it answers, or a cycle of the worker, publishes the
\* recovery log.  Once no crash is left in the bound nobody reads the result.
PublishCurrent ==
    /\ worker.pc # "failed"
    /\ crashes < MaxCrashes
    /\ durable' = db
    /\ UNCHANGED <<db, objects, late, worker, spent, crashes>>

LateDelete ==
    \E o \in late :
        /\ late' = late \ {o}
        /\ objects' = objects \ {o}
        /\ UNCHANGED <<db, durable, worker, spent, crashes>>

\* The owner stops, a delete it was issuing may still happen, and a successor
\* recovers the published rows.
Recover ==
    /\ db' = durable
    /\ worker' = Idle
    /\ late' = IF worker.pc = "cleanup" THEN late \cup Doomed ELSE late
    /\ UNCHANGED <<durable, objects, spent>>

Crash == worker.pc # "failed" /\ crashes < MaxCrashes /\ crashes' = crashes + 1 /\ Recover

Restart == worker.pc = "failed" /\ Recover /\ UNCHANGED crashes

-----------------------------------------------------------------------------
\* Revision identities are fresh; the model hands them out in order.
Fresh(r) == \A o \in Revisions : o < r => db.rev[o].state # "Absent"

Client ==
    \/ \E p \in Paths, r \in Revisions, reuse \in BOOLEAN : Fresh(r) /\ Publish(p, r, reuse)
    \/ \E p \in Paths : RemovePath(p)
    \/ \E s \in Snapshots : MintSnapshot(s) \/ ReleaseSnapshot(s)
    \/ \E b \in Builds :
        \/ BeginBuild(b) \/ FinalizeBuild(b)
        \/ AbortBuild(b) \/ CleanupMember(b) \/ FinishCleanup(b)
        \/ \E p \in Paths : BuildMember(b, p)

Collector ==
    \/ List \/ FinishCycle \/ Defer
    \/ Claim \/ AdvanceHistoryBarrier \/ DeferHeld \/ ClearStale \/ ClaimFails
    \/ BeginDeletion \/ ScanManifestBatch \/ PassReusedRow \/ PublishBeforeDelete
    \/ PublicationFails
    \/ DeleteObject \/ DeleteAmbiguous \/ AdvanceDeletionBatch \/ Complete \/ Quarantine

Next == Client \/ Collector \/ PublishCurrent \/ LateDelete \/ Crash \/ Restart

Spec == Init /\ [][Next]_vars

\* The worker keeps running its cycles, a failed owner is restarted, and a
\* publication that is tried again and again succeeds in the end.
LiveSpec ==
    Spec /\ WF_vars(Collector) /\ WF_vars(Restart) /\ SF_vars(PublishBeforeDelete)

-----------------------------------------------------------------------------
(* Properties. *)

\* Revisions some reader can still resolve from the rows d: through a current
\* path, through a held version, or through the closure of a commit build.
Reachable(d) ==
    {d.path[p] : p \in Paths}
        \cup {ref.to : ref \in {ref \in d.refs : ref.kind = "Commit"}}
        \cup UNION {{d.hold[h].view[p] : p \in Paths} : h \in Holders}

\* Whatever the worker and the provider do, and whenever the owner crashes, a
\* revision that can be resolved from the rows of the owner, or from the rows
\* its successor would recover, is Available and every object of its manifest,
\* reused blocks included, is at the provider.
ReadersFindObjects ==
    \A d \in {db, durable} : \A r \in Reachable(d) \ {None} :
        Available(d, r) /\ Manifest(d, r) \subseteq objects

\* The reference count of a revision is the number of RevisionRef rows that
\* name it, and an Available revision nobody references is queued for
\* collection under its current epoch: none is forgotten.
CountsExact ==
    \A r \in Revisions :
        /\ db.rev[r].count = Cardinality({ref \in db.refs : ref.to = r})
        /\ Available(db, r) /\ db.rev[r].count = 0 =>
             [rev |-> r, epoch |-> db.rev[r].epoch, zero |-> db.rev[r].zero,
              state |-> "Candidate"] \in db.cand

\* A revision is sealed Deleted only after the last of its own objects is gone.
DeletedLeavesNothing ==
    \A r \in Revisions : db.rev[r].state = "Deleted" => OwnObjects(r) \cap objects = {}

\* A queued candidate whose revision has moved on to another epoch.
StaleCandidate == \E c \in db.cand : c.state = "Candidate" /\ db.rev[c.rev].epoch # c.epoch

Reclaimable(r) ==
    /\ db.rev[r].state \in {"Available", "Deleting"} /\ db.rev[r].count = 0
    /\ \A h \in Holders : db.hold[h] = NoHold
    /\ ~ StaleCandidate

\* A revision nobody references and no hold protects is eventually Deleted or
\* Quarantined, also when its release was the last command the root ever saw,
\* unless it is referenced or held again or a candidate goes stale meanwhile.
Collected == \A r \in Revisions : Reclaimable(r) ~> ~ Reclaimable(r)

=============================================================================
