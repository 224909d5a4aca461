---------------------------- MODULE Publication ----------------------------
(***************************************************************************)
(* The publication of artifacts: admission under a claim on the revision,  *)
(* object uploads through the owner, the metadata-last finalization, and   *)
(* the lifecycle worker that takes over what its client abandoned, empties *)
(* the provider and retires the ledger                                     *)
(* (crates/nokv-meta/src/workspace/publication.rs, the publication         *)
(* handlers of crates/nokv-server/src/executor.rs and the publication pass *)
(* of crates/nokv-server/src/lifecycle.rs).                                *)
(*                                                                         *)
(* A metadata command commits against the version it read or not at all    *)
(* (MetaShard), so a handler is one step on the rows `db`, its heartbeat   *)
(* included.  Prepare and Finish run the same steps back to back.          *)
(* `durable` is what a successor recovers; a client hears of a publication *)
(* once it is durable.                                                     *)
(***************************************************************************)
EXTENDS Integers, FiniteSets

CONSTANTS
    None,
    Plans,          \* what the clients may ask for; one plan is chosen for good
    ManifestRows,   \* manifest rows of a publication
    BatchSize,      \* mutation_batch_size of the lifecycle worker
    MaxUploads,     \* bound on uploads in flight
    MaxFailures,    \* bound on provider requests that fail or collide
    MaxRetries,     \* bound on cleanup retries of one append attempt
    MaxCrashes      \* bound on owner crashes

\* A plan gives every operation its revision and, for an append, its attempt
\* number; `objects` is the number of objects of a publication; `moves` bounds
\* how often others change the path.  The attempts of the logical append are
\* numbered apart and have revisions of their own; any other publications may be
\* given the same revision.
ASSUME PublicationAssumption ==
    /\ {ManifestRows, BatchSize, MaxUploads, MaxFailures, MaxRetries, MaxCrashes} \subseteq Nat
    /\ BatchSize > 0
    /\ None \notin Nat /\ None # "Sealed"
    /\ \A p \in Plans :
          /\ {p.objects, p.moves} \subseteq Nat
          /\ DOMAIN p.attempt = DOMAIN p.revision
          /\ {None, "Sealed"} \cap DOMAIN p.revision = {}
          /\ \A o \in DOMAIN p.attempt : p.attempt[o] \in Nat \cup {None}
          /\ \A o, q \in DOMAIN p.attempt :
                o # q => p.attempt[o] = None \/ p.attempt[o] # p.attempt[q]
          /\ \A o, q \in DOMAIN p.attempt :
                o # q /\ p.revision[o] = p.revision[q] =>
                    p.attempt[o] = None /\ p.attempt[q] = None

VARIABLES
    plan,       \* the plan of this behaviour
    db,         \* the rows of the serving store
    durable,    \* the rows a successor would recover
    objects,    \* key -> the operation whose body it holds, "Sealed", or None
    puts,       \* uploads in flight
    doomed,     \* keys a cleanup request of uncertain outcome may still reach
    worker,     \* the lifecycle worker of the serving owner
    acked,      \* operations whose client was told Published
    failures,   \* provider requests that failed
    crashes     \* owner crashes

\* What the properties need to know of the past.
VARIABLES
    struck,     \* keys that a cleanup request reached after its caller was gone
    emptied     \* <<o, i>>: object i of operation o was removed, sealed or found absent

vars == <<plan, db, durable, objects, puts, doomed, worker, acked, failures, crashes,
          struck, emptied>>

Operations == DOMAIN plan.revision
Rev(o) == plan.revision[o]
Revisions == {Rev(o) : o \in Operations}
IsAppend(o) == plan.attempt[o] # None
Objects == plan.objects
Key(o, i) == <<Rev(o), i>>
Keys == Revisions \X (1..Objects)

LivePhases == {"Uploading", "Finalizing"}
ActivePhases == LivePhases \cup {"Aborting", "Cleaning"}

\* A publish operation.  `older` marks one an earlier owner epoch began, and
\* `fresh` one whose activity deadline (and the allowed skew) has not passed on
\* the owner's clock.
NoOperation ==
    [phase |-> "None", older |-> FALSE, fresh |-> FALSE, claim |-> 0,
     staged |-> 0, uploaded |-> 0, manifest |-> 0, swept |-> 0, sweptRows |-> 0, retries |-> 0]
NoParent == [attempt |-> None, done |-> FALSE]
Idle == [pc |-> "idle", op |-> None, row |-> NoOperation, at |-> 0]

\* What an owner recovers from the rows d: other epochs began every operation.
Recovered(d) ==
    [d EXCEPT !.op = [o \in DOMAIN @ |->
                        [@[o] EXCEPT !.older = d.op[o].phase # "None", !.fresh = FALSE]]]

Init ==
    /\ plan \in Plans
    /\ db = [op |-> [o \in Operations |-> NoOperation],
             claim |-> [r \in Revisions |-> None],
             revision |-> [r \in Revisions |-> None],
             manifest |-> [r \in Revisions |-> 0],
             parent |-> NoParent,
             generation |-> 0,
             active |-> {}]
    /\ durable = Recovered(db)
    /\ objects = [k \in Keys |-> None]
    /\ puts = {}
    /\ doomed = {}
    /\ worker = Idle
    /\ acked = {}
    /\ failures = 0
    /\ crashes = 0
    /\ struck = {}
    /\ emptied = {}

-----------------------------------------------------------------------------
(* Rules every command on an operation obeys. *)

\* Bug: an aborted operation is dropped from the index before it is cleaned.
StoreDropsAborted(d, o, row) ==
    [d EXCEPT !.op[o] = row,
              !.active = IF row.phase \in LivePhases \cup {"Cleaning"} THEN @ \cup {o} ELSE @ \ {o}]

\* The row of an operation, and its entry in the index the worker scans.
Store(d, o, row) ==
    [d EXCEPT !.op[o] = row,
              !.active = IF row.phase \in ActivePhases THEN @ \cup {o} ELSE @ \ {o}]

\* A command of an append attempt needs the logical append to name it still.
AppendAuthority(o) ==
    IsAppend(o) => db.parent = [attempt |-> plan.attempt[o], done |-> FALSE]

\* Cleaning up an append attempt needs its reservation and no revision.
AppendReservation(o) == IsAppend(o) => db.claim[Rev(o)] = o /\ db.revision[Rev(o)] = None
CleanupAuthority(o) == AppendAuthority(o) /\ AppendReservation(o)

Serving == worker.pc # "failed"

\* A caller presents the digest of the operation as it is (require_publish_token),
\* which it learned from a reply, and every reply waits until what it tells is
\* durable.  The steps of one composite request need it once.
TokenHeld(o) ==
    db.op[o] = [durable.op[o] EXCEPT !.older = db.op[o].older, !.fresh = db.op[o].fresh]

\* What a step of the client needs of the operation.  An owner other than the
\* initiating one refuses to extend the deadline; the deadline is not extended,
\* and nothing refused, when it is already beyond the one the owner would set.
Heartbeat(o) ==
    /\ Serving
    /\ db.op[o].phase \in LivePhases
    /\ db.op[o].older => db.op[o].fresh
    /\ AppendAuthority(o)

Renewed(row) == IF row.older THEN row ELSE [row EXCEPT !.fresh = TRUE]

\* The client's steps leave everything but the rows alone.
RowsKept == UNCHANGED <<plan, durable, objects, doomed, worker, acked, failures, crashes, struck>>
Rows(d) == db' = d /\ RowsKept /\ UNCHANGED emptied

-----------------------------------------------------------------------------
(* Admission. *)

Attempt(n) == CHOOSE o \in Operations : plan.attempt[o] = n

\* Bug: an attempt is admitted once the previous one ended, however it ended.
AppendAdmittedAfterAny(o) ==
    IF plan.attempt[o] = 0 THEN db.parent = NoParent
    ELSE /\ db.parent.attempt = plan.attempt[o] - 1
         /\ db.op[Attempt(plan.attempt[o] - 1)].phase \notin ActivePhases

\* A first attempt creates the logical append; a later one needs the previous
\* attempt cleaned, unpublished and still holding its reservation.
AppendAdmitted(o) ==
    IF plan.attempt[o] = 0 THEN db.parent = NoParent
    ELSE LET previous == Attempt(plan.attempt[o] - 1) IN
         /\ db.parent = [attempt |-> plan.attempt[previous], done |-> FALSE]
         /\ db.op[previous].phase = "Cleaned"
         /\ db.claim[Rev(previous)] = previous
         /\ db.revision[Rev(previous)] = None

\* begin_publish: the row, the claim on the revision and the index entry.  The
\* claim on the path is its generation as of now.
Begin(o) ==
    LET r == Rev(o)
        row == [NoOperation EXCEPT !.phase = "Uploading", !.fresh = TRUE,
                                   !.claim = db.generation]
    IN  /\ Serving
        /\ db.op[o].phase = "None"
        /\ db.claim[r] = None
        /\ db.manifest[r] = 0
        /\ db.revision[r] = None
        /\ IsAppend(o) => AppendAdmitted(o)
        /\ Rows([Store(db, o, row) EXCEPT
                   !.claim[r] = o,
                   !.parent = IF IsAppend(o) THEN [attempt |-> plan.attempt[o], done |-> FALSE]
                                             ELSE @])
        /\ UNCHANGED puts

-----------------------------------------------------------------------------
(* Objects and manifest. *)

\* stage_objects_batch.
StageObjects(o, n) ==
    /\ Heartbeat(o)
    /\ db.op[o].phase = "Uploading"
    /\ db.op[o].staged + n <= Objects
    /\ Rows(Store(db, o, [Renewed(db.op[o]) EXCEPT !.staged = @ + n]))
    /\ UNCHANGED puts

\* Bug: the caller need not know the operation as it is.
AdmitUploadBlindly(o, i) ==
    /\ Heartbeat(o)
    /\ i \in (db.op[o].uploaded + 1)..db.op[o].staged
    /\ Cardinality(puts) < MaxUploads
    /\ puts' = puts \cup {[op |-> o, object |-> i, at |-> "sent"]}
    /\ Rows(Store(db, o, Renewed(db.op[o])))

\* admit_upload: an object that is staged and not recorded is sent to the
\* provider with no lock held, possibly while an earlier request for it, which
\* its caller gave up, is still on its way.
AdmitUpload(o, i) ==
    /\ TokenHeld(o)
    /\ Heartbeat(o)
    /\ i \in (db.op[o].uploaded + 1)..db.op[o].staged
    /\ Cardinality(puts) < MaxUploads
    /\ puts' = puts \cup {[op |-> o, object |-> i, at |-> "sent"]}
    /\ Rows(Store(db, o, Renewed(db.op[o])))

\* Provider steps leave the rows alone.
Provider == UNCHANGED <<plan, db, durable, acked, crashes>>

\* create_immutable: creates the object, or finds the same bytes.
CreateImmutable(p) ==
    /\ p.at = "sent"
    /\ objects[Key(p.op, p.object)] \in {None, p.op}
    /\ objects' = [objects EXCEPT ![Key(p.op, p.object)] = p.op]
    /\ puts' = (puts \ {p}) \cup {[p EXCEPT !.at = "stored"]}
    /\ UNCHANGED <<doomed, worker, failures, struck, emptied>>
    /\ Provider

\* Other bytes are stored under the key: the upload fails.
CreateCollides(p) ==
    /\ p.at = "sent"
    /\ objects[Key(p.op, p.object)] \notin {None, p.op}
    /\ failures < MaxFailures
    /\ failures' = failures + 1
    /\ puts' = puts \ {p}
    /\ UNCHANGED <<objects, doomed, worker, struck, emptied>>
    /\ Provider

\* The upload fails and the provider may still execute it.
CreateFails(p) ==
    /\ p.at = "sent"
    /\ failures < MaxFailures
    /\ failures' = failures + 1
    /\ puts' = (puts \ {p}) \cup {[p EXCEPT !.at = "late"]}
    /\ UNCHANGED <<objects, doomed, worker, struck, emptied>>
    /\ Provider

\* A create nobody waits for any more: it takes effect only on an absent key.
LateCreate(p) ==
    /\ p.at = "late"
    /\ objects' = [objects EXCEPT ![Key(p.op, p.object)] = IF @ = None THEN p.op ELSE @]
    /\ puts' = puts \ {p}
    /\ UNCHANGED <<doomed, worker, failures, struck, emptied>>
    /\ Provider

\* record_uploaded_object, in the order of the objects: fenced on the operation
\* as it is now.  A record that is refused leaves the object to the ledger.
RecordUpload(p) ==
    LET row == db.op[p.op]
        accepted == /\ row.phase = "Uploading"
                    /\ p.object = row.uploaded + 1
                    /\ AppendAuthority(p.op)
    IN  /\ p.at = "stored"
        /\ Serving
        /\ puts' = puts \ {p}
        /\ Rows(IF accepted THEN Store(db, p.op, [row EXCEPT !.uploaded = @ + 1]) ELSE db)

\* stage_manifest_batch, after every object was recorded.
StageManifest(o, n) ==
    LET row == db.op[o]
    IN  /\ row.manifest = 0 => TokenHeld(o)
        /\ Heartbeat(o)
        /\ row.phase = "Uploading"
        /\ row.staged = Objects /\ row.uploaded = Objects
        /\ row.manifest + n <= ManifestRows
        /\ Rows([Store(db, o, [Renewed(row) EXCEPT !.manifest = @ + n]) EXCEPT
                   !.manifest[Rev(o)] = @ + n])
        /\ UNCHANGED puts

-----------------------------------------------------------------------------
(* Finalization and abort. *)

\* complete_claimed_artifact_publish, first command: the closure is complete.
BeginFinalization(o) ==
    LET row == db.op[o]
    IN  /\ Heartbeat(o)
        /\ row.phase = "Uploading"
        /\ row.uploaded = Objects /\ row.manifest = ManifestRows
        /\ Rows(Store(db, o, [Renewed(row) EXCEPT !.phase = "Finalizing"]))
        /\ UNCHANGED puts

\* finalize_publish: revision, path, operation and logical append change in one
\* command, which also ends the claim on the revision.
FinalizePublish(o) ==
    LET row == db.op[o]
        r == Rev(o)
    IN  /\ Heartbeat(o)
        /\ row.phase = "Finalizing"
        /\ db.generation = row.claim
        /\ db.manifest[r] = row.manifest
        /\ Rows([Store(db, o, [row EXCEPT !.phase = "Published", !.fresh = FALSE]) EXCEPT
                   !.revision[r] = o,
                   !.claim[r] = IF @ = o THEN None ELSE @,
                   !.generation = @ + 1,
                   !.parent = IF IsAppend(o) THEN [@ EXCEPT !.done = TRUE] ELSE @])
        /\ UNCHANGED puts

\* Another command replaces what the path holds.
PathMoves ==
    /\ Serving
    /\ db.generation < plan.moves
    /\ Rows([db EXCEPT !.generation = @ + 1])
    /\ UNCHANGED puts

\* fail_append_conflict: an append whose path moved on is given up at once; any
\* other operation stays Finalizing.
FailAppendConflict(o) ==
    LET row == db.op[o]
    IN  /\ Heartbeat(o)
        /\ row.phase = "Finalizing"
        /\ db.generation # row.claim
        /\ IsAppend(o) /\ CleanupAuthority(o)
        /\ Rows(Store(db, o, [row EXCEPT !.phase = "Aborting", !.fresh = FALSE]))
        /\ UNCHANGED puts

\* abort_artifact_publish.
AbortPublish(o) ==
    LET row == db.op[o]
    IN  /\ Serving /\ TokenHeld(o)
        /\ row.phase = "Uploading"
        /\ CleanupAuthority(o)
        /\ Rows(Store(db, o, [row EXCEPT !.phase = "Aborting", !.fresh = FALSE]))
        /\ UNCHANGED puts

\* Bug: the client is told before the publication is durable.
AnswerEarly(o) ==
    /\ db.op[o].phase = "Published"
    /\ acked' = acked \cup {o}
    /\ UNCHANGED <<plan, db, durable, objects, puts, doomed, worker, failures, crashes, struck, emptied>>

\* The acknowledgement barrier let a reply through: what it says is durable.
Answer(o) ==
    /\ durable.op[o].phase = "Published"
    /\ acked' = acked \cup {o}
    /\ UNCHANGED <<plan, db, durable, objects, puts, doomed, worker, failures, crashes, struck, emptied>>

-----------------------------------------------------------------------------
(* The operator and the initiator of a quarantined operation. *)

\* Keys of the staged rows that are not swept yet.
UnsweptKeys(o) == {Key(o, i) : i \in (db.op[o].swept + 1)..db.op[o].staged}
Unswept(row) == row.swept < row.staged \/ row.sweptRows < row.manifest

\* The operator removes the objects a quarantined publication left behind.
OperatorRemoves(o) ==
    /\ db.op[o].phase = "Quarantined"
    /\ ~IsAppend(o)
    /\ objects' = [k \in Keys |-> IF k \in UnsweptKeys(o) THEN None ELSE objects[k]]
    /\ UNCHANGED <<puts, doomed, worker, failures, struck, emptied>>
    /\ Provider

\* Staged rows go first, then the manifest rows of the revision.
Sweep(o, n) ==
    LET row == db.op[o]
    IN  IF row.swept < row.staged
        THEN Store(db, o, [row EXCEPT !.swept = @ + n])
        ELSE [Store(db, o, [row EXCEPT !.sweptRows = row.manifest]) EXCEPT !.manifest[Rev(o)] = 0]

\* reconcile_quarantined_publish_batch, under the verdict that every staged key
\* was verified absent and the revision is unpublished.
ReconcileBatch(o) ==
    LET row == db.op[o]
    IN  /\ Serving /\ TokenHeld(o)
        /\ row.phase = "Quarantined"
        /\ ~IsAppend(o)
        /\ Unswept(row)
        /\ \A k \in UnsweptKeys(o) : objects[k] = None
        /\ db.revision[Rev(o)] = None
        /\ db' = Sweep(o, row.staged - row.swept)
        /\ emptied' = emptied \cup {<<o, i>> : i \in (row.swept + 1)..row.staged}
        /\ RowsKept
        /\ UNCHANGED puts

\* release_revision_claim: only the claim the operation holds itself.
Released(d, o) == [d EXCEPT !.claim[Rev(o)] = IF @ = o THEN None ELSE @]

\* finish_reconcile_quarantined_publish.
ReconcileFinish(o) ==
    LET row == db.op[o]
    IN  /\ Serving
        /\ row.phase = "Quarantined"
        /\ ~IsAppend(o)
        /\ ~Unswept(row)
        /\ db.revision[Rev(o)] = None
        /\ Rows(Released(Store(db, o, [row EXCEPT !.phase = "Cleaned"]), o))
        /\ UNCHANGED puts

\* retry_append_cleanup: the owner is asked to try again.
RetryAppendCleanup(o) ==
    LET row == db.op[o]
    IN  /\ Serving /\ TokenHeld(o)
        /\ row.phase = "Quarantined"
        /\ IsAppend(o)
        /\ row.retries < MaxRetries
        /\ CleanupAuthority(o)
        /\ Rows(Store(db, o, [row EXCEPT !.phase = "Cleaning", !.retries = @ + 1]))
        /\ UNCHANGED puts

-----------------------------------------------------------------------------
(* The lifecycle worker: cycles over the index of active operations. *)

\* The worker's steps on the rows and on itself.
WorkerRows(d) ==
    db' = d /\ UNCHANGED <<plan, durable, objects, puts, doomed, acked, failures, crashes, struck, emptied>>

\* recover_publications visits an operation of the index and reads its row.  An
\* operation that is live, or whose cleanup is contested, is passed over.
Visits(o) == worker.pc = "idle" /\ o \in db.active
Enter(o, pc, at) == [worker EXCEPT !.pc = pc, !.op = o, !.row = db.op[o], !.at = at]

\* The operation is orphaned: a newer epoch serves, or its lease has expired.
ObserveOrphan(o) ==
    /\ Visits(o)
    /\ db.op[o].phase \in LivePhases
    /\ db.op[o].older \/ ~db.op[o].fresh
    /\ worker' = Enter(o, "takeover", 0)
    /\ WorkerRows(db)

\* Bug: the takeover does not compare the row it observed.
TakeOverUnchecked ==
    LET row == db.op[worker.op]
    IN  /\ worker.pc = "takeover"
        /\ row.phase \in LivePhases
        /\ WorkerRows(Store(db, worker.op,
                            [row EXCEPT !.phase = "Aborting", !.fresh = FALSE]))
        /\ worker' = Idle

\* The row the worker observed is still the row: a deadline that passes changes
\* no row, a heartbeat does.
RowUnchanged ==
    db.op[worker.op] = IF worker.row.older THEN [worker.row EXCEPT !.fresh = db.op[worker.op].fresh]
                       ELSE worker.row

\* take_over_orphaned_publish: compares the complete row it observed.
TakeOver ==
    LET row == worker.row
    IN  /\ worker.pc = "takeover"
        /\ RowUnchanged
        /\ CleanupAuthority(worker.op)
        /\ WorkerRows(Store(db, worker.op,
                            [row EXCEPT !.phase = "Aborting", !.fresh = FALSE]))
        /\ worker' = Idle

\* The row changed after the command read it: the worker lost a race and goes on.
TakeOverRaced ==
    /\ worker.pc = "takeover"
    /\ ~RowUnchanged
    /\ worker' = Idle
    /\ WorkerRows(db)

\* The row changed before the command read it: the answer is ConcurrentMutation,
\* which the worker does not know as a lost race (publication_concurrent).  It
\* ends its cycle, publishing as every cycle does, and fails the shard closed.
TakeOverFails ==
    /\ worker.pc = "takeover"
    /\ ~RowUnchanged
    /\ worker' = [Idle EXCEPT !.pc = "failed"]
    /\ durable' = Recovered(db)
    /\ UNCHANGED <<plan, db, objects, puts, doomed, acked, failures, crashes, struck, emptied>>

\* transition_publish to Cleaning.
BeginCleaning(o) ==
    /\ Visits(o)
    /\ db.op[o].phase = "Aborting"
    /\ CleanupAuthority(o)
    /\ WorkerRows(Store(db, o, [db.op[o] EXCEPT !.phase = "Cleaning"]))
    /\ UNCHANGED worker

\* clean_publication: a revision that is published after all is left alone, and
\* a claim of another operation waited for.  The objects of a batch go first,
\* then their rows, then the manifest rows.
BeginCleanup(o) ==
    LET row == db.op[o]
        r == Rev(o)
    IN  /\ Visits(o)
        /\ row.phase = "Cleaning"
        /\ Unswept(row)
        /\ db.revision[r] = None => db.claim[r] \in {None, o}
        /\ worker' = Enter(o, IF db.revision[r] # None THEN "quarantine"
                              ELSE IF row.swept < row.staged THEN "publish" ELSE "batch",
                           row.swept + 1)
        /\ WorkerRows(db)

\* Bug: the provider is called before the Cleaning phase is durable.
CleanUnpublished ==
    /\ worker.pc = "publish"
    /\ worker' = [worker EXCEPT !.pc = "cleanup"]
    /\ WorkerRows(db)

\* Before every provider call: what the worker decided on is made durable.
PublishBeforeCleanup ==
    /\ worker.pc = "publish"
    /\ durable' = Recovered(db)
    /\ worker' = [worker EXCEPT !.pc = "cleanup"]
    /\ UNCHANGED <<plan, db, objects, puts, doomed, acked, failures, crashes, struck, emptied>>

BatchEnd(row) == IF row.swept + BatchSize < row.staged THEN row.swept + BatchSize ELSE row.staged

\* Bug: an aborted append is deleted like any other publication.
EmptiedDeletes(k) == [objects EXCEPT ![k] = None]

\* The provider call: an aborted append's key is sealed for good, any other is
\* deleted.
Emptied(k) ==
    [objects EXCEPT ![k] = IF \E o \in Operations : IsAppend(o) /\ Rev(o) = k[1]
                           THEN "Sealed" ELSE None]

CleanupObject ==
    /\ worker.pc = "cleanup"
    /\ db.op[worker.op] = worker.row
    /\ CleanupAuthority(worker.op)
    /\ objects' = Emptied(Key(worker.op, worker.at))
    /\ worker' = IF worker.at < BatchEnd(worker.row)
                 THEN [worker EXCEPT !.pc = "publish", !.at = @ + 1]
                 ELSE [worker EXCEPT !.pc = "batch"]
    /\ emptied' = emptied \cup {<<worker.op, worker.at>>}
    /\ UNCHANGED <<puts, doomed, failures, struck>>
    /\ Provider

\* Its outcome is unknown: it took effect, or not, or may still do so.
CleanupAmbiguous ==
    LET k == Key(worker.op, worker.at)
    IN  /\ worker.pc = "cleanup"
        /\ CleanupAuthority(worker.op)
        /\ failures < MaxFailures
        /\ failures' = failures + 1
        /\ objects' \in {objects, Emptied(k)}
        /\ doomed' = doomed \cup {k}
        /\ worker' = [worker EXCEPT !.pc = "quarantine"]
        /\ UNCHANGED <<puts, struck, emptied>>
        /\ Provider

\* A cleanup request of uncertain outcome reaches the provider after all, which
\* compares nothing: it removes whatever body stands there by now.
LateCleanup(k) ==
    /\ objects' = Emptied(k)
    /\ doomed' = doomed \ {k}
    /\ struck' = IF objects[k] \in Operations THEN struck \cup {k} ELSE struck
    /\ UNCHANGED <<puts, worker, failures, emptied>>
    /\ Provider

\* cleanup_publish_batch: the staged rows of the batch, or the manifest rows.
CleanupBatch ==
    /\ worker.pc = "batch"
    /\ db.op[worker.op] = worker.row
    /\ CleanupAuthority(worker.op)
    /\ WorkerRows(Sweep(worker.op, BatchEnd(worker.row) - worker.row.swept))
    /\ worker' = Idle

\* quarantine_publication: the operation leaves the index and keeps its claim.
Quarantine ==
    /\ worker.pc = "quarantine"
    /\ db.op[worker.op] = worker.row
    /\ CleanupAuthority(worker.op)
    /\ WorkerRows(Store(db, worker.op, [worker.row EXCEPT !.phase = "Quarantined"]))
    /\ worker' = Idle

\* FinishCleanup: the claim is released, except that of an append, whose keys
\* stay sealed.
FinishCleanup(o) ==
    LET cleaned == Store(db, o, [db.op[o] EXCEPT !.phase = "Cleaned"])
    IN  /\ Visits(o)
        /\ db.op[o].phase = "Cleaning"
        /\ ~Unswept(db.op[o])
        /\ CleanupAuthority(o)
        /\ WorkerRows(IF IsAppend(o) THEN cleaned ELSE Released(cleaned, o))
        /\ UNCHANGED worker

-----------------------------------------------------------------------------
(* Time, durability and failover. *)

\* The activity deadline of a live operation passes.
Expire(o) ==
    /\ db.op[o].phase \in LivePhases
    /\ db.op[o].fresh
    /\ db' = [db EXCEPT !.op[o].fresh = FALSE]
    /\ UNCHANGED <<plan, durable, objects, puts, doomed, worker, acked, failures, crashes, struck, emptied>>

\* The end of a cycle, or some request's barrier, publishes the recovery log.
PublishCurrent ==
    /\ Serving
    /\ durable # Recovered(db)
    /\ durable' = Recovered(db)
    /\ UNCHANGED <<plan, db, objects, puts, doomed, worker, acked, failures, crashes, struck, emptied>>

\* A successor serves what was durable.  Its clock may be behind the deadlines
\* its predecessor set.  Requests of the predecessor die with it, except those
\* the provider already has.
Recover ==
    /\ \E behind \in BOOLEAN :
          db' = [durable EXCEPT !.op = [o \in Operations |->
                    [@[o] EXCEPT !.fresh = behind /\ durable.op[o].phase \in LivePhases]]]
    /\ puts' = {[p EXCEPT !.at = "late"] : p \in {q \in puts : q.at # "stored"}}
    /\ doomed' = IF worker.pc = "cleanup"
                 THEN doomed \cup {Key(worker.op, worker.at)} ELSE doomed
    /\ worker' = Idle
    /\ UNCHANGED <<plan, durable, objects, acked, failures, struck, emptied>>

Crash ==
    /\ Serving
    /\ crashes < MaxCrashes
    /\ crashes' = crashes + 1
    /\ Recover

\* fail_closed_shard ended the ownership; the shard is acquired again.
Restart ==
    /\ ~Serving
    /\ UNCHANGED crashes
    /\ Recover

-----------------------------------------------------------------------------

Client(o) ==
    \/ Begin(o)
    \/ \E n \in 1..Objects : StageObjects(o, n)
    \/ \E i \in 1..Objects : AdmitUpload(o, i)
    \/ \E n \in 1..ManifestRows : StageManifest(o, n)
    \/ BeginFinalization(o)
    \/ FinalizePublish(o)
    \/ FailAppendConflict(o)
    \/ AbortPublish(o)
    \/ Answer(o)
    \/ RetryAppendCleanup(o)

Operator(o) == OperatorRemoves(o) \/ ReconcileBatch(o) \/ ReconcileFinish(o)

Upload(p) ==
    \/ CreateImmutable(p)
    \/ CreateCollides(p)
    \/ CreateFails(p)
    \/ LateCreate(p)
    \/ RecordUpload(p)

Visit(o) ==
    \/ ObserveOrphan(o)
    \/ BeginCleaning(o)
    \/ BeginCleanup(o)
    \/ FinishCleanup(o)

WorkerStep ==
    \/ TakeOver
    \/ TakeOverRaced
    \/ TakeOverFails
    \/ PublishBeforeCleanup
    \/ CleanupObject
    \/ CleanupAmbiguous
    \/ CleanupBatch
    \/ Quarantine

Next ==
    \/ \E o \in Operations : Client(o) \/ Operator(o) \/ Expire(o)
    \/ \E p \in puts : Upload(p)
    \/ \E k \in doomed : LateCleanup(k)
    \/ \E o \in Operations : Visit(o)
    \/ WorkerStep
    \/ PathMoves
    \/ PublishCurrent
    \/ Crash
    \/ Restart

\* Time passes, every cycle of the worker visits every operation of the index,
\* and a shard that failed closed is reopened.  Clients, operators and the
\* provider owe nothing.
Fairness ==
    /\ \A o \in UNION {DOMAIN p.revision : p \in Plans} :
          /\ WF_vars(o \in Operations /\ Expire(o))
          /\ SF_vars(o \in Operations /\ Visit(o))
    /\ WF_vars(WorkerStep \/ Restart)

Spec == Init /\ [][Next]_vars /\ Fairness

-----------------------------------------------------------------------------
(* Properties. *)

\* A published revision, in the serving store or in what a successor recovers,
\* has its manifest, and every key holds the body of the operation that
\* published it (docs/architecture.md:431-432: no old process deletes objects
\* after a failover).
PublishedIsReadable ==
    \A d \in {db, durable} : \A r \in Revisions :
        d.revision[r] # None =>
            /\ d.manifest[r] = ManifestRows
            /\ \A i \in 1..Objects : objects[<<r, i>>] = d.revision[r]

\* The one way a published revision loses an object.  A key holds the body of the
\* publisher, whatever uploads and cleanups of this or an earlier owner fail or
\* arrive late, unless a cleanup request outlived its caller and struck the key;
\* and then it was the request of another operation, which was given the same
\* revision and had been cleaned and had released its claim
\* (release_revision_claim) before this one was admitted.
ReadableUnlessReused ==
    \A d \in {db, durable} : \A r \in Revisions :
        d.revision[r] # None =>
            /\ d.manifest[r] = ManifestRows
            /\ \A i \in 1..Objects :
                  \/ objects[<<r, i>>] = d.revision[r]
                  \/ /\ <<r, i>> \in struck
                     /\ \E o \in Operations \ {d.revision[r]} :
                           Rev(o) = r /\ d.op[o].phase = "Cleaned"

\* Whatever stands in the provider was in the ledger a successor recovers before
\* it was uploaded, and its staged row is still there, unless the row's key had
\* been emptied first: only an upload that is overtaken by its own cleanup leaves
\* an object behind that no row owns.
ObjectsAreLedgered ==
    \A d \in {db, durable} : \A o \in Operations : \A i \in 1..Objects :
        objects[Key(o, i)] = o =>
            /\ i <= d.op[o].staged
            /\ i > d.op[o].swept \/ <<o, i>> \in emptied

\* A publication the client was told of stays published across failovers, and
\* the revision it made is its own.
AckedStaysPublished ==
    \A o \in acked : db.op[o].phase = "Published" /\ db.revision[Rev(o)] = o

\* Attempts of one logical append never both publish.
AppendedOnce ==
    Cardinality({o \in Operations : IsAppend(o) /\ db.op[o].phase = "Published"}) <= 1

\* An append attempt that was cleaned keeps its revision reserved, and its keys
\* hold no bytes ever again, whatever upload arrives late.
SealedForGood ==
    \A d \in {db, durable} : \A o \in Operations :
        IsAppend(o) /\ d.op[o].phase = "Cleaned" =>
            /\ d.claim[Rev(o)] = o
            /\ \A i \in 1..d.op[o].staged : objects[Key(o, i)] = "Sealed"

\* The worker ends an operation of its own epoch only if the lease is expired at
\* that moment, not when it looked.
LiveIsLeftAlone ==
    [][\A o \in Operations :
          worker.pc = "takeover" /\ db.op[o].phase \in LivePhases /\ db'.op[o].phase = "Aborting"
              /\ worker' # worker => db.op[o].older \/ ~db.op[o].fresh]_vars

\* Whatever clients began and then left alone ends published, cleaned or in the
\* hands of the operator: unless clients renew their leases for ever, time and
\* again no operation is left half done.
OrphansResolve ==
    \/ []<><<\E o \in Operations : db'.op[o].fresh /\ ~db.op[o].fresh>>_vars
    \/ []<>(\A o \in Operations : db.op[o].phase \notin ActivePhases)

=============================================================================
