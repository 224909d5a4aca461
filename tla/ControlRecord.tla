---------------------------- MODULE ControlRecord ----------------------------
(***************************************************************************)
(* The logical-shard record of the control plane and the pure transition   *)
(* functions every ControlStore backend shares                             *)
(* (crates/nokv-control/src/store.rs and types.rs).                        *)
(*                                                                         *)
(* A LogRef is the sequence of its segments: validate_log_ref forces its   *)
(* durable_lsn and digest to be those of the last one, and an empty        *)
(* sequence stands for `None'.  Object keys, receipts and the upload plan  *)
(* are determined by the segment they belong to, so a segment is its LSN   *)
(* range and chain digest.  Endpoints and encoded sizes are left out.      *)
(*                                                                         *)
(* Record fields: owner (None when unowned), epoch (0 before the first     *)
(* owner), lease, state, checkpoint, log, durable, pending.                *)
(***************************************************************************)
EXTENDS Naturals, Sequences, SequencesExt

CONSTANTS None,          \* absent optional value
          MaxSegments    \* MAX_RECOVERY_LOG_SEGMENTS

ASSUME MaxSegmentsAssumption == MaxSegments \in Nat \ {0}

\* LogicalShardRecord::unassigned
Unassigned ==
    [owner |-> None, epoch |-> 0, lease |-> 0, state |-> "Unassigned",
     checkpoint |-> None, log |-> <<>>, durable |-> 0, pending |-> None]

CheckpointLsn(checkpoint) == IF checkpoint = None THEN 0 ELSE checkpoint.lsn
LogLsn(log) == IF log = <<>> THEN 0 ELSE log[Len(log)].last

\* The LSN that a checkpoint and a log reach together.
ReferenceLsn(checkpoint, log) ==
    IF CheckpointLsn(checkpoint) > LogLsn(log)
    THEN CheckpointLsn(checkpoint) ELSE LogLsn(log)

\* durable_tail_digest: None when neither reference ends at the durable LSN.
TailDigest(record) ==
    IF record.log # <<>> /\ LogLsn(record.log) = record.durable
    THEN record.log[Len(record.log)].digest
    ELSE IF record.checkpoint # None /\ record.checkpoint.lsn = record.durable
         THEN record.checkpoint.digest
         ELSE None

-----------------------------------------------------------------------------
(* Publications: [checkpoint, log, durable].                               *)

\* Bug: an advanced chain need not start with the durable segments.
ValidLogRefForgetsPrefix(record, checkpoint, log) ==
    LET base == CheckpointLsn(IF checkpoint # None THEN checkpoint
                              ELSE record.checkpoint)
    IN  /\ log # <<>>
        /\ Len(log) <= MaxSegments
        /\ LogLsn(log) >= base
        /\ \A i \in 1..Len(log) : 0 < log[i].first /\ log[i].first <= log[i].last
        /\ \A i \in 2..Len(log) : log[i].first = log[i-1].last + 1
        /\ LogLsn(log) > base => log[1].first = base + 1

ValidLogRef(record, checkpoint, log) ==
    LET base == CheckpointLsn(IF checkpoint # None THEN checkpoint
                              ELSE record.checkpoint)
    IN  /\ log # <<>>
        /\ Len(log) <= MaxSegments
        /\ LogLsn(log) >= base
        /\ \A i \in 1..Len(log) : 0 < log[i].first /\ log[i].first <= log[i].last
        /\ \A i \in 2..Len(log) : log[i].first = log[i-1].last + 1
        /\ LogLsn(log) > base => log[1].first = base + 1
        /\ (record.log # <<>> /\ LogLsn(record.log) > base
                              /\ LogLsn(log) > LogLsn(record.log))
              => IsPrefix(record.log, log)

\* The checks of apply_recovery_publication.
PublicationAccepted(record, pub) ==
    IF pub.checkpoint = None /\ pub.log = <<>>
    THEN pub.durable = record.durable
    ELSE /\ pub.durable = ReferenceLsn(pub.checkpoint, pub.log)
         /\ pub.checkpoint # None => pub.checkpoint.lsn >= record.durable
         /\ pub.log # <<>> =>
              /\ LogLsn(pub.log) >= record.durable
              /\ ValidLogRef(record, pub.checkpoint, pub.log)
              /\ record.log # <<>> /\ LogLsn(record.log) = LogLsn(pub.log)
                    => record.log = pub.log
         /\ pub.checkpoint # None /\ pub.log # <<>>
              /\ pub.checkpoint.lsn = LogLsn(pub.log)
            => pub.checkpoint.digest = pub.log[Len(pub.log)].digest
         /\ TailDigest(record) # None =>
              /\ pub.checkpoint # None /\ pub.checkpoint.lsn = record.durable
                    => pub.checkpoint.digest = TailDigest(record)
              /\ pub.log # <<>> /\ LogLsn(pub.log) = record.durable
                    => pub.log[Len(pub.log)].digest = TailDigest(record)

\* The merge of apply_recovery_publication: a checkpoint dominates a log it
\* fully covers.
Published(record, pub) ==
    LET checkpoint == IF pub.checkpoint # None THEN pub.checkpoint
                      ELSE record.checkpoint
        log == IF pub.log # <<>> THEN pub.log ELSE record.log
    IN  IF pub.checkpoint = None /\ pub.log = <<>> THEN record
        ELSE [record EXCEPT
                !.checkpoint = checkpoint,
                !.log = IF checkpoint # None /\ LogLsn(log) <= checkpoint.lsn
                        THEN <<>> ELSE log,
                !.durable = pub.durable]

-----------------------------------------------------------------------------
(* Upload intents: [first, last, prev, digest].                            *)

SegmentOf(intent) ==
    [first |-> intent.first, last |-> intent.last, digest |-> intent.digest]

\* validate_recovery_upload_intent and its _shape
IntentAccepted(record, intent) ==
    /\ record.state \in {"Recovering", "Serving"}
    /\ 0 < intent.first /\ intent.first <= intent.last
    /\ Len(record.log) < MaxSegments
    /\ intent.first = record.durable + 1
    /\ TailDigest(record) # None => intent.prev = TailDigest(record)

\* recovery_publication_after_intent
PublicationAfterIntent(record, intent) ==
    [checkpoint |-> None, log |-> Append(record.log, SegmentOf(intent)),
     durable |-> intent.last]

\* validate_upload_publication
PublicationMatches(intent, pub) ==
    /\ pub.durable = intent.last
    /\ pub.log # <<>>
    /\ pub.log[Len(pub.log)] = SegmentOf(intent)

\* recovery_upload_is_published
IsPublished(record, intent) ==
    /\ record.durable = intent.last
    /\ record.log # <<>>
    /\ record.log[Len(record.log)] = SegmentOf(intent)

-----------------------------------------------------------------------------
(* validate_logical_shard_record, run on every record about to be written. *)

\* Everything but the pending upload.
ValidSettled(record) ==
    /\ record.epoch = 0 =>
         /\ record.checkpoint = None /\ record.log = <<>>
         /\ record.durable = 0 /\ record.pending = None
    /\ IF record.owner = None
       THEN record.lease = 0 /\ record.state = "Unassigned"
       ELSE record.epoch # 0 /\ record.lease # 0 /\ record.state # "Unassigned"
    /\ record.log # <<>> => ValidLogRef(record, None, record.log)
    /\ record.durable = ReferenceLsn(record.checkpoint, record.log)
    /\ record.checkpoint # None /\ record.log # <<>>
         /\ record.checkpoint.lsn = record.durable
         /\ LogLsn(record.log) = record.durable
       => record.checkpoint.digest = record.log[Len(record.log)].digest

\* A pending upload can be finalised into a valid record.
PendingFinishable(record) ==
    LET pub == PublicationAfterIntent(record, record.pending)
    IN  /\ IntentAccepted(record, record.pending)
        /\ PublicationAccepted(record, pub)
        /\ ValidSettled([Published(record, pub) EXCEPT !.pending = None])

ValidRecord(record) ==
    /\ ValidSettled(record)
    /\ record.pending # None => PendingFinishable(record)

-----------------------------------------------------------------------------
(* The prepare_* transition functions.                                     *)

\* Bug: a new epoch starts without the upload its predecessor left pending.
AcquiredForgetsPending(record, owner, id) ==
    [record EXCEPT !.owner = owner, !.epoch = record.epoch + 1,
                   !.lease = id, !.state = "Recovering", !.pending = None]

\* prepare_owner_acquisition: a new epoch, as a recovery attempt
Acquired(record, owner, id) ==
    [record EXCEPT !.owner = owner, !.epoch = record.epoch + 1,
                   !.lease = id, !.state = "Recovering"]

\* prepare_recovery_reacquisition: the same epoch under a new lease
Reacquired(record, owner, id) ==
    [record EXCEPT !.owner = owner, !.lease = id]

\* prepare_mark_serving
ServingRecord(record, pub) == [Published(record, pub) EXCEPT !.state = "Serving"]

\* prepare_recovery_upload_finalization
FinalizedRecord(record, pub) == [Published(record, pub) EXCEPT !.pending = None]

\* prepare_owner_release
ReleasedRecord(record) ==
    [record EXCEPT !.owner = None, !.lease = 0, !.state = "Unassigned"]

\* validate_record_lease
NamesLease(record, lease) ==
    /\ record.owner = lease.owner
    /\ record.epoch = lease.epoch
    /\ record.lease = lease.id
=============================================================================
