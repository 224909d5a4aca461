---------------------------- MODULE EtcdControl ------------------------------
(***************************************************************************)
(* The etcd backend of the control store (crates/nokv-control/src/etcd.rs) *)
(* for one logical shard.  A ControlStore operation is a sequence of etcd  *)
(* requests: reads, a lease grant, one compare-and-swap transaction and,   *)
(* when its answer is lost or negative, more reads to classify what        *)
(* happened.  Every request is one step, so the calls of several processes *)
(* interleave, leases expire in between, and a transaction whose reply was *)
(* lost may commit long after its caller has given up.                     *)
(*                                                                         *)
(* The record and its recovery state are two keys that are read and        *)
(* written together and are one value here; `revision' is the mod_revision *)
(* of the record key.                                                      *)
(***************************************************************************)
EXTENDS ControlRecord, FiniteSets

CONSTANTS Owners,          \* nodes; each runs at most one call at a time
          Roots,           \* roots whose placement names the shard
          Digests,         \* chain digests a publication may name
          MaxLsn,          \* bound on the LSNs of publications
          MaxGeneration,   \* bound on placement generations
          MaxGrants,       \* bound on etcd leases granted
          MaxLost,         \* bound on transactions outstanding without caller
          MaxRevision      \* bound on writes of the record

ASSUME EtcdBounds ==
    /\ MaxLsn \in Nat /\ MaxGeneration \in Nat /\ MaxGrants \in Nat
    /\ MaxLost \in Nat /\ MaxRevision \in Nat
    /\ None \notin Owners /\ None \notin Digests
    /\ None \notin [owner : Owners, epoch : Nat, id : Nat]

VARIABLES
    record,      \* the shard record
    revision,    \* its mod_revision
    session,     \* the session key: the lease written there, or None
    placement,   \* root -> its RootPlacement, or None
    leases,      \* ids of the etcd leases alive
    grants,      \* etcd leases granted so far
    call,        \* node -> its call in progress, or None
    late,        \* transactions sent whose reply is lost
    installs,    \* history: leases in the order they were installed
    refused,     \* history: leases whose caller was told the install lost
    returned,    \* leases some acquisition returned to its caller
    served       \* history: leases under which the record became Serving

etcd == <<record, revision, session, placement, leases, installs, served>>
vars == <<etcd, grants, call, late, refused, returned>>

Init ==
    /\ record = Unassigned
    /\ revision = 1
    /\ session = None
    /\ placement = [r \in Roots |-> None]
    /\ leases = {}
    /\ grants = 0
    /\ call = [n \in Owners |-> None]
    /\ late = {}
    /\ installs = <<>>
    /\ refused = {}
    /\ returned = {}
    /\ served = {}

-----------------------------------------------------------------------------
(* The mapping to ControlStore.  etcd numbers every lease it grants, the   *)
(* abstract store only those it installs: an id is mapped to its place in  *)
(* the order of installation.                                              *)

Rank(id) == IF id = 0 THEN 0
            ELSE CHOOSE i \in 1..Len(installs) : installs[i].id = id
Ranked(lease) == [lease EXCEPT !.id = Rank(@)]

Control == INSTANCE ControlStore WITH
    MaxLeases <- MaxGrants,
    control <- [record EXCEPT !.lease = Rank(@)],
    session <- IF session = None THEN None ELSE Ranked(session),
    nextLease <- Len(installs),
    granted <- {Ranked(installs[i]) : i \in 1..Len(installs)},
    served <- {Ranked(lease) : lease \in served}

-----------------------------------------------------------------------------
(* Calls.  A call remembers what it has read: the record `seen' at         *)
(* revision `rev' and the placement of `root'; `next' is the record it     *)
(* wants to write.  `met' notes, at the read that found the wanted record, *)
(* whether the answer the call is about to give was true at that instant.  *)

Acquisitions == {"acquire", "successor", "reacquire"}
RecordWrites == {"mark", "prepare", "finalize", "abort"}
Mutations == RecordWrites \cup {"release", "suspend", "renew"}

Busy == {n \in Owners : call[n] # None}

\* A call may start while there is room for what it and the others may write.
Room == revision + Cardinality(Busy) + Cardinality(late) < MaxRevision

Continue(n, changed) == call' = [call EXCEPT ![n] = changed]
Finish(n) == Continue(n, None)

\* fetch_logical_shard: both keys at one etcd revision
Fetched(c, pc) == [c EXCEPT !.seen = record, !.rev = revision, !.pc = pc]

\* find_write_placement, the first request of an acquisition
BeginAcquisition(n, op, r) ==
    /\ call[n] = None /\ Room
    /\ placement[r] # None /\ placement[r].lifecycle # "Retired"
    /\ Continue(n, [op |-> op, pc |-> "fetch", lease |-> None, seen |-> None,
                    rev |-> 0, root |-> r, place |-> placement[r],
                    next |-> None, met |-> FALSE])
    /\ UNCHANGED <<etcd, grants, late, refused, returned>>

\* The epoch checks an acquisition makes before it asks for a lease.
FetchForAcquisition(n) ==
    /\ call[n] # None /\ call[n].pc = "fetch"
    /\ IF (call[n].op = "acquire") = (record.epoch = 0)
       THEN Continue(n, Fetched(call[n], "grant"))
       ELSE Finish(n)
    /\ UNCHANGED <<etcd, grants, late, refused, returned>>

\* The record an acquisition wants to install, if prepare_owner_acquisition
\* or prepare_recovery_reacquisition lets it.
AcquisitionPrepared(op, seen, n, id) ==
    {next \in {IF op = "reacquire" THEN Reacquired(seen, n, id)
                                   ELSE Acquired(seen, n, id)} :
        /\ op # "acquire" => (op = "reacquire") = (seen.state = "Recovering")
        /\ ValidRecord(next)}

\* grant_lease, and the preparation that follows it: an acquisition that
\* cannot be prepared gives its lease back.
Grant(n) ==
    /\ call[n] # None /\ call[n].pc = "grant"
    /\ grants < MaxGrants
    /\ grants' = grants + 1
    /\ leases' = leases \cup {grants'}
    /\ LET c == call[n]
           nexts == AcquisitionPrepared(c.op, c.seen, n, grants')
           epoch == IF c.op = "reacquire" THEN c.seen.epoch ELSE c.seen.epoch + 1
           lease == [owner |-> n, epoch |-> epoch, id |-> grants']
       IN  IF nexts = {}
           THEN Continue(n, [c EXCEPT !.lease = lease, !.seen = None,
                                      !.pc = "revoke"])
           ELSE \E next \in nexts :
                  Continue(n, [c EXCEPT !.lease = lease, !.seen = None,
                                        !.next = next, !.pc = "transact"])
    /\ UNCHANGED <<record, revision, session, placement, installs, served,
                   late, refused, returned>>

\* The first read of every call made under a lease, current or stale.
BeginMutation(n, op, lease) ==
    /\ call[n] = None /\ Room
    /\ lease.owner = n
    /\ Continue(n, [op |-> op, pc |-> "session", lease |-> lease,
                    seen |-> record, rev |-> revision, root |-> None,
                    place |-> None, next |-> None, met |-> FALSE])
    /\ UNCHANGED <<etcd, grants, late, refused, returned>>

\* The callers, recovery_publisher.rs and bootstrap.rs, publish no checkpoint.
Publications == {pub \in Control!Publications : pub.checkpoint = None}

\* The records the prepare_* functions let a call write; its arguments are
\* any such publication and any upload intent.
Prepared(op, seen) ==
    CASE op = "mark" ->
           {ServingRecord(seen, pub) : pub \in
              {p \in Publications :
                 seen.pending = None /\ PublicationAccepted(seen, p)}}
      [] op = "prepare" ->
           {[seen EXCEPT !.pending = intent] : intent \in
              {i \in Control!Intents :
                 IntentAccepted(seen, i) /\ seen.pending \in {None, i}}}
      [] op = "finalize" /\ seen.pending # None ->
           {FinalizedRecord(seen, pub) : pub \in
              {p \in Publications :
                 PublicationMatches(seen.pending, p) /\ PublicationAccepted(seen, p)}}
      [] op \in {"finalize", "abort"} /\ seen.pending = None ->
           {r \in {seen} : \E i \in Control!Intents : IsPublished(seen, i)}
      [] op = "abort" /\ seen.pending # None ->
           {[r EXCEPT !.pending = None] : r \in
              {r \in {seen} : seen.state = "Recovering"}}
      [] op = "release" ->
           {ReleasedRecord(r) : r \in
              {r \in {seen} : seen.pending = None /\ seen.state # "Recovering"}}
      [] op = "suspend" -> {r \in {seen} : seen.state = "Recovering"}
      [] op = "renew" -> {seen}

\* validate_owner_session and the preparation: a call that may not proceed
\* fails.  A suspension accepts that there is no session any more.
ReadSession(n) ==
    /\ call[n] # None /\ call[n].pc = "session"
    /\ LET c == call[n]
           nexts == {next \in Prepared(c.op, c.seen) : ValidRecord(next)}
       IN  IF /\ NamesLease(c.seen, c.lease) /\ nexts # {}
              /\ session = c.lease \/ (c.op = "suspend" /\ session = None)
           THEN \E next \in nexts :
                  Continue(n, [c EXCEPT
                    !.next = next, !.seen = None,
                    !.met = NamesLease(record, c.lease) /\ session = c.lease,
                    !.pc = IF session = None THEN "sessionless"
                           ELSE IF c.op = "renew" THEN "keepalive"
                           ELSE "transact"])
           ELSE Finish(n)
    /\ UNCHANGED <<etcd, grants, late, refused, returned>>

-----------------------------------------------------------------------------
(* Transactions: the call that sent one carries its comparisons and writes.*)

\* Bug: the install does not compare the record's revision.
ComparesSessionOnly(t) ==
    IF t.op \in Acquisitions
    THEN session = None /\ placement[t.root] = t.place
    ELSE revision = t.rev /\ session = t.lease

Compares(t) ==
    /\ revision = t.rev
    /\ IF t.op \in Acquisitions
       THEN session = None /\ placement[t.root] = t.place
       ELSE session = t.lease

\* etcd rejects a put under a dead lease with an error, and applies nothing.
Applies(t) == Compares(t) /\ (t.op \in Acquisitions => t.lease.id \in leases)

Apply(t) ==
    IF Applies(t)
    THEN /\ record' = t.next
         /\ revision' = IF t.op = "suspend" THEN revision ELSE revision + 1
         /\ session' = IF t.op \in Acquisitions THEN t.lease
                       ELSE IF t.op \in {"suspend", "release"} THEN None
                       ELSE session
         /\ installs' = IF t.op \in Acquisitions THEN Append(installs, t.lease)
                        ELSE installs
         /\ served' = IF t.op = "mark" THEN served \cup {t.lease} ELSE served
         /\ UNCHANGED <<placement, leases>>
    ELSE UNCHANGED etcd

\* Where a call goes when its transaction did not succeed.
AfterFailure(op) ==
    IF op \in Acquisitions THEN "visible"
    ELSE IF op = "suspend" THEN "sessionlessAgain" ELSE "classify"

\* The reply arrives: success, or a failed comparison.
Transact(n) ==
    /\ call[n] # None /\ call[n].pc = "transact"
    /\ LET c == call[n]
       IN  /\ Apply(c)
           /\ IF Applies(c)
              THEN /\ Continue(n, [c EXCEPT !.met = TRUE, !.pc = "ok"])
                   /\ returned' = IF c.op \in Acquisitions
                                  THEN returned \cup {c.lease} ELSE returned
                   /\ UNCHANGED refused
              ELSE IF Compares(c) \/ c.op \notin Acquisitions
              THEN /\ Continue(n, [c EXCEPT !.pc = AfterFailure(c.op)])
                   /\ UNCHANGED <<refused, returned>>
              ELSE \* classify_acquire_failure only chooses the error
                   /\ Continue(n, [c EXCEPT !.pc = "revoke"])
                   /\ refused' = refused \cup {c.lease.id}
                   /\ UNCHANGED returned
    /\ UNCHANGED <<grants, late>>

\* Bug: an error is taken for a failed comparison.
LoseReplyAsRefusal(n) ==
    /\ call[n] # None /\ call[n].pc = "transact"
    /\ Cardinality(late) < MaxLost
    /\ late' = late \cup {[call[n] EXCEPT !.met = FALSE]}
    /\ IF call[n].op \in Acquisitions
       THEN /\ Continue(n, [call[n] EXCEPT !.pc = "revoke"])
            /\ refused' = refused \cup {call[n].lease.id}
       ELSE /\ Continue(n, [call[n] EXCEPT !.pc = AfterFailure(call[n].op)])
            /\ UNCHANGED refused
    /\ UNCHANGED <<etcd, grants, returned>>

\* The request or its reply is lost: the transaction is still out there.
LoseReply(n) ==
    /\ call[n] # None /\ call[n].pc = "transact"
    /\ Cardinality(late) < MaxLost
    /\ late' = late \cup {[call[n] EXCEPT !.met = FALSE]}
    /\ Continue(n, [call[n] EXCEPT !.pc = AfterFailure(call[n].op)])
    /\ UNCHANGED <<etcd, grants, refused, returned>>

LateTransact(t) ==
    /\ t \in late
    /\ late' = late \ {t}
    /\ Apply(t)
    /\ UNCHANGED <<grants, call, refused, returned>>

-----------------------------------------------------------------------------
(* Classification after a transaction that did not answer with success.    *)

\* owner_install_is_visible, its first read
InstallVisibleRecord(n) ==
    /\ call[n] # None /\ call[n].pc = "visible"
    /\ Continue(n, [call[n] EXCEPT
         !.pc = IF record = call[n].next THEN "visibleSession" ELSE "revoke"])
    /\ UNCHANGED <<etcd, grants, late, refused, returned>>

\* owner_install_is_visible, its second read
InstallVisibleSession(n) ==
    /\ call[n] # None /\ call[n].pc = "visibleSession"
    /\ IF session = call[n].lease
       THEN /\ Continue(n, [call[n] EXCEPT !.pc = "ok"])
            /\ returned' = returned \cup {call[n].lease}
       ELSE /\ Continue(n, [call[n] EXCEPT !.pc = "revoke"])
            /\ UNCHANGED returned
    /\ UNCHANGED <<etcd, grants, late, refused>>

\* classify_owner_record_mutation_failure and classify_release_failure, the
\* read of the record.  Anything but the wanted record is an error.
ClassifyRecord(n) ==
    /\ call[n] # None /\ call[n].pc = "classify"
    /\ LET c == call[n]
           owner == IF c.op = "release" THEN None ELSE c.lease
       IN  IF record = c.next
           THEN Continue(n, [c EXCEPT !.met = (session = owner),
                                      !.pc = "classifySession"])
           ELSE Finish(n)
    /\ UNCHANGED <<etcd, grants, late, refused, returned>>

\* Bug: a classified write is believed without looking at the session.
ClassifyWithoutSession(n) ==
    /\ call[n] # None /\ call[n].pc = "classifySession"
    /\ Continue(n, [call[n] EXCEPT !.pc = "ok"])
    /\ UNCHANGED <<etcd, grants, late, refused, returned>>

\* ... and of the session.
ClassifySession(n) ==
    /\ call[n] # None /\ call[n].pc = "classifySession"
    /\ LET c == call[n]
           owner == IF c.op = "release" THEN None ELSE c.lease
       IN  IF session = owner THEN Continue(n, [c EXCEPT !.pc = "ok"])
                              ELSE Finish(n)
    /\ UNCHANGED <<etcd, grants, late, refused, returned>>

\* exact_recovery_record_is_sessionless, run once more by
\* classify_suspend_recovery_failure when the first answer is no.
CheckSessionless(n) ==
    /\ call[n] # None /\ call[n].pc \in {"sessionless", "sessionlessAgain"}
    /\ LET c == call[n]
       IN  IF revision = c.rev /\ session = None
           THEN Continue(n, [c EXCEPT !.met = (record = c.next), !.pc = "ok"])
           ELSE IF c.pc = "sessionless"
           THEN Continue(n, [c EXCEPT !.pc = "sessionlessAgain"])
           ELSE Finish(n)
    /\ UNCHANGED <<etcd, grants, late, refused, returned>>

\* renew_owner: the keepalive is answered only for a lease that is alive.
KeepAlive(n) ==
    /\ call[n] # None /\ call[n].pc = "keepalive"
    /\ IF call[n].lease.id \in leases
       THEN Continue(n, [call[n] EXCEPT !.pc = "ok"])
       ELSE Finish(n)
    /\ UNCHANGED <<etcd, grants, late, refused, returned>>

\* The call returns; a suspension and a release first revoke their lease.
Return(n) ==
    /\ call[n] # None /\ call[n].pc = "ok"
    /\ IF call[n].op \in {"suspend", "release"}
       THEN Continue(n, [call[n] EXCEPT !.pc = "revoke"])
       ELSE Finish(n)
    /\ UNCHANGED <<etcd, grants, late, refused, returned>>

\* The lease and the session key attached to it disappear together.
EndLease(id) ==
    /\ leases' = leases \ {id}
    /\ session' = IF session # None /\ session.id = id THEN None ELSE session
    /\ UNCHANGED <<record, revision, placement, installs, served>>

\* revoke_lease_best_effort; when the request is lost the call just fails.
Revoke(n) ==
    /\ call[n] # None /\ call[n].pc = "revoke"
    /\ EndLease(call[n].lease.id)
    /\ Finish(n)
    /\ UNCHANGED <<grants, late, refused, returned>>

\* A read, a grant or a revocation fails, or the process dies.
CallFails(n) ==
    /\ call[n] # None /\ call[n].pc # "transact"
    /\ Finish(n)
    /\ UNCHANGED <<etcd, grants, late, refused, returned>>

LeaseExpires(id) ==
    /\ id \in leases
    /\ EndLease(id)
    /\ UNCHANGED <<grants, call, late, refused, returned>>

-----------------------------------------------------------------------------
(* Root placements: one transaction each, whose repetition is answered     *)
(* from the row it finds.                                                  *)

SetPlacement(r, next) ==
    /\ placement' = [placement EXCEPT ![r] = next]
    /\ UNCHANGED <<record, revision, session, leases, installs, served,
                   grants, call, late, refused, returned>>

CreateRootPlacement(r) ==
    /\ placement[r] = None
    /\ SetPlacement(r, [generation |-> 1, lifecycle |-> "Provisioning"])

CompareAndSetRootPlacement(r, lifecycle) ==
    /\ placement[r] # None
    /\ placement[r].generation < MaxGeneration
    /\ <<placement[r].lifecycle, lifecycle>> \in Control!PlacementTransitions
    /\ SetPlacement(r, [generation |-> placement[r].generation + 1,
                        lifecycle |-> lifecycle])

-----------------------------------------------------------------------------

Step(n) ==
    \/ \E op \in Acquisitions, r \in Roots : BeginAcquisition(n, op, r)
    \/ \E op \in Mutations, lease \in returned : BeginMutation(n, op, lease)
    \/ FetchForAcquisition(n) \/ Grant(n) \/ ReadSession(n)
    \/ Transact(n) \/ LoseReply(n)
    \/ InstallVisibleRecord(n) \/ InstallVisibleSession(n)
    \/ ClassifyRecord(n) \/ ClassifySession(n) \/ CheckSessionless(n)
    \/ KeepAlive(n) \/ Revoke(n) \/ Return(n) \/ CallFails(n)

Next ==
    \/ \E n \in Owners : Step(n)
    \/ \E t \in late : LateTransact(t)
    \/ \E id \in leases : LeaseExpires(id)
    \/ \E r \in Roots :
         \/ CreateRootPlacement(r)
         \/ \E lifecycle \in Control!Lifecycles :
              CompareAndSetRootPlacement(r, lifecycle)

Spec == Init /\ [][Next]_vars

-----------------------------------------------------------------------------

(* The etcd backend implements the control store: every etcd request,      *)
(* including transactions that commit after their caller was told of an    *)
(* error, is a step of the atomic store of module ControlStore or none.    *)
(* The formula is Control!Spec, with the requests that leave etcd as it    *)
(* was told apart first: they are most of them, and TLC need not look for  *)
(* an abstract step to match.                                              *)
Refines ==
    /\ Control!ControlInit
    /\ [][UNCHANGED etcd \/ Control!Next]_(Control!controlVars)

(* A call that answers Ok answers the truth, whether the transaction's own *)
(* reply said so or a later classification: an acquisition was installed,  *)
(* and a call under a lease saw an instant at which the record it returns  *)
(* was current together with its own session, or, for a suspension and a   *)
(* release, with no session at all.                                        *)
AnswersAreTrue ==
    \A n \in Owners : call[n] # None /\ call[n].pc = "ok" =>
        IF call[n].op \in Acquisitions
        THEN \E i \in 1..Len(installs) : installs[i] = call[n].lease
        ELSE call[n].met

(* A caller told that it lost the race has lost it: its lease is never     *)
(* installed, not even by the transaction it gave up on.                   *)
RefusedNeverInstalled ==
    \A i \in 1..Len(installs) : installs[i].id \notin refused

=============================================================================
