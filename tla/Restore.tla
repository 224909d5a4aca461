------------------------------ MODULE Restore ------------------------------
(***************************************************************************)
(* Restoring a workspace from a commit or a snapshot: the hidden copy, the *)
(* manifests published into it, the finalizers that turn it into a commit  *)
(* and a visible workspace, the cleanup of an aborted restore, and the     *)
(* retention of its source against snapshot reaping, commit retirement and *)
(* collection (crates/nokv-meta/src/workspace/restore.rs, the restore      *)
(* handlers of crates/nokv-server/src/executor.rs, and the passes over     *)
(* publications, snapshots, restores and commits of                        *)
(* crates/nokv-server/src/lifecycle.rs).                                   *)
(*                                                                         *)
(* A metadata command commits against the version it read or not at all    *)
(* (MetaShard), so one command is one step on the rows `db`.  Handlers and *)
(* worker passes that issue several commands take several steps.  What is  *)
(* durable when is the subject of Publication and ShardFailover.           *)
(***************************************************************************)
EXTENDS Integers, FiniteSets, FiniteSetsExt

CONSTANTS
    None,
    Plans,          \* what may be restored; one plan is chosen for good
    Base,           \* the commit of the first workspace
    BatchSize       \* the batch limit of copies, builds and cleanups

\* A row <<p, v>> binds path p to revision v.  A plan gives the rows of the base
\* commit (`members`), the rows of its snapshot, which are the live rows of the
\* base workspace (`view`), the paths of the manifests a workspace owns, and of
\* every restore its source and the name of its destination.  `session` gives
\* every finalize request its restore, and `edited` the workspaces whose paths
\* clients remove.  Restores and their manifests have identities of their own.
ASSUME RestoreAssumption ==
    /\ BatchSize \in Nat \ {0}
    /\ \A p \in Plans :
          /\ p.manifests \subseteq Nat \ {0}
          /\ p.edited \subseteq {Base} \cup DOMAIN p.source
          /\ IsFiniteSet(p.members) /\ IsFiniteSet(p.view)
          /\ \A x \in p.members \cup p.view :
                /\ x = <<x[1], x[2]>> /\ x[1] \in Nat \ {0}
                /\ x[2] \notin (DOMAIN p.source) \X p.manifests
          /\ Base \notin DOMAIN p.source
          /\ \A r \in DOMAIN p.source :
                /\ p.source[r].snapshot \in BOOLEAN
                /\ p.source[r].commit \in ({Base} \cup DOMAIN p.source) \ {r}
                /\ p.source[r].snapshot => p.source[r].commit = Base
          /\ \A s \in DOMAIN p.session : p.session[s] \in DOMAIN p.source

VARIABLES
    plan,       \* the plan of this behaviour
    db,         \* the metadata rows
    session,    \* the finalize requests of clients
    worker      \* the lifecycle worker of the serving owner

vars == <<plan, db, session, worker>>

Restores == DOMAIN plan.source
Commits == {Base} \cup Restores
Names == {plan.name[r] : r \in Restores}
Sessions == DOMAIN plan.session
Manifests == plan.manifests
Source(r) == plan.source[r].commit
FromSnapshot(r) == plan.source[r].snapshot
Revisions ==
    {x[2] : x \in plan.members \cup plan.view} \cup (Restores \X Manifests)

ForwardPhases == {"SourceSealed", "DestinationBuilding", "DestinationSealing", "Ready", "Complete"}
AbortPhases == {"Aborting", "Cleaning", "Cleaned", "Quarantined"}
Abortable == {"Preparing", "Copying"} \cup (ForwardPhases \ {"Complete"})

ActivePublications == {"Uploading", "Aborting", "Cleaning"}

\* A restore: how far the source is copied, the destination commit built and
\* sealed, and both taken down again.
NoRestore ==
    [phase |-> "None", bound |-> FALSE, manifests |-> FALSE,
     cursor |-> 0, eof |-> FALSE, copied |-> 0, uncopied |-> 0,
     memberCursor |-> 0, members |-> 0, refs |-> 0, sealed |-> 0,
     unmembers |-> 0, unrefs |-> 0]
NoPublication == [phase |-> "None", lease |-> "live"]
NoCommit == [state |-> "Absent", count |-> 0]
Idle == [pc |-> "idle", item |-> None]
NoSession == [at |-> "idle", answer |-> "none"]

Referenced(rows, refs, v) ==
    Cardinality({x \in rows : x[2] = v}) + Cardinality({v} \cap refs)

\* A visible workspace whose head commit is Base, with an active snapshot if the
\* plan restores one.
Snapshotted == \E r \in Restores : FromSnapshot(r)
Init ==
    /\ plan \in Plans
    /\ db = [op |-> [r \in Restores |-> NoRestore],
             ws |-> [n \in Names |-> [state |-> "Absent", owner |-> None]],
             pub |-> [r \in Restores |-> [m \in Manifests |-> NoPublication]],
             entry |-> [c \in Commits |-> IF c = Base THEN plan.view ELSE {}],
             ledger |-> [r \in Restores |-> {}],
             commit |-> [c \in Commits |->
                           IF c # Base THEN NoCommit
                           ELSE [state |-> "Sealed", count |-> IF Snapshotted THEN 2 ELSE 1]],
             member |-> [c \in Commits |-> IF c = Base THEN plan.members ELSE {}],
             ref |-> [c \in Commits |-> IF c = Base THEN {x[2] : x \in plan.members} ELSE {}],
             consumer |-> [c \in Commits |->
                             IF c # Base THEN {}
                             ELSE {<<"head", Base>>} \cup IF Snapshotted THEN {<<"snapshot", Base>>} ELSE {}],
             snapshot |-> [state |-> IF Snapshotted THEN "Active" ELSE "Retired", count |-> 0,
                           overdue |-> FALSE, expired |-> FALSE],
             hold |-> IF Snapshotted THEN {Base} ELSE {},
             rev |-> [v \in Revisions |->
                        IF v \in Restores \X Manifests THEN [state |-> "Absent", count |-> 0]
                        ELSE [state |-> "Available",
                              count |-> Referenced(plan.view, {x[2] : x \in plan.members}, v)]]]
    /\ session = [s \in Sessions |-> NoSession]
    /\ worker = Idle

-----------------------------------------------------------------------------
(* Rows in canonical order, references and consumers. *)

Beyond(rows, cursor) == {x \in rows : x[1] > cursor}
Pages(rows) == {S \in SUBSET rows : \A x \in S, y \in rows \ S : x[1] < y[1]}
Last(S, cursor) == IF S = {} THEN cursor ELSE Max({x[1] : x \in S})
Materialized(rows) == {x \in rows : x[1] \notin Manifests}
Available(rev, rows) == \A x \in rows : rev[x[2]].state = "Available"

\* The counts of the revisions after d references are added for every row.
Count(rev, rows, d) ==
    [v \in DOMAIN rev |-> [rev[v] EXCEPT !.count = @ + d * Cardinality({x \in rows : x[2] = v})]]
CommitRefs(refs) == {<<0, v>> : v \in refs}

AddConsumer(d, c, who) ==
    [d EXCEPT !.commit[c].count = @ + 1, !.consumer[c] = @ \cup {who}]
RemoveConsumer(d, c, who) ==
    [d EXCEPT !.commit[c].count = @ - 1, !.consumer[c] = @ \ {who}]

Lease(r) == <<"lease", r>>
Child(r) == <<"child", r>>
Head(c) == <<"head", c>>
SnapshotConsumer == <<"snapshot", Base>>

\* validate_source_retention: what a forward step needs of the source.
Retained(r) ==
    /\ db.commit[Source(r)].state = "Sealed"
    /\ db.commit[Source(r)].count > 0
    /\ IF FromSnapshot(r)
         THEN /\ db.snapshot.state = "Active"
              /\ db.snapshot.count > 0
              /\ r \in db.hold
              /\ SnapshotConsumer \in db.consumer[Base]
         ELSE Lease(r) \in db.consumer[Source(r)]

\* release_source_retention.
ReleaseSource(d, r) ==
    IF FromSnapshot(r) THEN [d EXCEPT !.snapshot.count = @ - 1, !.hold = @ \ {r}]
                       ELSE RemoveConsumer(d, Source(r), Lease(r))

Staging(r) == db.ws[plan.name[r]] = [state |-> "Staging", owner |-> r]
Serving == worker.pc # "failed"

\* A command of a client, and one of the worker.
Rows(d) == db' = d /\ UNCHANGED <<plan, session, worker>>
SetPhase(d, r, phase) == [d EXCEPT !.op[r].phase = phase]

-----------------------------------------------------------------------------
(* begin_restore: the source is pinned, the hidden workspace is created and  *)
(* filled page by page, and the source is sealed.                            *)

SourceReadable(r) ==
    /\ Source(r) # Base =>
          db.ws[plan.name[Source(r)]] = [state |-> "Visible", owner |-> Source(r)]
    /\ db.commit[Source(r)].state = "Sealed"
    /\ FromSnapshot(r) =>
          /\ db.snapshot.state = "Active"
          /\ ~db.snapshot.expired
          /\ SnapshotConsumer \in db.consumer[Base]

\* The destination name is free, or was left by a restore that is cleaned up.
DestinationFree(r) ==
    LET ws == db.ws[plan.name[r]] IN
    \/ ws.state = "Absent"
    \/ ws.state = "Retired" /\ db.op[ws.owner].phase = "Cleaned" /\ db.entry[ws.owner] = {}

Pin(d, r) ==
    IF FromSnapshot(r) THEN [d EXCEPT !.snapshot.count = @ + 1, !.hold = @ \cup {r}]
                       ELSE AddConsumer(d, Source(r), Lease(r))

BeginRestore(r) ==
    /\ Serving
    /\ db.op[r].phase = "None"
    /\ SourceReadable(r)
    /\ DestinationFree(r)
    /\ Rows(Pin([db EXCEPT !.op[r].phase = "Preparing",
                           !.ws[plan.name[r]] = [state |-> "Staging", owner |-> r]], r))

StartCopy(r) ==
    /\ Serving
    /\ db.op[r].phase = "Preparing"
    /\ Retained(r)
    /\ Staging(r)
    /\ Rows(SetPhase(db, r, "Copying"))

\* Bug: a snapshot is restored from the members of the commit it names.
SourceRowsOfCommit(r) == db.member[Source(r)]

\* A snapshot is read at its version, a commit from its member rows.
SourceRows(r) == IF FromSnapshot(r) THEN plan.view ELSE db.member[Source(r)]

\* The rows after the page S is copied: paths, ledger, references and cursor.
Copied(r, S) ==
    LET op == db.op[r]
        rows == Materialized(S)
    IN  [db EXCEPT !.op[r] = [op EXCEPT !.cursor = Last(S, op.cursor),
                                        !.copied = op.copied + Cardinality(rows),
                                        !.eof = (S = Beyond(SourceRows(r), op.cursor))],
                   !.entry[r] = @ \cup rows,
                   !.ledger[r] = @ \cup rows,
                   !.rev = Count(@, rows, 1)]

\* The rows one batch considers: up to the last one the limit admits.
Admitted(rows) ==
    {x \in rows : Cardinality({y \in Materialized(rows) : y[1] < x[1]}) < BatchSize}

\* copy_restore_batch commits the largest part of the page that fits a command.
CopyBatch(r) ==
    LET page == Admitted(Beyond(SourceRows(r), db.op[r].cursor)) IN
    /\ Serving
    /\ db.op[r].phase = "Copying"
    /\ ~db.op[r].eof
    /\ Retained(r)
    /\ Staging(r)
    /\ \E S \in Pages(page) :
          /\ S = {} => page = {}
          /\ Available(db.rev, Materialized(S))
          /\ Rows(Copied(r, S))

\* Not even the next row fits a command: the restore aborts itself.
CopyOverflows(r) ==
    LET page == Admitted(Beyond(SourceRows(r), db.op[r].cursor)) IN
    /\ Serving
    /\ db.op[r].phase = "Copying"
    /\ ~db.op[r].eof
    /\ \E x \in Materialized(page) : \A y \in page : x[1] <= y[1]
    /\ Retained(r)
    /\ Staging(r)
    /\ Rows(SetPhase(db, r, "Aborting"))

\* verify_source_and_members rescans the source against the ledger.
SealSource(r) ==
    /\ Serving
    /\ db.op[r].phase = "Copying"
    /\ db.op[r].eof
    /\ Retained(r)
    /\ db.ledger[r] = Materialized(SourceRows(r))
    /\ Staging(r)
    /\ Rows(SetPhase(db, r, "SourceSealed"))

BindDestination(r) ==
    /\ Serving
    /\ db.op[r].phase = "SourceSealed"
    /\ ~db.op[r].bound
    /\ Staging(r)
    /\ db.commit[r].state = "Absent" /\ db.member[r] = {} /\ db.ref[r] = {}
    /\ Rows([db EXCEPT !.op[r].bound = TRUE])

\* abort_restore wins against every forward step that has not completed.
AbortRestore(r) ==
    /\ Serving
    /\ db.op[r].phase \in Abortable
    /\ Staging(r)
    /\ Rows(SetPhase(db, r, "Aborting"))

-----------------------------------------------------------------------------
(* The manifests are published into the hidden workspace. *)

\* What a publisher needs of the restore while it goes forward.
Forward(r) ==
    /\ Staging(r)
    /\ db.op[r].phase = "SourceSealed"
    /\ db.op[r].bound
    /\ ~db.op[r].manifests

\* What taking a publication down needs: the restore is given up, and the
\* publication left neither path nor revision.
Cleanup(r, m) ==
    /\ Staging(r)
    /\ db.op[r].bound
    /\ db.op[r].phase \in {"Aborting", "Cleaning"}
    /\ ~db.op[r].manifests
    /\ \A x \in db.entry[r] : x[1] # m
    /\ db.rev[<<r, m>>].state = "Absent"

BeginManifest(r, m) ==
    /\ Serving
    /\ Forward(r)
    /\ db.pub[r][m].phase = "None"
    /\ Rows([db EXCEPT !.pub[r][m] = [phase |-> "Uploading", lease |-> "live"]])

\* A client of the owner that admitted it may resume after its lease expired; with
\* a later owner it may while the stored deadline is not earlier than the one this
\* owner would set, which the clocks of the two decide.
PublishManifest(r, m) ==
    /\ Serving
    /\ Forward(r)
    /\ db.pub[r][m].phase = "Uploading"
    /\ Rows([db EXCEPT !.pub[r][m].phase = "Published",
                       !.entry[r] = @ \cup {<<m, <<r, m>>>>},
                       !.rev[<<r, m>>] = [state |-> "Available", count |-> 1]])

AbortManifest(r, m) ==
    /\ Serving
    /\ db.pub[r][m].phase = "Uploading"
    /\ Cleanup(r, m)
    /\ Rows([db EXCEPT !.pub[r][m].phase = "Aborting"])

\* The activity deadline passes.
ExpireManifest(r, m) ==
    /\ db.pub[r][m] = [phase |-> "Uploading", lease |-> "live"]
    /\ Rows([db EXCEPT !.pub[r][m].lease = "expired"])

-----------------------------------------------------------------------------
(* finalize_restore: requests that drive one restore forward, each from the  *)
(* phase it saw last; any number of them may run at once.                    *)

Rank(phase) ==
    CASE phase = "SourceSealed" -> 1 [] phase = "DestinationBuilding" -> 2
      [] phase = "DestinationSealing" -> 3 [] phase = "Ready" -> 4
      [] phase = "Complete" -> 5 [] OTHER -> 0

\* Bug: a step accepts the phase it leads to and no later one.
ReachedExactly(phase, goal) == phase = goal

\* A peer's progress up to the goal or beyond is the outcome of the step.
Reached(phase, goal) == Rank(phase) >= Rank(goal)

ManifestRows(r) == {<<m, <<r, m>>>> : m \in Manifests}
ManifestsPublished(r) ==
    /\ \A m \in Manifests : db.pub[r][m].phase = "Published"
    /\ ManifestRows(r) \subseteq db.entry[r]
    /\ Available(db.rev, ManifestRows(r))

\* The request has seen the restore in this phase.
Saw(s, phase) ==
    session' = [session EXCEPT ![s] =
        IF phase = "Complete" THEN [at |-> "done", answer |-> "Restored"]
                              ELSE [at |-> phase, answer |-> "none"]]
Refuse(s) == session' = [session EXCEPT ![s] = [at |-> "done", answer |-> "Refused"]]
Converge(s, phase) == Saw(s, phase) /\ UNCHANGED <<plan, db, worker>>
Advance(s, d) == db' = d /\ Saw(s, d.op[plan.session[s]].phase) /\ UNCHANGED <<plan, worker>>

\* A client finalizes what it has bound.
LoadRestore(s) ==
    LET r == plan.session[s] IN
    /\ Serving
    /\ session[s].at = "idle"
    /\ db.op[r].bound
    /\ IF db.op[r].phase \in AbortPhases THEN Refuse(s) /\ UNCHANGED <<plan, db, worker>>
                                         ELSE Converge(s, db.op[r].phase)

\* The step of request s from the phase `at`, which leads to `goal`.
At(s, at) == Serving /\ session[s].at = at
FinalizeConverges(s, at, goal) ==
    LET phase == db.op[plan.session[s]].phase IN
    /\ At(s, at)
    /\ Reached(phase, goal)
    /\ Converge(s, phase)

\* The step finds neither its own phase nor a later one.
FinalizeRefused(s, at, goal) ==
    LET phase == db.op[plan.session[s]].phase IN
    /\ At(s, at)
    /\ phase # at
    /\ ~Reached(phase, goal)
    /\ Refuse(s)
    /\ UNCHANGED <<plan, db, worker>>

\* apply_restore_initialization freezes the published manifests.  Without both
\* of them the request ends with an error the client retries.
Initialize(s) ==
    LET r == plan.session[s] IN
    /\ At(s, "SourceSealed")
    /\ db.op[r].phase = "SourceSealed"
    /\ IF ManifestsPublished(r) /\ Staging(r)
         THEN Advance(s, [db EXCEPT !.op[r].phase = "DestinationBuilding",
                                    !.op[r].manifests = TRUE])
         ELSE /\ session' = [session EXCEPT ![s] = NoSession]
              /\ UNCHANGED <<plan, db, worker>>

\* Bug: every member adds a reference, also to a revision already referenced.
BuiltPerMember(r, S, done) ==
    LET op == db.op[r] IN
    [db EXCEPT !.op[r] = [op EXCEPT !.memberCursor = Last(S, op.memberCursor),
                                    !.members = op.members + Cardinality(S),
                                    !.refs = op.refs + Cardinality(S),
                                    !.phase = IF done THEN "DestinationSealing" ELSE op.phase],
               !.member[r] = @ \cup S,
               !.ref[r] = @ \cup {x[2] : x \in S},
               !.rev = Count(@, S, 1)]

\* The rows after the paths S became members of the destination commit, with
\* one reference for every revision new to it.
Built(r, S, done) ==
    LET op == db.op[r]
        fresh == {x[2] : x \in S} \ db.ref[r]
    IN  [db EXCEPT !.op[r] = [op EXCEPT !.memberCursor = Last(S, op.memberCursor),
                                        !.members = op.members + Cardinality(S),
                                        !.refs = op.refs + Cardinality(fresh),
                                        !.phase = IF done THEN "DestinationSealing" ELSE op.phase],
                   !.member[r] = @ \cup S,
                   !.ref[r] = @ \cup fresh,
                   !.rev = Count(@, CommitRefs(fresh), 1)]

BuildMembers(s) ==
    LET r == plan.session[s]
        rows == Beyond(db.entry[r], db.op[r].memberCursor)
    IN  /\ At(s, "DestinationBuilding")
        /\ db.op[r].phase = "DestinationBuilding"
        /\ Staging(r)
        /\ \E S \in Pages(rows) :
              /\ Cardinality(S) <= BatchSize
              /\ S = {} => rows = {}
              /\ Available(db.rev, S)
              /\ Advance(s, Built(r, S, S = rows))

\* verify_destination_commit_scaffolding.
Scaffolded(r) ==
    /\ db.member[r] = db.entry[r]
    /\ db.ref[r] = {x[2] : x \in db.entry[r]}
    /\ Cardinality(db.member[r]) = db.op[r].members
    /\ Cardinality(db.ref[r]) = db.op[r].refs
    /\ Available(db.rev, db.entry[r])

SealRevisions(s) ==
    LET r == plan.session[s]
        rest == db.op[r].refs - db.op[r].sealed
    IN  /\ At(s, "DestinationSealing")
        /\ db.op[r].phase = "DestinationSealing"
        /\ Staging(r)
        /\ IF rest > BatchSize
             THEN Advance(s, [db EXCEPT !.op[r].sealed = @ + BatchSize])
             ELSE IF Scaffolded(r)
                    THEN Advance(s, [db EXCEPT !.op[r].sealed = @ + rest, !.op[r].phase = "Ready"])
                    ELSE Refuse(s) /\ UNCHANGED <<plan, db, worker>>

\* handoff_source_retention_to_child: the destination commit pins its parent.
Handoff(d, r) == AddConsumer(ReleaseSource(d, r), Source(r), Child(r))

CompleteRestore(s) ==
    LET r == plan.session[s] IN
    /\ At(s, "Ready")
    /\ db.op[r].phase = "Ready"
    /\ IF Retained(r) /\ Scaffolded(r) /\ ManifestsPublished(r) /\ Staging(r)
         THEN Advance(s, Handoff([db EXCEPT
                  !.op[r].phase = "Complete",
                  !.ws[plan.name[r]] = [state |-> "Visible", owner |-> r],
                  !.commit[r] = [state |-> "Sealed", count |-> 1],
                  !.consumer[r] = {Head(r)}], r))
         ELSE Refuse(s) /\ UNCHANGED <<plan, db, worker>>

-----------------------------------------------------------------------------
(* The lifecycle worker: publications. *)

Failed(pass) == [pc |-> "failed", item |-> pass]
Fail(pass) == worker' = Failed(pass) /\ UNCHANGED <<plan, db, session>>
Working == worker.pc = "idle"

\* The worker takes over what its client abandoned.  A refusal that is not a
\* lost race of two commands fails the shard closed.
TakeOverManifest(r, m) ==
    /\ Working
    /\ db.pub[r][m].phase = "Uploading"
    /\ db.pub[r][m].lease # "live"
    /\ IF Cleanup(r, m) THEN Rows([db EXCEPT !.pub[r][m].phase = "Aborting"])
                        ELSE Fail("publication")

\* An aborted publication is cleaned and ends Cleaned, or Quarantined when its
\* objects cannot be accounted for (Publication has the steps).
CleanManifest(r, m) ==
    /\ Working
    /\ db.pub[r][m].phase \in {"Aborting", "Cleaning"}
    /\ IF ~Cleanup(r, m) THEN Fail("publication")
       ELSE \E phase \in IF db.pub[r][m].phase = "Aborting" THEN {"Cleaning"}
                                                            ELSE {"Cleaned", "Quarantined"} :
               Rows([db EXCEPT !.pub[r][m].phase = phase])

-----------------------------------------------------------------------------
(* The lifecycle worker: aborted restores. *)

BeginCleaning(r) ==
    /\ Working
    /\ db.op[r].phase = "Aborting"
    /\ Staging(r)
    /\ Rows(SetPhase(db, r, "Cleaning"))

RefsPending(op) == op.unrefs # op.refs
MembersPending(op) == op.unmembers # op.members

\* The first n rows of a page.
FirstRows(rows, n) == {S \in Pages(rows) : Cardinality(S) = Min({n, Cardinality(rows)})}

\* The destination commit's references go first, then its members.
CleanScaffolding(r) ==
    LET op == db.op[r] IN
    IF RefsPending(op)
      THEN \E S \in SUBSET db.ref[r] :
              /\ Cardinality(S) = Min({BatchSize, op.refs - op.unrefs, Cardinality(db.ref[r])})
              /\ IF S = {} THEN Fail("cleanup")
                 ELSE Rows([db EXCEPT !.op[r].unrefs = @ + Cardinality(S),
                                      !.ref[r] = @ \ S,
                                      !.rev = Count(@, CommitRefs(S), -1)])
      ELSE \E S \in FirstRows(db.member[r], Min({BatchSize, op.members - op.unmembers})) :
              IF S = {} THEN Fail("cleanup")
              ELSE Rows([db EXCEPT !.op[r].unmembers = @ + Cardinality(S),
                                   !.member[r] = @ \ S])

\* The ledger is consumed in order: paths, references and the ledger rows.
CleanLedger(r) ==
    \E S \in Pages(db.ledger[r]) :
        /\ S # {} /\ Cardinality(S) <= BatchSize
        /\ Rows([db EXCEPT !.op[r].uncopied = @ + Cardinality(S),
                           !.ledger[r] = @ \ S,
                           !.entry[r] = @ \ S,
                           !.rev = Count(@, S, -1)])

CleanRestore(r) ==
    LET op == db.op[r] IN
    /\ Working
    /\ op.phase = "Cleaning"
    /\ op.uncopied < op.copied
    /\ Staging(r)
    /\ IF RefsPending(op) \/ MembersPending(op) THEN CleanScaffolding(r) ELSE CleanLedger(r)

\* Bug: a publication that ended with its manifest published counts as pending.
PendingUntilCleaned(r) ==
    db.op[r].bound /\ \E m \in Manifests :
        db.pub[r][m].phase \in ActivePublications \cup {"Published"}

PublicationPending(r) ==
    db.op[r].bound /\ \E m \in Manifests : db.pub[r][m].phase \in ActivePublications

PublicationQuarantined(r) ==
    db.op[r].bound /\ \E m \in Manifests : db.pub[r][m].phase = "Quarantined"

\* Bug: one quarantined publication quarantines the restore, and with it the
\* authority to clean the other one.
FinishableEarly(r) ==
    IF PublicationQuarantined(r) THEN "quarantine"
    ELSE IF PublicationPending(r) THEN "wait"
    ELSE "clean"

Finishable(r) ==
    IF PublicationPending(r) THEN "wait"
    ELSE IF PublicationQuarantined(r) THEN "quarantine"
    ELSE "clean"

\* The name is retired with the manifests left in it, and the source released.
CleanedUp(r) ==
    LET left == {x \in db.entry[r] : x[1] \in Manifests} IN
    ReleaseSource([db EXCEPT !.op[r].phase = "Cleaned",
                             !.ws[plan.name[r]] = [state |-> "Retired", owner |-> r],
                             !.entry[r] = @ \ left,
                             !.rev = Count(@, left, -1)], r)

\* finish_restore_cleanup.  Scaffolding that is still there is an error.
FinishCleanup(r) ==
    LET op == db.op[r] IN
    /\ Working
    /\ op.phase = "Cleaning"
    /\ op.uncopied = op.copied
    /\ Staging(r)
    /\ \/ /\ Finishable(r) = "quarantine"
          /\ Rows(SetPhase(db, r, "Quarantined"))
       \/ /\ Finishable(r) = "clean"
          /\ IF \/ RefsPending(op) \/ MembersPending(op)
                \/ db.ledger[r] # {} \/ db.member[r] # {} \/ db.ref[r] # {}
                \/ db.commit[r].state # "Absent"
               THEN Fail("cleanup")
               ELSE Rows(CleanedUp(r))

-----------------------------------------------------------------------------
(* Snapshots: retired by a client or reaped once their lease has run out. *)

\* terminalize_snapshot: the hold and the snapshot's consumer row go.
Terminalized(state) ==
    RemoveConsumer([db EXCEPT !.snapshot.state = state, !.hold = @ \ {Base}], Base, SnapshotConsumer)

SnapshotReleasable == db.snapshot.state = "Active" /\ db.snapshot.count = 0

RetireSnapshot ==
    /\ Serving
    /\ SnapshotReleasable
    /\ Rows(Terminalized("Retired"))

\* The worker finds an expired snapshot nobody restores from; its command reads
\* the row again.
ObserveExpiredSnapshot ==
    /\ Working
    /\ SnapshotReleasable
    /\ db.snapshot.overdue
    /\ worker' = [pc |-> "reap", item |-> Base]
    /\ UNCHANGED <<plan, db, session>>

ClaimExpiredSnapshot ==
    /\ worker.pc = "reap"
    /\ IF SnapshotReleasable
         THEN db' = [Terminalized("ReapClaimed") EXCEPT !.snapshot.expired = TRUE] /\ worker' = Idle
         ELSE db' = [db EXCEPT !.snapshot.expired = TRUE] /\ worker' = Failed("snapshot")
    /\ UNCHANGED <<plan, session>>

FinishSnapshotReap ==
    /\ Working
    /\ db.snapshot.state = "ReapClaimed"
    /\ Base \notin db.hold
    /\ Rows([db EXCEPT !.snapshot.state = "Reaped"])

\* The worker's clock passes the deadline and the skew; a command that observes
\* the lease clock persists that the deadline has passed.
SnapshotOverdue ==
    /\ db.snapshot.state = "Active"
    /\ ~db.snapshot.overdue
    /\ Rows([db EXCEPT !.snapshot.overdue = TRUE])
ObserveLeaseClock ==
    /\ Serving
    /\ db.snapshot.state = "Active"
    /\ ~db.snapshot.expired
    /\ Rows([db EXCEPT !.snapshot.expired = TRUE])

-----------------------------------------------------------------------------
(* Commits: retired once nothing consumes them. *)

\* A new commit becomes the head of the workspace of commit c.
SupersedeHead(c) ==
    /\ Serving
    /\ Head(c) \in db.consumer[c]
    /\ db.commit[c].state = "Sealed"
    /\ Rows(RemoveConsumer(db, c, Head(c)))

\* Bug: a commit is retired although a consumer has come since it was scanned.
RetirableAsObserved(c) == db.commit[c].state = "Sealed"

\* The consumer count is zero still.  The epoch the command compares as well has
\* then not moved: only the worker itself could have removed a consumer since.
Retirable(c) == db.commit[c].state = "Sealed" /\ db.commit[c].count = 0

ObserveUnconsumed(c) ==
    /\ Working
    /\ db.commit[c].state = "Sealed" /\ db.commit[c].count = 0
    /\ worker' = [pc |-> "retire", item |-> c]
    /\ UNCHANGED <<plan, db, session>>

BeginRetirement ==
    LET c == worker.item IN
    /\ worker.pc = "retire"
    /\ IF Retirable(c)
         THEN db' = [db EXCEPT !.commit[c].state = "Claiming"] /\ worker' = Idle
         ELSE db' = db /\ worker' = Failed("commit")
    /\ UNCHANGED <<plan, session>>

HoldsParent(c) == c # Base /\ Child(c) \in db.consumer[Source(c)]

\* release_retired_commit: references, then the parent, then the members.
ReleaseRetired(c) ==
    /\ Working
    /\ \/ /\ db.commit[c].state = "Claiming"
          /\ Rows([db EXCEPT !.commit[c].state = "Releasing"])
       \/ /\ db.commit[c].state = "Releasing"
          /\ \E S \in SUBSET db.ref[c] :
                /\ S # {} /\ Cardinality(S) <= BatchSize
                /\ Rows([db EXCEPT !.ref[c] = @ \ S, !.rev = Count(@, CommitRefs(S), -1)])
       \/ /\ db.commit[c].state = "Releasing"
          /\ db.ref[c] = {}
          /\ HoldsParent(c)
          /\ Rows(RemoveConsumer(db, Source(c), Child(c)))
       \/ /\ db.commit[c].state = "Releasing"
          /\ db.ref[c] = {} /\ ~HoldsParent(c)
          /\ \E S \in Pages(db.member[c]) :
                /\ S # {} /\ Cardinality(S) <= BatchSize
                /\ Rows([db EXCEPT !.member[c] = @ \ S])
       \/ /\ db.commit[c].state = "Releasing"
          /\ db.ref[c] = {} /\ ~HoldsParent(c) /\ db.member[c] = {}
          /\ Rows([db EXCEPT !.commit[c].state = "Retired"])

-----------------------------------------------------------------------------
(* Paths and revisions. *)

\* A client removes an artifact of a visible workspace; manifests are reserved.
RemovePath(c) ==
    /\ Serving
    /\ c \in plan.edited
    /\ c # Base => db.op[c].phase = "Complete"
    /\ \E x \in Materialized(db.entry[c]) :
          Rows([db EXCEPT !.entry[c] = @ \ {x}, !.rev = Count(@, {x}, -1)])

\* An unreferenced revision is collected unless a hold keeps the history in
\* which it was referenced (RevisionGc has the steps).
CollectRevision(v) ==
    /\ Working
    /\ db.rev[v] = [state |-> "Available", count |-> 0]
    /\ db.hold = {}
    /\ Rows([db EXCEPT !.rev[v].state = "Collected"])

-----------------------------------------------------------------------------
(* Owners come and go. *)

\* The next owner finds every publication in progress begun by an older epoch.
Superseded(pub) ==
    [r \in DOMAIN pub |-> [m \in Manifests |->
        IF pub[r][m].phase = "Uploading" THEN [pub[r][m] EXCEPT !.lease = "superseded"]
                                         ELSE pub[r][m]]]

\* The owner crashes, or is restarted after it failed closed; requests are lost.
Restart ==
    /\ db' = [db EXCEPT !.pub = Superseded(@)]
    /\ session' = [s \in Sessions |-> IF session[s].answer = "none" THEN NoSession ELSE session[s]]
    /\ worker' = Idle
    /\ UNCHANGED plan

Client ==
    \/ \E r \in Restores :
          \/ BeginRestore(r) \/ StartCopy(r) \/ CopyBatch(r) \/ CopyOverflows(r)
          \/ SealSource(r) \/ BindDestination(r) \/ AbortRestore(r)
          \/ \E m \in Manifests :
                BeginManifest(r, m) \/ PublishManifest(r, m) \/ AbortManifest(r, m)
    \/ \E s \in Sessions :
          \/ LoadRestore(s) \/ Initialize(s) \/ BuildMembers(s)
          \/ SealRevisions(s) \/ CompleteRestore(s)
          \/ \E step \in {<<"SourceSealed", "DestinationBuilding">>,
                          <<"DestinationBuilding", "DestinationSealing">>,
                          <<"DestinationSealing", "Ready">>, <<"Ready", "Complete">>} :
                FinalizeConverges(s, step[1], step[2]) \/ FinalizeRefused(s, step[1], step[2])
    \/ RetireSnapshot
    \/ \E c \in Commits : SupersedeHead(c) \/ RemovePath(c)

VisitRestore(r) == BeginCleaning(r) \/ CleanRestore(r) \/ FinishCleanup(r)
VisitManifests(r) == \E m \in Manifests : TakeOverManifest(r, m) \/ CleanManifest(r, m)
Settle == ClaimExpiredSnapshot \/ BeginRetirement

Worker ==
    \/ \E r \in Restores : VisitRestore(r) \/ VisitManifests(r)
    \/ ObserveExpiredSnapshot \/ FinishSnapshotReap
    \/ \E c \in Commits : ObserveUnconsumed(c) \/ ReleaseRetired(c)
    \/ Settle
    \/ \E v \in Revisions : CollectRevision(v)

ExpireManifests(r) == \E m \in Manifests : ExpireManifest(r, m)
Clock ==
    \/ SnapshotOverdue \/ ObserveLeaseClock
    \/ \E r \in Restores : ExpireManifests(r)

Next == Client \/ Worker \/ Clock \/ Restart

\* Time passes, every cycle of the worker visits every publication and restore,
\* and a shard that failed closed is reopened.  Clients owe nothing.
Fairness ==
    /\ \A r \in UNION {DOMAIN p.source : p \in Plans} :
          /\ WF_vars(r \in Restores /\ VisitRestore(r))
          /\ WF_vars(r \in Restores /\ VisitManifests(r))
          /\ WF_vars(r \in Restores /\ ExpireManifests(r))
    /\ WF_vars(Settle \/ (~Serving /\ Restart))

Spec == Init /\ [][Next]_vars /\ Fairness

-----------------------------------------------------------------------------
(* Properties. *)

\* The rows every commit must have: what its source has, with manifests of its own.
Expected(c) ==
    IF c = Base THEN plan.members
    ELSE {x \in IF FromSnapshot(c) THEN plan.view ELSE db.member[Source(c)] : x[1] \notin Manifests}
             \cup {<<m, <<c, m>>>> : m \in Manifests}

Readable(rows) == \A x \in rows : db.rev[x[2]].state = "Available"

\* From begin_restore until it has completed or is cleaned up, the source of a
\* restore is whole and readable, whatever snapshots are retired, commits retired
\* and revisions collected meanwhile (validate_source_retention restates a part
\* of it); and the commit a completed restore hangs on stays sealed.
SourceHeld ==
    \A r \in Restores :
        /\ db.op[r].phase \notin {"None", "Complete", "Cleaned"} =>
              /\ db.commit[Source(r)].state = "Sealed"
              /\ Readable(db.member[Source(r)])
              /\ FromSnapshot(r) => db.snapshot.state = "Active" /\ Readable(plan.view)
        /\ db.commit[r].state \in {"Sealed", "Claiming"} =>
              db.commit[Source(r)].state = "Sealed" /\ <<"child", r>> \in db.consumer[Source(r)]

\* The stored counts are the number of rows they stand for: consumers of a commit
\* and of the snapshot, and path and commit references of a revision, also in
\* the middle of a copy, a build, a cleanup or a retirement.
CountsExact ==
    /\ \A c \in Commits : db.commit[c].count = Cardinality(db.consumer[c])
    /\ db.snapshot.count = Cardinality(db.hold \ {Base})
    /\ \A v \in Revisions :
          db.rev[v].count =
              Cardinality({cx \in Commits \X UNION {db.entry[c] : c \in Commits} :
                              cx[2] \in db.entry[cx[1]] /\ cx[2][2] = v})
              + Cardinality({c \in Commits : v \in db.ref[c]})

\* The commit of a completed restore has exactly the artifacts of the source, down
\* to the base commit, and its own manifests, and all of them can be read, until it
\* is retired.
RestoredIsWhole ==
    \A c \in Commits :
        db.commit[c].state = "Sealed" =>
            db.member[c] = Expected(c) /\ Readable(db.member[c])

\* A restore that was cleaned up leaves no row and holds nothing; and one that is
\* over for good leaves no publication of it in progress, which nothing could
\* clean any more (inspect_restore_cleanup_publications).
CleanedLeavesNothing ==
    \A r \in Restores :
        /\ db.op[r].phase = "Cleaned" =>
              /\ db.entry[r] = {} /\ db.ledger[r] = {} /\ db.member[r] = {} /\ db.ref[r] = {}
              /\ db.commit[r].state = "Absent"
              /\ r \notin db.hold
              /\ <<"lease", r>> \notin db.consumer[Source(r)]
        /\ db.op[r].phase \in {"Complete", "Cleaned", "Quarantined"} =>
              \A m \in Manifests : db.pub[r][m].phase \notin {"Uploading", "Aborting", "Cleaning"}

\* Whoever finalizes a restore gets its result: a request is refused only when the
\* restore was aborted, however far its peers have carried it meanwhile.
FinalizersConverge ==
    \A s \in Sessions :
        /\ session[s].answer = "Restored" => db.op[plan.session[s]].phase = "Complete"
        /\ session[s].answer = "Refused" => db.op[plan.session[s]].phase \in AbortPhases

\* An aborted restore is cleaned up or quarantined, with the publications and the
\* half-built commit it left, unless the worker keeps failing the shard closed over
\* something else, or over the scaffolding of a restore that copied nothing, which
\* no cleanup visits (finish_restore_cleanup).
AbortsResolve ==
    \/ []<>(/\ worker.pc = "failed"
            /\ worker.item = "cleanup" =>
                  \E r \in Restores : db.op[r].phase = "Cleaning" /\ db.op[r].copied = 0)
    \/ []<>(\A r \in Restores : db.op[r].phase \notin {"Aborting", "Cleaning"})

\* Stated by take_over_orphaned_publish: a newer owner, or one that finds the lease
\* expired, takes an orphaned publication over.
OrphansAreTakenOver == worker.item # "publication"
=============================================================================
