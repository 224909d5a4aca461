------------------------------ MODULE MetaShard ------------------------------
(***************************************************************************)
(* One owned metadata shard at work: mutating RPCs that claim their        *)
(* request id and run one step inside a write session (executor.rs), reads *)
(* at current and past versions, a background worker that plans outside    *)
(* the session (lifecycle.rs), the lease clock, owner restarts with or     *)
(* without the rows that never reached the acknowledgement boundary, and a *)
(* log-only successor that replays the durable outbox.                     *)
(*                                                                         *)
(* A crash keeps all of the store or falls back to what is durable.  A     *)
(* crash that keeps a part of the rest is the same as one that happens     *)
(* before the lost commands run: nobody was answered from them.            *)
(***************************************************************************)
EXTENDS MetaEngine, FiniteSets

CONSTANTS Requests,     \* client request ids
          Ops,          \* what a client may ask for
          Jobs,         \* commands of the background worker
          StampKey,     \* the row the worker stamps with a commit version
          Generation,   \* the placement generation of the attached root
          Namespace,    \* its object namespace
          MaxEpoch, MaxLease, MaxReads,
          MaxReplay     \* rows the successor replays at most

VARIABLES
    shard,      \* the live store
    durable,    \* the store as of the last acknowledged transaction
    replica,    \* the store of a successor installed from the log
    session,    \* the RPC that holds the command gate, or None
    plan,       \* the command the worker has planned, or None
    pending,    \* results that wait for their acknowledgement
    answers,    \* results that left the shard
    refused     \* requests refused with RequestIdReused

vars == <<shard, durable, replica, session, plan, pending, answers, refused>>

\* Identities derived from a client request (derived_request_id).
ClaimId(r) == <<r, "claim">>
StepId(r) == <<r, "step">>
JobId(j) == <<j, "job">>
FenceId(step) == <<None, step>>

\* The stamped row belongs to the worker.
ASSUME StampAssumption ==
    /\ StampKey \in Keys \ (Claims \cup Bodies)
    /\ \A op \in Ops : StampKey \notin DOMAIN op.writes

\* Deadlines are times of the lease clock.
ASSUME DeadlineAssumption ==
    MaxLease \in Nat /\ \A op \in Ops : op.deadline \in Nat \cup {None}

NoAction == [kind |-> "RequireActive", from |-> None, to |-> None]
Empty == [k \in {} |-> None]

\* A command built against store s; predicates name the mutated keys at the
\* values that were read.
Command(s, id, read, action, writes, event, result) ==
    [id |-> id, epoch |-> s.owner, generation |-> Generation,
     namespace |-> Namespace, read |-> read, action |-> action,
     expect |-> [k \in DOMAIN writes |-> ReadAt(s, k, read)],
     writes |-> writes, event |-> event, result |-> result]

Init ==
    /\ shard = Fresh /\ durable = Fresh /\ replica = Fresh
    /\ session = None /\ plan = None
    /\ pending = {} /\ answers = {} /\ refused = {}

-----------------------------------------------------------------------------
(* Bootstrap: a new process, alone.                                        *)

Idle == session = None /\ plan = None /\ pending = {}

\* activate_shard
Activate ==
    /\ Idle /\ shard.owner < MaxEpoch
    /\ shard' = EpochAdvanced(shard, shard.owner, shard.owner + 1)
    /\ durable' = shard'
    /\ UNCHANGED <<replica, session, plan, pending, answers, refused>>

\* One of the fence commands of attach_root.  A root installed before roots
\* had a namespace has none until it is bound.
FenceCommand(id, action, namespace) ==
    LET c == [Command(shard, id, shard.clock, action, Empty, FALSE, id)
                EXCEPT !.namespace = namespace]
    IN  /\ Idle /\ shard.owner > 0
        /\ CommandAdmitted(shard, c, None)
        /\ shard' = Executed(shard, c, None)
        /\ durable' = shard'
        /\ UNCHANGED <<replica, session, plan, pending, answers, refused>>

Install(namespace) ==
    /\ shard.fence = None
    /\ FenceCommand(FenceId("install"), [NoAction EXCEPT !.kind = "Install"], namespace)

BindObjectNamespace ==
    /\ shard.fence # None /\ shard.fence.namespace = None
    /\ FenceCommand(FenceId("bind"), [NoAction EXCEPT !.kind = "Bind",
                                             !.from = shard.fence.state],
                    Namespace)

ActivateRoot ==
    /\ shard.fence # None /\ shard.fence.state = "Installing"
    /\ FenceCommand(FenceId("activate"), [kind |-> "Transition", from |-> "Installing",
                                 to |-> "Active"], Namespace)

-----------------------------------------------------------------------------
(* A mutating RPC (execute_request_with_internal_retry, WriteSession).     *)

Serving == shard.owner > 0 /\ IsActive(shard, Generation)
                           /\ shard.fence.namespace = Namespace

\* The session starts by claiming the request id for the operation
\* (claim_fingerprinted_mutation); the owner epoch is no part of the claim.
BeginRpc(r, op) ==
    LET claims == Seen(shard, ClaimId(r))
        c == Command(shard, ClaimId(r), shard.clock, NoAction, Empty, FALSE, op)
    IN  /\ session = None /\ Serving
        /\ IF claims # {}
           THEN (\E claim \in claims : claim.command.result = op)
                /\ UNCHANGED shard
           ELSE /\ CommandAdmitted(shard, c, None)
                /\ shard' = Executed(shard, c, None)
        /\ session' = [request |-> r, op |-> op]
        /\ UNCHANGED <<durable, replica, plan, pending, answers, refused>>

Result(r, op, version) == [request |-> r, op |-> op, version |-> version]

\* The command of the step.  A step that looks its request id up first
\* (remove_path, rename, publication) plans at the current version; one that
\* leaves the lookup to the engine (create_visible_workspace) is rebuilt at
\* the version it had (write_context).
StepCommand(r, op) ==
    LET seen == Seen(shard, StepId(r))
        read == IF seen = {} THEN shard.clock
                ELSE (CHOOSE d \in seen : TRUE).version - 1
    IN  Command(shard, StepId(r), read, NoAction, op.writes, TRUE, op)

\* The gate is released before the result is acknowledged.
EndSession == session' = None /\ UNCHANGED <<durable, replica, plan, answers>>

\* The stored command of a request id is the one being retried: a step that
\* looks it up compares its inputs, the engine compares the whole command.
StepReplays(d, r, op) ==
    IF op.lookup THEN d.command.result = op
    ELSE d.command = StepCommand(r, op)

\* The step ran before: the stored result answers.
ReplayStep ==
    /\ session # None
    /\ LET r == session.request
           op == session.op
       IN  \E d \in Seen(shard, StepId(r)) :
             /\ StepReplays(d, r, op)
             /\ pending' = pending \cup {Result(r, op, d.version)}
    /\ EndSession /\ UNCHANGED <<shard, refused>>

ExecuteStep ==
    /\ session # None
    /\ LET r == session.request
           op == session.op
           c == StepCommand(r, op)
       IN  /\ CommandAdmitted(shard, c, op.deadline)
           /\ shard' = Executed(shard, c, op.deadline)
           /\ pending' = pending \cup {Result(r, op, shard.clock + 1)}
    /\ EndSession /\ UNCHANGED refused

\* The step is refused: its id is taken by another command, or one of its
\* conditions does not hold.
RefuseStep ==
    /\ session # None
    /\ LET r == session.request
           op == session.op
           seen == Seen(shard, StepId(r))
           c == StepCommand(r, op)
       IN  IF seen # {}
           THEN /\ \A d \in seen : ~StepReplays(d, r, op)
                /\ refused' = refused \cup {r}
           ELSE ~CommandAdmitted(shard, c, op.deadline) /\ UNCHANGED refused
    /\ EndSession /\ UNCHANGED <<shard, pending>>

\* Bug: a result is handed out before its rows are durable.
AcknowledgeEarly(result) ==
    /\ result \in pending
    /\ pending' = pending \ {result}
    /\ answers' = answers \cup {result}
    /\ UNCHANGED <<shard, durable, replica, session, plan, refused>>

\* write_session and durability_barrier: the result leaves once everything
\* applied before it is durable.
Acknowledge(result) ==
    /\ result \in pending
    /\ durable' = shard
    /\ pending' = pending \ {result}
    /\ answers' = answers \cup {result}
    /\ UNCHANGED <<shard, replica, session, plan, refused>>

-----------------------------------------------------------------------------
(* Reads, the worker and the lease clock.                                  *)

ReadResult(k, version, payload) ==
    [key |-> k, version |-> version, payload |-> payload]
ReadsOf(results) == {x \in results : "key" \in DOMAIN x}
StepsOf(results) == {x \in results : "request" \in DOMAIN x}

\* A read RPC at the current or a retained version.  The body of a collected
\* revision is outside what a read may still ask for.
Read(k, version) ==
    /\ session = None /\ Serving
    /\ Cardinality(ReadsOf(pending \cup answers)) < MaxReads
    /\ version \in 1..shard.clock
    /\ pending' = pending \cup {ReadResult(k, version, ReadAt(shard, k, version))}
    /\ UNCHANGED <<shard, durable, replica, session, plan, answers, refused>>

\* The worker plans at the current version and stamps a row with the version
\* its command will commit at (a zero-reference record).
PlanJob(j) ==
    /\ session = None /\ plan = None /\ Serving
    /\ Seen(shard, JobId(j)) = {}
    /\ plan' = Command(shard, JobId(j), shard.clock, NoAction,
                       [k \in {StampKey} |-> shard.clock + 1], FALSE, j)
    /\ UNCHANGED <<shard, durable, replica, session, pending, answers, refused>>

RunJob ==
    /\ session = None /\ plan # None
    /\ shard' = IF CommandAdmitted(shard, plan, None)
                THEN Executed(shard, plan, None) ELSE shard
    /\ plan' = None
    /\ UNCHANGED <<durable, replica, session, pending, answers, refused>>

ObserveLease(observed) ==
    /\ session = None /\ Serving
    /\ LeaseAdmitted(shard, Generation, shard.owner, observed)
    /\ shard' = LeaseObserved(shard, Generation, observed)
    /\ UNCHANGED <<durable, replica, session, plan, pending, answers, refused>>

-----------------------------------------------------------------------------
(* Failure and succession.                                                 *)

\* The process dies at any point, also between the claim and the step.
Crash ==
    /\ shard' \in {shard, durable}
    /\ durable' = shard'
    /\ session' = None /\ plan' = None /\ pending' = {}
    /\ UNCHANGED <<replica, answers, refused>>

\* replay_recovery_record of the next row of the durable log.
Replay ==
    LET n == Len(replica.outbox)
    IN  /\ n < MaxReplay /\ n < Len(durable.outbox)
        /\ SubSeq(durable.outbox, 1, n) = replica.outbox
        /\ ReplayAdmitted(replica, durable.outbox[n + 1])
        /\ replica' = Replayed(replica, durable.outbox[n + 1])
        /\ UNCHANGED <<shard, durable, session, plan, pending, answers, refused>>

\* Bootstraps, requests and crashes.
Serve ==
    \/ Activate
    \/ Install(None) \/ Install(Namespace)
    \/ BindObjectNamespace \/ ActivateRoot
    \/ \E r \in Requests, op \in Ops : BeginRpc(r, op)
    \/ ReplayStep \/ ExecuteStep \/ RefuseStep
    \/ \E result \in pending : Acknowledge(result)
    \/ \E k \in Keys \ Bodies, version \in 1..shard.clock : Read(k, version)
    \/ Crash

\* The worker, the lease clock and the successor.
Background ==
    \/ \E j \in Jobs : PlanJob(j)
    \/ RunJob
    \/ \E observed \in 1..MaxLease : ObserveLease(observed)
    \/ Replay

Next == Serve \/ Background

Spec == Init /\ [][Next]_vars

-----------------------------------------------------------------------------
(* Exactly once: whatever was retried, refused or lost with a crash, every *)
(* answer a client ever received names the one commit the log holds for    *)
(* its request, and the operation it carried out is the one it asked for.  *)
AnsweredExactlyOnce ==
    \A a \in StepsOf(answers) :
      \E i \in 1..Len(shard.outbox) :
        LET row == shard.outbox[i]
        IN  /\ row.kind = "command" /\ row.command.id = StepId(a.request)
            /\ row.version = a.version /\ row.command.result = a.op
            /\ \A j \in 1..Len(shard.outbox) :
                 /\ shard.outbox[j].kind = "command"
                 /\ shard.outbox[j].command.id = StepId(a.request)
                 => j = i

(* A read that left the shard can be repeated at its version forever.      *)
RepeatableReads ==
    \A a \in ReadsOf(answers) : ReadAt(shard, a.key, a.version) = a.payload

(* A successor that replays the log is always able to take the next row,   *)
(* and at every position it holds what the shard held at that version: the *)
(* history of the shard and the log tell the same story.                   *)
SuccessorAgrees ==
    /\ Len(replica.outbox) < Len(durable.outbox) =>
         /\ SubSeq(durable.outbox, 1, Len(replica.outbox)) = replica.outbox
         /\ ReplayAdmitted(replica, durable.outbox[Len(replica.outbox) + 1])
    /\ Len(replica.outbox) = Len(durable.outbox) => replica = durable
    /\ \A k \in Keys \ Bodies :
         ReadAt(shard, k, replica.clock) = Payload(replica, k)

(* A command commits at the version after the one it was planned at, so a  *)
(* version it wrote into a record is the version of that record.           *)
StampsAreExact ==
    shard.rows[StampKey] # None =>
        shard.rows[StampKey].payload = shard.rows[StampKey].modified

(* A command with a lease deadline is never logged after an observation of *)
(* the clock at or beyond the deadline.                                    *)
DeadlinesHold ==
    \A i, j \in 1..Len(shard.outbox) :
        /\ i < j /\ shard.outbox[i].kind = "lease"
        /\ shard.outbox[j].kind = "command" /\ shard.outbox[j].deadline # None
        => shard.outbox[i].observed < shard.outbox[j].deadline

=============================================================================
