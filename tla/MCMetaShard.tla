----------------------------- MODULE MCMetaShard -----------------------------
(* A small instance of MetaShard for TLC. *)
EXTENDS MetaShard, TLC

CONSTANTS r1, r2, workspace, claim, path, body, stamp, job, v1

MCKeys == {workspace, claim, path, body, stamp}

Create == [lookup |-> FALSE, deadline |-> None,
           writes |-> (workspace :> v1 @@ claim :> v1)]
Put == [lookup |-> TRUE, deadline |-> 1, writes |-> (path :> v1 @@ body :> v1)]
Remove == [lookup |-> TRUE, deadline |-> None,
           writes |-> (path :> None @@ body :> None)]

MCOps == {Create, Put, Remove}

\* A behaviour explores retries, restarts and reads, or the worker, the lease
\* clock and the successor; both at once would not fit.
Retrying ==
    \/ shard.owner > 1
    \/ ReadsOf(pending \cup answers) # {}
    \/ session # None /\ ~session.op.lookup
    \/ shard.rows[claim] # None
Logging ==
    \/ replica # Fresh
    \/ plan # None
    \/ \E i \in DOMAIN shard.outbox :
          \/ shard.outbox[i].kind = "lease"
          \/ shard.outbox[i].kind = "command" /\ shard.outbox[i].command.id = JobId(job)
MCNext ==
    \/ Serve /\ (Logging => ~Retrying')
    \/ ~Retrying /\ Background
MCSpec == Init /\ [][MCNext]_vars

Symmetric == Permutations(Requests)
=============================================================================
