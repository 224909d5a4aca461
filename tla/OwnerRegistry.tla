---------------------------- MODULE OwnerRegistry ----------------------------
(***************************************************************************)
(* The routes one server process has installed and the permits of the work *)
(* it has admitted (crates/nokv-server/src/registry.rs).  Connection       *)
(* threads dispatch requests, the lifecycle worker brackets destructive    *)
(* object deletions, bootstrap installs and removes routes, and whoever    *)
(* learns that the lease is lost, or releases it, fails the shard closed.  *)
(*                                                                         *)
(* A lookup, its permit included, runs under the read lock of the owner    *)
(* table and is one step.  An install holds the write lock over two steps: *)
(* the owner-loss flag it tests is an atomic that nobody's lock protects.  *)
(* in_flight is the set of threads that hold a permit.                     *)
(***************************************************************************)
EXTENDS Naturals

CONSTANTS None, Threads, Roots, Shards,
          ShardOf,      \* root -> its logical shard
          MaxEpoch      \* bound on owner epochs

ASSUME ShardAssumption ==
    ShardOf \in [Roots -> Shards] /\ None \notin Threads /\ MaxEpoch \in Nat

VARIABLES
    lost,       \* OwnerLossSignal: shared by every shard of the process
    owners,     \* root -> the owner epoch of its installed route, or 0
    writer,     \* thread that holds the write lock across steps, or None
    closed,     \* shard -> ShardRuntimeState.closed
    permits,    \* shard -> threads counted in ShardRuntimeState.in_flight
    pc,         \* where each thread is
    call,       \* the route a thread works on
    asleep,     \* threads that wait on the condition variable of a runtime
    fenced      \* history: shards some fail_closed call has returned for

vars == <<lost, owners, writer, closed, permits, pc, call, asleep, fenced>>

Epochs == 1..MaxEpoch
NoCall == [root |-> None, epoch |-> 0]

Init ==
    /\ lost = FALSE
    /\ owners = [r \in Roots |-> 0]
    /\ writer = None
    /\ closed = [s \in Shards |-> FALSE]
    /\ permits = [s \in Shards |-> {}]
    /\ pc = [t \in Threads |-> "idle"]
    /\ call = [t \in Threads |-> NoCall]
    /\ asleep = {}
    /\ fenced = {}

\* Thread t leaves one place in the code for another.
Goto(t, from, to) ==
    pc[t] = from /\ pc' = [pc EXCEPT ![t] = to] /\ UNCHANGED call

Starts(t, root, epoch, to) ==
    /\ pc[t] = "idle" /\ pc' = [pc EXCEPT ![t] = to]
    /\ call' = [call EXCEPT ![t] = [root |-> root, epoch |-> epoch]]

Returns(t, from) ==
    /\ pc[t] = from /\ pc' = [pc EXCEPT ![t] = "idle"]
    /\ call' = [call EXCEPT ![t] = NoCall]

\* The shard whose work thread t does.
Shard(t) == ShardOf[call[t].root]

-----------------------------------------------------------------------------
(* Admission (dispatch_guarded, enter_shard_operation).                    *)

\* A request, or a deletion, for the route of an epoch passes the owner-loss
\* test.
Dispatch(t, root, epoch, to) ==
    /\ ~lost
    /\ Starts(t, root, epoch, to)
    /\ UNCHANGED <<lost, owners, writer, closed, permits, asleep, fenced>>

\* Find the exact route and enter the runtime of its shard, or be refused.
Enter(t, from, to) ==
    /\ writer = None /\ pc[t] = from
    /\ IF owners[call[t].root] = call[t].epoch /\ ~closed[Shard(t)]
       THEN /\ Goto(t, from, to)
            /\ permits' = [permits EXCEPT ![Shard(t)] = @ \cup {t}]
       ELSE Returns(t, from) /\ UNCHANGED permits
    /\ UNCHANGED <<lost, owners, writer, closed, asleep, fenced>>

\* ShardOperationPermit::drop: the last permit of a closed runtime notifies
\* everyone who waits for the drain.
DropPermit(t) ==
    /\ permits' = [permits EXCEPT ![Shard(t)] = @ \ {t}]
    /\ asleep' = IF closed[Shard(t)] /\ permits[Shard(t)] \subseteq {t}
                 THEN {u \in asleep : Shard(u) # Shard(t)} ELSE asleep

\* Bug: the permit ends with the executor, before the response is written.
ExecutedDropsPermit(t) ==
    /\ Goto(t, "executing", "delivering")
    /\ DropPermit(t)
    /\ UNCHANGED <<lost, owners, writer, closed, fenced>>

\* The executor returned: the response keeps the permit until it is written.
Executed(t) ==
    /\ Goto(t, "executing", "delivering")
    /\ UNCHANGED <<lost, owners, writer, closed, permits, asleep, fenced>>

\* Bug: the thread waits for its own permit.
LostPlacementKeepsPermit(t) ==
    /\ Goto(t, "executing", "close")
    /\ UNCHANGED <<lost, owners, writer, closed, permits, asleep, fenced>>

\* The engine refused the owner: the thread gives its permit back and fails
\* the shard closed itself (fail_closed_runtime).
LostPlacement(t) ==
    /\ Goto(t, "executing", "close")
    /\ DropPermit(t)
    /\ UNCHANGED <<lost, owners, writer, closed, fenced>>

\* The response is written, or the deletion is done.
Finish(t, from) ==
    /\ Returns(t, from)
    /\ DropPermit(t)
    /\ UNCHANGED <<lost, owners, writer, closed, fenced>>

-----------------------------------------------------------------------------
(* Routes.                                                                 *)

\* install takes the write lock and tests the owner-loss flag ...
BeginInstall(t, root, epoch) ==
    /\ writer = None /\ ~lost
    /\ owners[root] <= epoch
    /\ writer' = t
    /\ Starts(t, root, epoch, "install")
    /\ UNCHANGED <<lost, owners, closed, permits, asleep, fenced>>

\* Bug: the write lock outlives the insert.
InstallKeepsLock(t) ==
    /\ Returns(t, "install")
    /\ owners' = [owners EXCEPT ![call[t].root] = call[t].epoch]
    /\ UNCHANGED <<lost, writer, closed, permits, asleep, fenced>>

\* ... and inserts the route.
Install(t) ==
    /\ Returns(t, "install")
    /\ owners' = [owners EXCEPT ![call[t].root] = call[t].epoch]
    /\ writer' = None
    /\ UNCHANGED <<lost, closed, permits, asleep, fenced>>

\* remove, of a rolled-back bootstrap
Remove(t, root) ==
    /\ pc[t] = "idle" /\ writer = None
    /\ owners' = [owners EXCEPT ![root] = 0]
    /\ UNCHANGED <<lost, writer, closed, permits, pc, call, asleep, fenced>>

-----------------------------------------------------------------------------
(* fail_closed_shard and fail_closed_runtime.                              *)

\* For the shard of a root.
BeginFailClose(t, root) ==
    /\ lost' = TRUE
    /\ Starts(t, root, 0, "close")
    /\ UNCHANGED <<owners, writer, closed, permits, asleep, fenced>>

CloseAdmission(t) ==
    /\ Goto(t, "close", "signal")
    /\ closed' = [closed EXCEPT ![Shard(t)] = TRUE]
    /\ UNCHANGED <<lost, owners, writer, permits, asleep, fenced>>

SignalLoss(t) ==
    /\ Goto(t, "signal", "unroute")
    /\ lost' = TRUE
    /\ UNCHANGED <<owners, writer, closed, permits, asleep, fenced>>

RemoveRoutes(t) ==
    /\ writer = None
    /\ Goto(t, "unroute", "drain")
    /\ owners' = [r \in Roots |-> IF ShardOf[r] = Shard(t) THEN 0
                                  ELSE owners[r]]
    /\ UNCHANGED <<lost, writer, closed, permits, asleep, fenced>>

\* wait_until_drained: wait while permits are out ...
Sleep(t) ==
    /\ pc[t] = "drain" /\ t \notin asleep
    /\ permits[Shard(t)] # {}
    /\ asleep' = asleep \cup {t}
    /\ UNCHANGED <<lost, owners, writer, closed, permits, pc, call, fenced>>

\* ... and return with none.
Drain(t) ==
    /\ Returns(t, "drain") /\ t \notin asleep
    /\ permits[Shard(t)] = {}
    /\ fenced' = fenced \cup {Shard(t)}
    /\ UNCHANGED <<lost, owners, writer, closed, permits, asleep>>

-----------------------------------------------------------------------------

\* What a thread does once it has begun.
Continue(t) ==
    \/ Enter(t, "request", "executing") \/ Enter(t, "delete", "deleting")
    \/ Executed(t) \/ LostPlacement(t)
    \/ Finish(t, "delivering") \/ Finish(t, "deleting")
    \/ Install(t)
    \/ CloseAdmission(t) \/ SignalLoss(t) \/ RemoveRoutes(t)
    \/ Sleep(t) \/ Drain(t)

Begin(t) ==
    \/ \E root \in Roots, epoch \in Epochs :
         \/ Dispatch(t, root, epoch, "request")
         \/ Dispatch(t, root, epoch, "delete")
         \/ BeginInstall(t, root, epoch)
    \/ \E root \in Roots : Remove(t, root) \/ BeginFailClose(t, root)

Next == \E t \in Threads : Begin(t) \/ Continue(t)

Spec == Init /\ [][Next]_vars

(* A thread that has begun goes on: executors, response writes and object  *)
(* deletions have timeouts, and a lock is held for a bounded time.         *)
Fairness == \A t \in Threads : WF_vars(Continue(t))

LiveSpec == Spec /\ Fairness

-----------------------------------------------------------------------------
\* Routes, locks, permits and threads are typed; the write lock is held inside
\* install only.
TypeOK ==
    /\ lost \in BOOLEAN
    /\ owners \in [Roots -> 0..MaxEpoch]
    /\ writer \in Threads \cup {None}
    /\ writer # None => pc[writer] = "install"
    /\ closed \in [Shards -> BOOLEAN]
    /\ permits \in [Shards -> SUBSET Threads]
    /\ pc \in [Threads -> {"idle", "request", "delete", "executing",
                           "delivering", "deleting", "install", "close",
                           "signal", "unroute", "drain"}]
    /\ call \in [Threads -> [root : Roots \cup {None}, epoch : 0..MaxEpoch]]
    /\ \A t \in Threads : pc[t] # "idle" => call[t].root \in Roots
    /\ asleep \subseteq Threads
    /\ fenced \subseteq Shards

(* Once a fail_closed call has returned for a shard, the lease may be      *)
(* given up: no request of the shard is executing, none of its successful  *)
(* responses is still being written, no object of it is being deleted, and *)
(* no route of it is installed or will be.                                 *)
FenceHolds ==
    \A s \in fenced :
        /\ \A t \in Threads : pc[t] \in {"executing", "delivering", "deleting"}
                                => Shard(t) # s
        /\ \A r \in Roots : ShardOf[r] = s => owners[r] = 0

(* Failing a shard closed returns, whoever does it and however many do it  *)
(* at once: nobody waits for a permit that is never given back.            *)
FailCloseReturns ==
    \A t \in Threads : pc[t] = "close" ~> pc[t] = "idle"
=============================================================================
