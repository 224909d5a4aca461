--------------------------- MODULE CoveringRounds ---------------------------
(***************************************************************************)
(* Acknowledgement barrier shared by the request threads of one shard      *)
(* owner: CoveringRounds::run and the publish_round it guards              *)
(* (crates/nokv-server/src/recovery_publisher.rs).                         *)
(*                                                                         *)
(* A thread writes metadata, then calls publish_current.  Rounds run one   *)
(* at a time, outside the mutex; a round samples the local frontier after  *)
(* it starts.  A caller may return another thread's successful round, but  *)
(* only one that started after the caller arrived.                         *)
(*                                                                         *)
(* The mutex makes each critical section one action.  The condition        *)
(* variable may wake a waiter at any time: a wake-up, spurious or not, is  *)
(* just another pass of the loop, so `waiting' needs no separate queue.    *)
(***************************************************************************)
EXTENDS Naturals

CONSTANTS Callers,     \* request threads, and the lifecycle worker
          MaxCalls     \* bound on the calls of publish_current

ASSUME MaxCallsAssumption == MaxCalls \in Nat

VARIABLES
    applied,    \* local recovery LSN: metadata writes applied so far
    durable,    \* frontier that some successful round has made durable
    started,    \* RoundState.started
    completed,  \* RoundState.completed
    running,    \* RoundState.running
    succeeded,  \* RoundState.succeeded: [round, frontier]; round 0 is None
    at,         \* where each thread is in run()
    needed,     \* the local `needed' of each thread
    required,   \* RecoveryState sampled by the round a thread runs
    observed,   \* LSN a thread wrote, or read up to, before it called
    result,     \* what its last call returned
    calls       \* calls of publish_current made so far

roundsVars == <<applied, durable, started, completed, running, succeeded,
                at, needed, required, observed, result, calls>>

RoundsInit ==
    /\ applied = 0 /\ durable = 0
    /\ started = 0 /\ completed = 0
    /\ running = FALSE
    /\ succeeded = [round |-> 0, frontier |-> 0]
    /\ at = [t \in Callers |-> "idle"]
    /\ needed = [t \in Callers |-> 0]
    /\ required = [t \in Callers |-> 0]
    /\ observed = [t \in Callers |-> 0]
    /\ result = [t \in Callers |-> "none"]
    /\ calls = 0

-----------------------------------------------------------------------------
(* One pass of the loop in run(), entered with `need'; the mutex is held.  *)

ReturnShared(t, need) ==
    /\ succeeded.round >= need
    /\ at' = [at EXCEPT ![t] = "idle"]
    /\ result' = [result EXCEPT ![t] = "ok"]
    /\ needed' = [needed EXCEPT ![t] = need]
    /\ UNCHANGED <<started, running>>

\* A covering round that finished without success demands a newer one.
StillNeeded(need) == IF completed >= need THEN started + 1 ELSE need

\* Bug: `!running' is not tested, so a second round starts beside the first.
StartRoundIgnoresRunning(t, need) ==
    /\ succeeded.round < need
    /\ running' = TRUE
    /\ started' = started + 1
    /\ needed' = [needed EXCEPT ![t] = StillNeeded(need)]
    /\ at' = [at EXCEPT ![t] = "started"]
    /\ UNCHANGED result

StartRound(t, need) ==
    /\ succeeded.round < need
    /\ ~running
    /\ running' = TRUE
    /\ started' = started + 1
    /\ needed' = [needed EXCEPT ![t] = StillNeeded(need)]
    /\ at' = [at EXCEPT ![t] = "started"]
    /\ UNCHANGED result

WaitFinished(t, need) ==
    /\ succeeded.round < need
    /\ running
    /\ needed' = [needed EXCEPT ![t] = StillNeeded(need)]
    /\ at' = [at EXCEPT ![t] = "waiting"]
    /\ UNCHANGED <<started, running, result>>

LoopPass(t, need) ==
    /\ \/ ReturnShared(t, need)
       \/ StartRound(t, need)
       \/ WaitFinished(t, need)
    /\ UNCHANGED <<applied, durable, completed, succeeded, required, observed,
                   calls>>

\* A thread applies a metadata command before it asks for the barrier ...
Write(t) ==
    /\ at[t] = "idle"
    /\ calls < MaxCalls
    /\ calls' = calls + 1
    /\ applied' = applied + 1
    /\ observed' = [observed EXCEPT ![t] = applied + 1]
    /\ at' = [at EXCEPT ![t] = "arriving"]
    /\ UNCHANGED <<durable, started, completed, running, succeeded, needed,
                   required, result>>

\* ... or only reads: its answer may show any write applied so far.
Read(t) ==
    /\ at[t] = "idle"
    /\ calls < MaxCalls
    /\ calls' = calls + 1
    /\ observed' = [observed EXCEPT ![t] = applied]
    /\ at' = [at EXCEPT ![t] = "arriving"]
    /\ UNCHANGED <<applied, durable, started, completed, running, succeeded,
                   needed, required, result>>

\* Bug: a caller accepts the round already in flight when it arrives.
RunJoinsCurrentRound(t) ==
    /\ at[t] = "arriving"
    /\ LoopPass(t, IF started = 0 THEN 1 ELSE started)

\* The first critical section of run(): `needed = started + 1', then the loop.
Run(t) ==
    /\ at[t] = "arriving"
    /\ LoopPass(t, started + 1)

\* Condvar::wait returned (after notify_all or spuriously): loop again.
Wake(t) ==
    /\ at[t] = "waiting"
    /\ LoopPass(t, needed[t])

\* publish_round: durability_barrier, then recovery_state().
SampleFrontier(t) ==
    /\ at[t] = "started"
    /\ required' = [required EXCEPT ![t] = applied]
    /\ at' = [at EXCEPT ![t] = "proving"]
    /\ UNCHANGED <<applied, durable, started, completed, running, succeeded,
                   needed, observed, result, calls>>

\* Bug: `running' is not cleared when the round fails.
FinishRoundKeepsRunning(t, ok) ==
    /\ at[t] = "proving"
    /\ running' = ~ok
    /\ completed' = started
    /\ IF ok
         THEN /\ durable' = IF required[t] > durable THEN required[t] ELSE durable
              /\ succeeded' = [round |-> started, frontier |-> required[t]]
         ELSE UNCHANGED <<durable, succeeded>>
    /\ at' = [at EXCEPT ![t] = "idle"]
    /\ result' = [result EXCEPT ![t] = IF ok THEN "ok" ELSE "failed"]
    /\ UNCHANGED <<applied, started, needed, required, observed, calls>>

\* The round ends, the mutex is taken again, and every waiter is notified.
FinishRound(t, ok) ==
    /\ at[t] = "proving"
    /\ running' = FALSE
    /\ completed' = started
    /\ IF ok
         THEN /\ durable' = IF required[t] > durable THEN required[t] ELSE durable
              /\ succeeded' = [round |-> started, frontier |-> required[t]]
         ELSE UNCHANGED <<durable, succeeded>>
    /\ at' = [at EXCEPT ![t] = "idle"]
    /\ result' = [result EXCEPT ![t] = IF ok THEN "ok" ELSE "failed"]
    /\ UNCHANGED <<applied, started, needed, required, observed, calls>>

ThreadStep(t) ==
    \/ Run(t)
    \/ Wake(t)
    \/ SampleFrontier(t)
    \/ \E ok \in BOOLEAN : FinishRound(t, ok)

RoundsNext == \E t \in Callers : Write(t) \/ Read(t) \/ ThreadStep(t)

RoundsSpec == RoundsInit /\ [][RoundsNext]_roundsVars

(* A thread that can take a step of run() does: the operating system       *)
(* schedules it, notify_all wakes every waiter, and a round's remote calls *)
(* have timeouts.                                                          *)
RoundsFairness == \A t \in Callers : WF_roundsVars(ThreadStep(t))

RoundsLive == RoundsSpec /\ RoundsFairness

-----------------------------------------------------------------------------
(* Types, and the frontiers and round numbers in their order.              *)
RoundsTypeOK ==
    /\ applied \in Nat /\ durable \in 0..applied
    /\ started \in Nat /\ completed \in 0..started
    /\ running \in BOOLEAN
    /\ succeeded \in [round : 0..completed, frontier : 0..durable]
    /\ at \in [Callers -> {"idle", "arriving", "waiting", "started", "proving"}]
    /\ needed \in [Callers -> Nat]
    /\ required \in [Callers -> Nat]
    /\ observed \in [Callers -> Nat]
    /\ result \in [Callers -> {"none", "ok", "failed"}]
    /\ calls \in Nat

(* publish_current returns Ok only when a round that began after the       *)
(* caller's write made that write durable, whoever ran the round           *)
(* (recovery_publisher.rs, CoveringRounds::run).                           *)
AckCovered ==
    \A t \in Callers :
        at[t] = "idle" /\ result[t] = "ok" => observed[t] <= durable

(* Rounds never overlap: at most one thread is inside publish_round, and   *)
(* `running' says whether one is (the flag that makes other callers wait). *)
OneRound ==
    /\ \A t, u \in Callers :
           at[t] \in {"started", "proving"} /\ at[u] \in {"started", "proving"}
               => t = u
    /\ running <=> \E t \in Callers : at[t] \in {"started", "proving"}

(* Every call of publish_current returns, even when the round it waited    *)
(* for failed and a newer one must run.  The calls are finitely many: with *)
(* an unfair mutex, endless other callers whose rounds all fail may start  *)
(* every round, and a waiter is then never served.                         *)
EveryCallReturns ==
    \A t \in Callers : at[t] = "arriving" ~> at[t] = "idle"
=============================================================================
