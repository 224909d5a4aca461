---------------------------- MODULE ServerProofs ----------------------------
(***************************************************************************)
(* The two mechanisms every request thread of one server process passes:   *)
(* the acknowledgement barrier (CoveringRounds) covers every caller, for   *)
(* any set of callers and any number of calls, and failing a shard closed  *)
(* (OwnerRegistry) fences it, for any number of threads, roots and shards. *)
(***************************************************************************)
EXTENDS CoveringRounds, OwnerRegistry, TLAPS

-----------------------------------------------------------------------------
(* The acknowledgement barrier.                                            *)

\* A round is either running or completed.
RoundNumbers ==
    IF running THEN started = completed + 1 ELSE started = completed

\* No thread has seen or sampled a write that is not applied.
FrontiersBounded ==
    \A t \in Callers : observed[t] <= applied /\ required[t] <= applied

\* A waiter needs no round beyond the next one to start.
WaitersNeedNext ==
    \A t \in Callers : at[t] = "waiting" => needed[t] <= started + 1

(* The heart of the argument: whatever round a waiter may accept, finished   *)
(* or still running, sampled the frontier after the waiter's own write.      *)
WaitersCovered ==
    \A t \in Callers : at[t] = "waiting" =>
        /\ succeeded.round >= needed[t] => observed[t] <= succeeded.frontier
        /\ \A u \in Callers : at[u] = "proving" /\ needed[t] <= started
               => observed[t] <= required[u]

RunnerCovered ==
    \A t \in Callers : at[t] = "proving" => observed[t] <= required[t]

RoundsInv ==
    /\ RoundsTypeOK /\ OneRound /\ AckCovered
    /\ RoundNumbers /\ FrontiersBounded /\ WaitersNeedNext
    /\ WaitersCovered /\ RunnerCovered

(* Initially no round has run and no thread waits: RoundsInv holds.          *)
LEMMA RoundsInitInv == RoundsInit => RoundsInv
<1> SUFFICES ASSUME RoundsInit PROVE RoundsInv
  OBVIOUS
<1>1. RoundsTypeOK
  <2>1. 0 \in 0..0
    OBVIOUS
  <2>2. succeeded \in [round : 0..completed, frontier : 0..durable]
    BY <2>1 DEF RoundsInit
  <2> QED BY <2>1, <2>2 DEF RoundsInit, RoundsTypeOK
<1>2. OneRound
  BY Zenon DEF RoundsInit, OneRound
<1>3. AckCovered /\ RoundNumbers /\ FrontiersBounded
  BY DEF RoundsInit, AckCovered, RoundNumbers, FrontiersBounded
<1>4. WaitersNeedNext /\ WaitersCovered /\ RunnerCovered
  BY DEF RoundsInit, WaitersNeedNext, WaitersCovered, RunnerCovered
<1> QED BY <1>1, <1>2, <1>3, <1>4 DEF RoundsInv

(* One pass of the loop of run() keeps RoundsInv, when `need' is a round the *)
(* thread may wait for and every acceptable round covers the thread.         *)
LEMMA LoopPassInv ==
  ASSUME RoundsInv, NEW t \in Callers, NEW need \in Nat,
         at[t] \in {"arriving", "waiting"},
         need <= started + 1,
         succeeded.round >= need => observed[t] <= succeeded.frontier,
         \A u \in Callers : at[u] = "proving" /\ need <= started
             => observed[t] <= required[u],
         LoopPass(t, need)
  PROVE  RoundsInv'
<1> USE DEF RoundsInv
<1>1. CASE ReturnShared(t, need)
  <2>1. RoundsTypeOK'
    BY <1>1 DEF RoundsTypeOK, ReturnShared, LoopPass
  <2>2. OneRound'
    BY <1>1 DEF RoundsTypeOK, OneRound, ReturnShared, LoopPass
  <2>3. AckCovered'
    BY <1>1 DEF RoundsTypeOK, AckCovered, ReturnShared, LoopPass
  <2>4. RoundNumbers' /\ FrontiersBounded' /\ WaitersNeedNext'
    BY <1>1 DEF RoundsTypeOK, RoundNumbers, FrontiersBounded, WaitersNeedNext,
                ReturnShared, LoopPass
  <2>5. WaitersCovered' /\ RunnerCovered'
    BY <1>1 DEF RoundsTypeOK, WaitersCovered, RunnerCovered, ReturnShared,
                LoopPass
  <2> QED BY <2>1, <2>2, <2>3, <2>4, <2>5
<1>2. CASE StartRound(t, need)
  <2>0. \A u \in Callers : at[u] # "started" /\ at[u] # "proving"
    BY <1>2 DEF OneRound, StartRound
  <2>1. RoundsTypeOK'
    BY <1>2 DEF RoundsTypeOK, StartRound, StillNeeded, LoopPass
  <2>2. OneRound'
    BY <1>2, <2>0 DEF RoundsTypeOK, OneRound, StartRound, LoopPass
  <2>3. AckCovered'
    BY <1>2 DEF RoundsTypeOK, AckCovered, StartRound, LoopPass
  <2>4. RoundNumbers' /\ FrontiersBounded' /\ WaitersNeedNext'
    BY <1>2 DEF RoundsTypeOK, RoundNumbers, FrontiersBounded, WaitersNeedNext,
                StartRound, LoopPass
  <2>5. WaitersCovered' /\ RunnerCovered'
    BY <1>2, <2>0 DEF RoundsTypeOK, WaitersCovered, RunnerCovered, StartRound,
                      LoopPass
  <2> QED BY <2>1, <2>2, <2>3, <2>4, <2>5
<1>3. CASE WaitFinished(t, need)
  <2>1. RoundsTypeOK'
    BY <1>3 DEF RoundsTypeOK, WaitFinished, StillNeeded, LoopPass
  <2>2. OneRound'
    BY <1>3 DEF RoundsTypeOK, OneRound, WaitFinished, LoopPass
  <2>3. AckCovered'
    BY <1>3 DEF RoundsTypeOK, AckCovered, WaitFinished, LoopPass
  <2>4. RoundNumbers' /\ FrontiersBounded' /\ WaitersNeedNext'
    BY <1>3 DEF RoundsTypeOK, RoundNumbers, FrontiersBounded, WaitersNeedNext,
                WaitFinished, StillNeeded, LoopPass
  <2>5. WaitersCovered'
    BY <1>3 DEF RoundsTypeOK, RoundNumbers, WaitersCovered, WaitFinished,
                StillNeeded, LoopPass
  <2>6. RunnerCovered'
    BY <1>3 DEF RoundsTypeOK, RunnerCovered, WaitFinished, LoopPass
  <2> QED BY <2>1, <2>2, <2>3, <2>4, <2>5, <2>6
<1> QED BY <1>1, <1>2, <1>3 DEF LoopPass

(* Every step of a thread, and every stuttering step, keeps RoundsInv.       *)
LEMMA RoundsStepInv == RoundsInv /\ [RoundsNext]_roundsVars => RoundsInv'
<1> SUFFICES ASSUME RoundsInv, [RoundsNext]_roundsVars PROVE RoundsInv'
  OBVIOUS
<1>1. ASSUME NEW t \in Callers, Write(t) PROVE RoundsInv'
  BY <1>1 DEF RoundsInv, RoundsTypeOK, OneRound, AckCovered, RoundNumbers,
         FrontiersBounded, WaitersNeedNext, WaitersCovered, RunnerCovered,
         Write
<1>2. ASSUME NEW t \in Callers, Read(t) PROVE RoundsInv'
  BY <1>2 DEF RoundsInv, RoundsTypeOK, OneRound, AckCovered, RoundNumbers,
         FrontiersBounded, WaitersNeedNext, WaitersCovered, RunnerCovered, Read
<1>3. ASSUME NEW t \in Callers, Run(t) PROVE RoundsInv'
  <2>1. started + 1 \in Nat /\ succeeded.round < started + 1
    BY DEF RoundsInv, RoundsTypeOK
  <2> QED BY <1>3, <2>1, LoopPassInv DEF Run, RoundsInv, RoundsTypeOK
<1>4. ASSUME NEW t \in Callers, Wake(t) PROVE RoundsInv'
  <2>1. needed[t] \in Nat /\ needed[t] <= started + 1
    BY <1>4 DEF RoundsInv, RoundsTypeOK, WaitersNeedNext, Wake
  <2>2. succeeded.round >= needed[t] => observed[t] <= succeeded.frontier
    BY <1>4 DEF RoundsInv, WaitersCovered, Wake
  <2>3. \A u \in Callers : at[u] = "proving" /\ needed[t] <= started
            => observed[t] <= required[u]
    BY <1>4 DEF RoundsInv, WaitersCovered, Wake
  <2> QED BY <1>4, <2>1, <2>2, <2>3, LoopPassInv DEF Wake
<1>5. ASSUME NEW t \in Callers, SampleFrontier(t) PROVE RoundsInv'
  BY <1>5 DEF RoundsInv, RoundsTypeOK, OneRound, AckCovered, RoundNumbers,
         FrontiersBounded, WaitersNeedNext, WaitersCovered, RunnerCovered,
         SampleFrontier
<1>6. ASSUME NEW t \in Callers, NEW ok \in BOOLEAN, FinishRound(t, ok)
      PROVE  RoundsInv'
  <2> USE DEF RoundsInv
  <2>0. running /\ started = completed + 1
    BY <1>6 DEF OneRound, RoundNumbers, FinishRound
  <2>1. RoundsTypeOK'
    <3>1. required[t] \in 0..applied
      BY DEF RoundsTypeOK, FrontiersBounded
    <3>2. durable' \in 0..applied' /\ durable <= durable'
      BY <1>6, <3>1 DEF RoundsTypeOK, FinishRound
    <3>3. (succeeded \in [round : 0..completed, frontier : 0..durable])'
      <4>1. CASE ok
        <5>1. started \in 0..completed' /\ required[t] \in 0..durable'
          BY <1>6, <4>1, <3>1 DEF RoundsTypeOK, FinishRound
        <5> QED BY <1>6, <4>1, <5>1 DEF FinishRound
      <4>2. CASE ~ok
        <5>1. succeeded' = succeeded /\ durable' = durable
          BY <1>6, <4>2 DEF FinishRound
        <5>2. 0..completed \subseteq 0..(completed')
          BY <1>6, <2>0 DEF RoundsTypeOK, FinishRound
        <5> QED BY <5>1, <5>2 DEF RoundsTypeOK
      <4> QED BY <4>1, <4>2
    <3>4. (applied \in Nat /\ started \in Nat /\ completed \in 0..started)'
      BY <1>6 DEF RoundsTypeOK, FinishRound
    <3>5. (running \in BOOLEAN)'
      BY <1>6 DEF FinishRound
    <3>6. (at \in [Callers -> {"idle", "arriving", "waiting", "started",
                               "proving"}])'
      BY <1>6 DEF RoundsTypeOK, FinishRound
    <3>7. (result \in [Callers -> {"none", "ok", "failed"}])'
      <4>1. CASE ok
        BY <1>6, <4>1 DEF RoundsTypeOK, FinishRound
      <4>2. CASE ~ok
        BY <1>6, <4>2 DEF RoundsTypeOK, FinishRound
      <4> QED BY <4>1, <4>2
    <3>8. (/\ needed \in [Callers -> Nat] /\ required \in [Callers -> Nat]
           /\ observed \in [Callers -> Nat] /\ calls \in Nat)'
      BY <1>6 DEF RoundsTypeOK, FinishRound
    <3> QED BY <3>2, <3>3, <3>4, <3>5, <3>6, <3>7, <3>8
         DEF RoundsTypeOK
  <2>2. OneRound'
    BY <1>6 DEF RoundsTypeOK, OneRound, FinishRound
  <2>3. AckCovered'
    BY <1>6 DEF RoundsTypeOK, AckCovered, RunnerCovered, FinishRound
  <2>4. RoundNumbers' /\ FrontiersBounded' /\ WaitersNeedNext'
    BY <1>6 DEF RoundsTypeOK, RoundNumbers, FrontiersBounded, WaitersNeedNext,
                FinishRound
  <2>5. WaitersCovered'
    BY <1>6 DEF RoundsTypeOK, OneRound, WaitersCovered, FinishRound
  <2>6. RunnerCovered'
    BY <1>6 DEF RoundsTypeOK, RunnerCovered, FinishRound
  <2> QED BY <2>1, <2>2, <2>3, <2>4, <2>5, <2>6
<1>7. CASE UNCHANGED roundsVars
  BY <1>7 DEF RoundsInv, RoundsTypeOK, OneRound, AckCovered, RoundNumbers,
         FrontiersBounded, WaitersNeedNext, WaitersCovered, RunnerCovered,
         roundsVars
<1> QED
  BY <1>1, <1>2, <1>3, <1>4, <1>5, <1>6, <1>7 DEF RoundsNext, ThreadStep

LEMMA RoundsInvariance == RoundsSpec => []RoundsInv
  BY RoundsInitInv, RoundsStepInv, PTL DEF RoundsSpec

(* The variables keep their types, and no frontier or round number           *)
(* overtakes the one it follows, for any number of threads and calls.        *)
THEOREM RoundsTypeCorrect == RoundsSpec => []RoundsTypeOK
  BY RoundsInvariance, PTL DEF RoundsInv

(* A call of publish_current that returns Ok, through its own round or       *)
(* another thread's, leaves everything the caller wrote or read durable.     *)
THEOREM AckBarrier == RoundsSpec => []AckCovered
  BY RoundsInvariance, PTL DEF RoundsInv

(* Publication rounds of one owner never overlap, so two uploads of one      *)
(* owner never race for the single upload intent Control keeps.              *)
THEOREM RoundsExclusive == RoundsSpec => []OneRound
  BY RoundsInvariance, PTL DEF RoundsInv

-----------------------------------------------------------------------------
(* The owner registry.                                                     *)

\* No route of the shard is installed, or about to be.
Unrouted(s) ==
    /\ \A r \in Roots : ShardOf[r] = s => owners[r] = 0
    /\ writer # None => Shard(writer) # s

Working == {"executing", "delivering", "deleting"}

\* Work is counted where it runs, and asks for an epoch an owner may have.
Counted ==
    \A t \in Threads :
        /\ pc[t] \in Working => t \in permits[Shard(t)]
        /\ pc[t] \in {"request", "delete"} => call[t].epoch # 0
        /\ pc[t] = "install" => writer = t

\* How far a thread that fails a shard closed has come.
Progress ==
    \A t \in Threads :
        /\ pc[t] \in {"unroute", "drain"} => lost
        /\ pc[t] = "drain" => Unrouted(Shard(t))

Fence == \A s \in fenced : lost /\ Unrouted(s) /\ permits[s] = {}

(* FenceHolds is not inductive: a fence stays shut because owner loss was  *)
(* published before the routes were removed (Progress), no install can     *)
(* pass the loss test afterwards (Unrouted), and every piece of work is in *)
(* the permit count that was drained (Counted).                            *)
IInv == TypeOK /\ Counted /\ Progress /\ Fence

LEMMA FenceFollows == ASSUME IInv PROVE FenceHolds
  BY DEF IInv, Fence, Unrouted, Counted, Working, FenceHolds, TypeOK

LEMMA InitInv == ASSUME Init PROVE IInv
  <1>1. TypeOK
    <2>1. call \in [Threads -> [root : Roots \cup {None}, epoch : 0..MaxEpoch]]
      BY ShardAssumption DEF Init, NoCall
    <2>2. closed \in [Shards -> BOOLEAN] /\ lost \in BOOLEAN
      BY Zenon DEF Init
    <2>3. /\ owners \in [Roots -> 0..MaxEpoch] /\ permits \in [Shards -> SUBSET Threads]
          /\ \A t \in Threads : pc[t] = "idle"
          /\ pc \in [Threads -> {"idle"}]
      BY ShardAssumption DEF Init
    <2> QED BY <2>1, <2>2, <2>3 DEF Init, TypeOK
  <1>2. \A t \in Threads : pc[t] = "idle"
    BY DEF Init
  <1>3. Counted /\ Progress
    BY <1>2 DEF Counted, Progress, Working
  <1> QED BY <1>1, <1>3 DEF Init, IInv, Fence

-----------------------------------------------------------------------------
(* What a step of thread t must satisfy to keep the invariant: the rest    *)
(* of the state stays, owner loss and absent routes are for ever, and t    *)
(* itself keeps to its part.                                               *)

Local(t) ==
    /\ pc[t] \in Working => t \in permits[Shard(t)]
    /\ pc[t] \in {"request", "delete"} => call[t].epoch # 0
    /\ pc[t] = "install" => writer = t
    /\ pc[t] \in {"unroute", "drain"} => lost
    /\ pc[t] = "drain" => Unrouted(Shard(t))

LEMMA StepInv ==
    ASSUME IInv, NEW t \in Threads, TypeOK', Local(t)',
           \A u \in Threads \ {t} : pc'[u] = pc[u] /\ call'[u] = call[u],
           \A u \in Threads \ {t} : writer = u => writer' = u,
           lost => lost',
           \A s \in Shards : lost /\ Unrouted(s) => Unrouted(s)',
           \A s \in Shards : permits[s] \ {t} \subseteq permits'[s],
           \A s \in fenced : permits'[s] = {},
           \A s \in fenced' \ fenced :
               lost /\ Unrouted(s) /\ Unrouted(s)' /\ permits'[s] = {}
    PROVE  IInv'
  <1>1. \A u \in Threads \ {t} : Shard(u)' = Shard(u)
    BY DEF Shard
  <1>2. \A u \in Threads \ {t} : pc[u] # "idle" => Shard(u) \in Shards
    BY ShardAssumption DEF IInv, TypeOK, Shard
  <1>3. \A u \in Threads \ {t} : Local(u)
    BY DEF IInv, Counted, Progress, Local
  <1>4. ASSUME NEW u \in Threads \ {t} PROVE Local(u)'
    <2>1. pc'[u] = pc[u] /\ call'[u] = call[u] /\ Shard(u)' = Shard(u)
      BY <1>1
    <2>2. pc'[u] \in Working => u \in permits'[Shard(u)']
      BY <1>2, <1>3, <2>1 DEF Working, Local
    <2>3. pc'[u] = "install" => writer' = u
      BY <1>3, <2>1 DEF Local
    <2>4. pc'[u] \in {"unroute", "drain"} => lost'
      BY <1>3, <2>1 DEF Local
    <2>5. pc'[u] = "drain" => Unrouted(Shard(u))'
      <3>1. SUFFICES ASSUME pc'[u] = "drain" PROVE Unrouted(Shard(u))'
        OBVIOUS
      <3>2. lost /\ Unrouted(Shard(u)) /\ Shard(u) \in Shards
        BY <1>2, <1>3, <2>1, <3>1 DEF Local
      <3>3. \A s \in Shards : s = Shard(u) => Unrouted(s)'
        BY <3>2
      <3> QED BY <2>1, <3>2, <3>3 DEF Unrouted
    <2>6. pc'[u] \in {"request", "delete"} => call'[u].epoch # 0
      BY <1>3, <2>1 DEF Local
    <2> QED BY <2>2, <2>3, <2>4, <2>5, <2>6 DEF Local
  <1>5. \A u \in Threads : Local(u)'
    BY <1>4
  <1>6. Counted' /\ Progress'
    BY <1>5 DEF Local, Counted, Progress
  <1>7. Fence'
    <2>1. SUFFICES ASSUME NEW s \in fenced'
                   PROVE  lost' /\ Unrouted(s)' /\ permits'[s] = {}
      BY DEF Fence
    <2>2. CASE s \in fenced
      BY <2>2 DEF IInv, Fence, TypeOK
    <2>3. CASE s \notin fenced
      BY <2>1, <2>3
    <2> QED BY <2>2, <2>3
  <1> QED BY <1>6, <1>7 DEF IInv

LEMMA DispatchInv ==
    ASSUME IInv, NEW t \in Threads, NEW root \in Roots, NEW epoch \in Epochs,
           NEW to \in {"request", "delete"}, Dispatch(t, root, epoch, to)
    PROVE  IInv'
  <1> USE ShardAssumption DEF IInv, Dispatch, Starts, Epochs
  <1>1. TypeOK'
    BY DEF TypeOK
  <1>2. /\ pc'[t] = to /\ call'[t].epoch = epoch /\ writer # t
        /\ \A u \in Threads \ {t} : pc'[u] = pc[u] /\ call'[u] = call[u]
    BY DEF TypeOK
  <1>3. Local(t)'
    BY <1>2 DEF Local, Working
  <1>4. \A s \in Shards : Unrouted(s) => Unrouted(s)'
    BY <1>2 DEF Unrouted, Shard, TypeOK
  <1> QED BY <1>1, <1>2, <1>3, <1>4, StepInv DEF TypeOK, Fence

LEMMA EnterInv ==
    ASSUME IInv, NEW t \in Threads,
           \/ Enter(t, "request", "executing") \/ Enter(t, "delete", "deleting")
    PROVE  IInv'
  <1> USE ShardAssumption
  <1>1. PICK from \in {"request", "delete"}, to \in {"executing", "deleting"} :
          Enter(t, from, to)
    OBVIOUS
  <1>2. call[t].root \in Roots /\ Shard(t) \in Shards /\ call[t].epoch # 0
    BY <1>1 DEF IInv, TypeOK, Counted, Enter, Shard
  <1>3. UNCHANGED <<lost, owners, writer, closed, asleep, fenced>> /\ writer = None
    BY <1>1 DEF Enter
  <1>4. \A s \in Shards : Unrouted(s) => Unrouted(s)'
    BY <1>3 DEF Unrouted
  <1>5. CASE owners[call[t].root] = call[t].epoch /\ ~closed[Shard(t)]
    <2>1. /\ pc' = [pc EXCEPT ![t] = to] /\ call' = call
          /\ permits' = [permits EXCEPT ![Shard(t)] = @ \cup {t}]
      BY <1>1, <1>5 DEF Enter, Goto
    <2>2. TypeOK'
      BY <1>2, <1>3, <2>1 DEF IInv, TypeOK
    <2>3. Shard(t) \notin fenced
      BY <1>2, <1>5 DEF IInv, Fence, Unrouted, Shard
    <2>4. Local(t)'
      BY <1>2, <2>1 DEF IInv, TypeOK, Local, Working, Shard
    <2> QED BY <1>3, <1>4, <2>1, <2>2, <2>3, <2>4, StepInv
            DEF IInv, TypeOK, Fence
  <1>6. CASE ~(owners[call[t].root] = call[t].epoch /\ ~closed[Shard(t)])
    <2>1. /\ pc' = [pc EXCEPT ![t] = "idle"]
          /\ call' = [call EXCEPT ![t] = NoCall] /\ permits' = permits
      BY <1>1, <1>6 DEF Enter, Returns
    <2>2. TypeOK'
      BY <1>3, <2>1 DEF IInv, TypeOK, NoCall
    <2>3. Local(t)'
      BY <2>1 DEF IInv, TypeOK, Local, Working
    <2> QED BY <1>3, <1>4, <2>1, <2>2, <2>3, StepInv DEF IInv, TypeOK, Fence
  <1> QED BY <1>5, <1>6

LEMMA WorkInv ==
    ASSUME IInv, NEW t \in Threads,
           \/ Executed(t) \/ LostPlacement(t)
           \/ Finish(t, "delivering") \/ Finish(t, "deleting")
    PROVE  IInv'
  <1> USE ShardAssumption
  <1>1. /\ UNCHANGED <<lost, owners, writer, closed, fenced>>
        /\ pc[t] \in Working /\ writer # t
    BY DEF Executed, LostPlacement, Finish, Goto, Returns, Working, IInv, TypeOK
  <1>0. asleep' \subseteq Threads
    BY DEF Executed, LostPlacement, Finish, DropPermit, IInv, TypeOK
  <1>2. Shard(t) \in Shards
    BY <1>1 DEF IInv, TypeOK, Working, Shard
  <1>3. CASE Executed(t)
    <2>1. pc' = [pc EXCEPT ![t] = "delivering"] /\ call' = call /\ permits' = permits
      BY <1>3 DEF Executed, Goto
    <2>2. TypeOK'
      BY <1>0, <1>1, <2>1 DEF IInv, TypeOK, Working
    <2>3. Local(t)'
      <3>1. pc'[t] = "delivering" /\ t \in permits[Shard(t)]
        BY <1>1, <2>1 DEF IInv, TypeOK, Counted
      <3> QED BY <2>1, <3>1 DEF Local, Working, Shard
    <2>4. \A s \in Shards : Unrouted(s) => Unrouted(s)'
      BY <1>1, <2>1 DEF Unrouted, Shard
    <2> QED BY <1>1, <2>1, <2>2, <2>3, <2>4, StepInv DEF IInv, TypeOK, Fence
  <1>4. CASE LostPlacement(t)
    <2>1. /\ pc' = [pc EXCEPT ![t] = "close"] /\ call' = call
          /\ permits' = [permits EXCEPT ![Shard(t)] = @ \ {t}]
      BY <1>4 DEF LostPlacement, Goto, DropPermit
    <2>2. TypeOK'
      BY <1>0, <1>1, <1>2, <2>1 DEF IInv, TypeOK, Working
    <2>3. Local(t)'
      BY <2>1 DEF IInv, TypeOK, Local, Working
    <2>4. \A s \in Shards : Unrouted(s) => Unrouted(s)'
      BY <1>1, <2>1 DEF Unrouted, Shard
    <2>5. /\ \A s \in Shards : permits[s] \ {t} \subseteq permits'[s]
          /\ \A s \in fenced : permits'[s] = {}
      BY <1>2, <2>1 DEF IInv, TypeOK, Fence
    <2>6. \A u \in Threads \ {t} : pc'[u] = pc[u] /\ call'[u] = call[u]
      BY <2>1 DEF IInv, TypeOK
    <2> QED BY <1>1, <2>2, <2>3, <2>4, <2>5, <2>6, StepInv
  <1>5. CASE Finish(t, "delivering") \/ Finish(t, "deleting")
    <2>1. /\ pc' = [pc EXCEPT ![t] = "idle"] /\ call' = [call EXCEPT ![t] = NoCall]
          /\ permits' = [permits EXCEPT ![Shard(t)] = @ \ {t}]
      BY <1>5 DEF Finish, Returns, DropPermit
    <2>2. TypeOK'
      BY <1>0, <1>1, <1>2, <2>1 DEF IInv, TypeOK, NoCall, Working
    <2>3. Local(t)'
      BY <2>1 DEF IInv, TypeOK, Local, Working
    <2>4. \A s \in Shards : Unrouted(s) => Unrouted(s)'
      BY <1>1, <2>1 DEF IInv, TypeOK, Unrouted, Shard
    <2>5. /\ \A s \in Shards : permits[s] \ {t} \subseteq permits'[s]
          /\ \A s \in fenced : permits'[s] = {}
      BY <1>2, <2>1 DEF IInv, TypeOK, Fence
    <2>6. \A u \in Threads \ {t} : pc'[u] = pc[u] /\ call'[u] = call[u]
      BY <2>1 DEF IInv, TypeOK
    <2> QED BY <1>1, <2>2, <2>3, <2>4, <2>5, <2>6, StepInv
  <1> QED BY <1>3, <1>4, <1>5

LEMMA RouteInv ==
    ASSUME IInv, NEW t \in Threads,
           \/ \E root \in Roots, epoch \in Epochs : BeginInstall(t, root, epoch)
           \/ \E root \in Roots : Remove(t, root)
           \/ Install(t)
    PROVE  IInv'
  <1> USE ShardAssumption
  <1>1. CASE \E root \in Roots, epoch \in Epochs : BeginInstall(t, root, epoch)
    <2>1. PICK root \in Roots, epoch \in Epochs : BeginInstall(t, root, epoch)
      BY <1>1
    <2>2. TypeOK'
      BY <2>1 DEF IInv, TypeOK, BeginInstall, Starts, Epochs
    <2>3. Local(t)'
      BY <2>1 DEF IInv, TypeOK, BeginInstall, Starts, Local, Working
    <2> QED BY <2>1, <2>2, <2>3, StepInv
            DEF IInv, TypeOK, Fence, BeginInstall, Starts
  <1>2. CASE \E root \in Roots : Remove(t, root)
    <2>1. PICK root \in Roots : Remove(t, root)
      BY <1>2
    <2>2. TypeOK'
      BY <2>1 DEF IInv, TypeOK, Remove
    <2>3. Local(t)'
      BY <2>1 DEF IInv, TypeOK, Remove, Local, Working
    <2>4. \A s \in Shards : Unrouted(s) => Unrouted(s)'
      BY <2>1 DEF IInv, TypeOK, Unrouted, Remove
    <2> QED BY <2>1, <2>2, <2>3, <2>4, StepInv DEF IInv, TypeOK, Fence, Remove
  <1>3. CASE Install(t)
    <2>1. writer = t /\ call[t].root \in Roots
      BY <1>3 DEF IInv, TypeOK, Counted, Install, Returns
    <2>2. TypeOK'
      BY <1>3, <2>1 DEF IInv, TypeOK, Install, Returns, NoCall
    <2>3. Local(t)'
      BY <1>3 DEF IInv, TypeOK, Install, Returns, Local, Working
    <2>4. \A s \in Shards : Unrouted(s) => Unrouted(s)'
      BY <1>3, <2>1 DEF IInv, TypeOK, Unrouted, Shard, Install
    <2> QED BY <1>3, <2>1, <2>2, <2>3, <2>4, StepInv
            DEF IInv, TypeOK, Fence, Install, Returns
  <1> QED BY <1>1, <1>2, <1>3

LEMMA FailCloseInv ==
    ASSUME IInv, NEW t \in Threads,
           \/ \E root \in Roots : BeginFailClose(t, root)
           \/ CloseAdmission(t) \/ SignalLoss(t) \/ RemoveRoutes(t)
           \/ Sleep(t) \/ Drain(t)
    PROVE  IInv'
  <1> USE ShardAssumption
  <1>1. CASE \E root \in Roots : BeginFailClose(t, root)
    <2>1. PICK root \in Roots : BeginFailClose(t, root)
      BY <1>1
    <2>2. TypeOK' /\ writer # t
      BY <2>1 DEF IInv, TypeOK, BeginFailClose, Starts
    <2>3. Local(t)'
      BY <2>1 DEF IInv, TypeOK, BeginFailClose, Starts, Local, Working
    <2>4. \A s \in Shards : Unrouted(s) => Unrouted(s)'
      BY <2>1, <2>2 DEF IInv, TypeOK, Unrouted, Shard, BeginFailClose, Starts
    <2> QED BY <2>1, <2>2, <2>3, <2>4, StepInv
            DEF IInv, TypeOK, Fence, BeginFailClose, Starts
  <1>2. CASE CloseAdmission(t)
    <2>1. Shard(t) \in Shards
      BY <1>2 DEF IInv, TypeOK, CloseAdmission, Goto, Shard
    <2>2. TypeOK'
      BY <1>2, <2>1 DEF IInv, TypeOK, CloseAdmission, Goto
    <2>3. Local(t)'
      BY <1>2 DEF IInv, TypeOK, CloseAdmission, Goto, Local, Working
    <2>4. \A s \in Shards : Unrouted(s) => Unrouted(s)'
      BY <1>2 DEF Unrouted, Shard, CloseAdmission, Goto
    <2> QED BY <1>2, <2>2, <2>3, <2>4, StepInv
            DEF IInv, TypeOK, Fence, CloseAdmission, Goto
  <1>3. CASE SignalLoss(t)
    <2>1. TypeOK'
      BY <1>3 DEF IInv, TypeOK, SignalLoss, Goto
    <2>2. Local(t)'
      BY <1>3 DEF IInv, TypeOK, SignalLoss, Goto, Local, Working
    <2>3. \A s \in Shards : Unrouted(s) => Unrouted(s)'
      BY <1>3 DEF Unrouted, Shard, SignalLoss, Goto
    <2> QED BY <1>3, <2>1, <2>2, <2>3, StepInv
            DEF IInv, TypeOK, Fence, SignalLoss, Goto
  <1>4. CASE RemoveRoutes(t)
    <2>1. TypeOK' /\ lost
      BY <1>4 DEF IInv, TypeOK, Progress, RemoveRoutes, Goto
    <2>2. Unrouted(Shard(t))'
      BY <1>4 DEF IInv, TypeOK, Unrouted, RemoveRoutes, Goto, Shard
    <2>3. Local(t)'
      BY <1>4, <2>1, <2>2 DEF IInv, TypeOK, RemoveRoutes, Goto, Local, Working
    <2>4. \A s \in Shards : Unrouted(s) => Unrouted(s)'
      BY <1>4 DEF IInv, TypeOK, Unrouted, RemoveRoutes
    <2> QED BY <1>4, <2>1, <2>3, <2>4, StepInv
            DEF IInv, TypeOK, Fence, RemoveRoutes, Goto
  <1>5. CASE Drain(t)
    <2>1. /\ lost /\ Unrouted(Shard(t)) /\ permits[Shard(t)] = {}
          /\ Shard(t) \in Shards /\ writer # t
      BY <1>5 DEF IInv, TypeOK, Progress, Drain, Returns, Shard
    <2>2. TypeOK'
      BY <1>5, <2>1 DEF IInv, TypeOK, Drain, Returns, NoCall
    <2>3. Local(t)'
      BY <1>5 DEF IInv, TypeOK, Drain, Returns, Local, Working
    <2>4. \A s \in Shards : Unrouted(s) => Unrouted(s)'
      BY <1>5, <2>1 DEF IInv, TypeOK, Unrouted, Shard, Drain, Returns
    <2>5. \A s \in fenced' \ fenced :
            lost /\ Unrouted(s) /\ Unrouted(s)' /\ permits'[s] = {}
      BY <1>5, <2>1, <2>4 DEF Drain
    <2> QED BY <1>5, <2>1, <2>2, <2>3, <2>4, <2>5, StepInv
            DEF IInv, TypeOK, Fence, Drain, Returns
  <1>6. CASE Sleep(t)
    <2>1. TypeOK'
      BY <1>6 DEF IInv, TypeOK, Sleep
    <2>2. UNCHANGED <<Counted, Progress, Fence>>
      BY <1>6 DEF Sleep, Counted, Progress, Fence, Unrouted, Shard
    <2> QED BY <2>1, <2>2 DEF IInv
  <1> QED BY <1>1, <1>2, <1>3, <1>4, <1>5, <1>6

LEMMA NextInv == ASSUME IInv, [Next]_vars PROVE IInv'
  <1>1. ASSUME NEW t \in Threads, Begin(t) PROVE IInv'
    BY <1>1, DispatchInv, RouteInv, FailCloseInv DEF Begin
  <1>2. ASSUME NEW t \in Threads, Continue(t) PROVE IInv'
    BY <1>2, EnterInv, WorkInv, RouteInv, FailCloseInv DEF Continue
  <1>3. CASE UNCHANGED vars
    BY <1>3 DEF vars, IInv, TypeOK, Counted, Progress, Fence, Unrouted, Shard
  <1> QED BY <1>1, <1>2, <1>3 DEF Next

LEMMA Invariance == Spec => []IInv
  BY InitInv, NextInv, PTL DEF Spec

(* The registry keeps its types, and the write lock is never left behind.  *)
THEOREM TypeCorrect == Spec => []TypeOK
  <1>1. IInv => TypeOK
    BY DEF IInv
  <1> QED BY <1>1, Invariance, PTL

(* Once fail_closed_shard or fail_closed_runtime has returned, no request  *)
(* of the shard runs, no success of it is still being written, no object   *)
(* of it is being deleted and no route of it comes back.                   *)
THEOREM FailCloseFences == Spec => []FenceHolds
  <1>1. IInv => FenceHolds
    BY FenceFollows
  <1> QED BY <1>1, Invariance, PTL
=============================================================================
