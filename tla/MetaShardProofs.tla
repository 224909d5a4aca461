--------------------------- MODULE MetaShardProofs ---------------------------
(***************************************************************************)
(* Proofs about MetaShard, for every set of keys, requests and operations  *)
(* and every bound: an answered request was committed exactly once, stamps *)
(* are exact, lease deadlines hold, reads can be repeated and a successor  *)
(* that replays the log agrees with the shard, through any number of       *)
(* retries, restarts and losses of unacknowledged rows.                    *)
(*                                                                         *)
(* What holds of one store is stated as StoreInv(s) and HistoryInv(s) and  *)
(* kept by each transaction of the engine; what relates the live store to  *)
(* the durable one is Extends, and the answers are tied to the durable     *)
(* store.  That the log determines the store is carried as the existence   *)
(* of a story: the stores after each of its rows.                          *)
(***************************************************************************)
EXTENDS MetaShard, SequenceTheorems, TLAPS

Fields == {"owner", "clock", "lease", "fence", "rows", "history", "events",
           "dedupe", "outbox"}

Numbers(s) == s.clock \in Nat /\ s.lease \in Nat

IsSeq(log) == \E S : log \in Seq(S)
IsLog(s) == IsSeq(s.outbox)

IsCommand(row) == row.kind = "command"

\* Dedupe rows and command rows of the log name each other.
DedupeInv(s) ==
    /\ \A d \in s.dedupe :
         /\ d.lsn \in 1..Len(s.outbox)
         /\ IsCommand(s.outbox[d.lsn])
         /\ s.outbox[d.lsn].command = d.command
         /\ s.outbox[d.lsn].version = d.version
         /\ d.command.id = d.id
    /\ \A j \in 1..Len(s.outbox) :
         IsCommand(s.outbox[j]) =>
           \E d \in s.dedupe : d.id = s.outbox[j].command.id /\ d.lsn = j
    /\ \A d, e \in s.dedupe : d.id = e.id => d = e

StampInv(s) ==
    s.rows[StampKey] # None =>
        s.rows[StampKey].payload = s.rows[StampKey].modified

\* The lease clock bounds the observations of the log, and each deadline lies
\* beyond the observations before it.
DeadlineInv(s) ==
    /\ \A i \in 1..Len(s.outbox) :
         s.outbox[i].kind = "lease" => s.outbox[i].observed \in Nat
                                       /\ s.outbox[i].observed <= s.lease
    /\ \A i, j \in 1..Len(s.outbox) :
         /\ i < j /\ s.outbox[i].kind = "lease"
         /\ IsCommand(s.outbox[j]) /\ s.outbox[j].deadline # None
         => s.outbox[i].observed < s.outbox[j].deadline

StoreInv(s) ==
    /\ DOMAIN s = Fields
    /\ Numbers(s) /\ IsLog(s)
    /\ DedupeInv(s) /\ StampInv(s) /\ DeadlineInv(s)

\* Nothing a store has deduplicated is forgotten or changed by t.
Extends(t, s) == s.dedupe \subseteq t.dedupe

Stamped(c) ==
    StampKey \in DOMAIN c.writes => c.writes[StampKey] = c.read + 1

\* The result stands in the dedupe row of its request.
Recorded(s, a) ==
    \E d \in s.dedupe : /\ d.id = StepId(a.request) /\ d.version = a.version
                        /\ d.command.result = a.op

IInv ==
    /\ StoreInv(shard) /\ StoreInv(durable) /\ Extends(shard, durable)
    /\ session # None => session.request \in Requests /\ session.op \in Ops
    /\ plan # None => Stamped(plan)
    /\ \A a \in StepsOf(pending) : Recorded(shard, a)
    /\ \A a \in StepsOf(answers) : Recorded(durable, a)

-----------------------------------------------------------------------------
(* Appending to a log whose rows are not typed.                            *)
LEMMA AppendLog ==
    ASSUME NEW log, NEW row, IsSeq(log)
    PROVE  /\ IsSeq(Append(log, row))
           /\ Len(log) \in Nat
           /\ Len(Append(log, row)) = Len(log) + 1
           /\ \A i \in 1..Len(log) : Append(log, row)[i] = log[i]
           /\ Append(log, row)[Len(log) + 1] = row
  <1>1. PICK S : log \in Seq(S)
    BY DEF IsSeq
  <1> DEFINE T == S \cup {row}
  <1>2. log \in Seq(T)
    <2>1. /\ Len(log) \in Nat
          /\ log \in [1..Len(log) -> S]
      BY <1>1
    <2>2. log \in [1..Len(log) -> T]
      BY <2>1
    <2> QED BY <2>1, <2>2, IsASeq
  <1>3. row \in T
    OBVIOUS
  <1> HIDE DEF T
  <1>4. Append(log, row) \in Seq(T)
    BY <1>2, <1>3
  <1> QED BY <1>2, <1>3, <1>4, AppendProperties, LenProperties DEF IsSeq

(* A command keeps the store invariant and every dedupe row.               *)
LEMMA ExecutedInv ==
    ASSUME NEW s, StoreInv(s), NEW c, NEW deadline, Stamped(c),
           deadline \in Nat \cup {None},
           CommandAdmitted(s, c, deadline)
    PROVE  StoreInv(Executed(s, c, deadline))
           /\ Extends(Executed(s, c, deadline), s)
           /\ DedupeRow(s, c) \in Executed(s, c, deadline).dedupe
  <1> DEFINE t == Executed(s, c, deadline)
             row == CommandRow(s, c, deadline)
             n == Len(s.outbox)
  <1>0. /\ DOMAIN t = Fields
        /\ t.clock = s.clock + 1 /\ t.lease = s.lease
        /\ t.rows = Written(s, c, s.clock + 1)
        /\ t.dedupe = s.dedupe \cup {DedupeRow(s, c)}
        /\ t.outbox = Append(s.outbox, row)
    BY DEF StoreInv, Executed, Fields
  <1>1. /\ IsLog(t) /\ n \in Nat /\ Len(t.outbox) = n + 1
        /\ \A i \in 1..n : t.outbox[i] = s.outbox[i]
        /\ t.outbox[n + 1] = row
    <2>1. IsSeq(s.outbox)
      BY DEF StoreInv, IsLog
    <2> HIDE DEF t, row
    <2> QED BY <2>1, <1>0, AppendLog DEF IsLog
  <1>2. /\ IsCommand(row) /\ row.kind # "lease" /\ row.command = c
        /\ row.version = s.clock + 1 /\ row.deadline = deadline
    BY DEF CommandRow, IsCommand
  <1>3. /\ DedupeRow(s, c).id = c.id /\ DedupeRow(s, c).command = c
        /\ DedupeRow(s, c).version = s.clock + 1
        /\ DedupeRow(s, c).lsn = n + 1
    BY DEF DedupeRow
  <1>4. \A d \in s.dedupe : d.id # c.id
    BY DEF CommandAdmitted, Seen
  <1> HIDE DEF t, row
  <1>5. DedupeInv(t)
    <2>1. \A d \in t.dedupe :
            /\ d.lsn \in 1..Len(t.outbox)
            /\ IsCommand(t.outbox[d.lsn])
            /\ t.outbox[d.lsn].command = d.command
            /\ t.outbox[d.lsn].version = d.version
            /\ d.command.id = d.id
      <3> SUFFICES ASSUME NEW d \in t.dedupe
                   PROVE  /\ d.lsn \in 1..Len(t.outbox)
                          /\ IsCommand(t.outbox[d.lsn])
                          /\ t.outbox[d.lsn].command = d.command
                          /\ t.outbox[d.lsn].version = d.version
                          /\ d.command.id = d.id
        OBVIOUS
      <3>1. CASE d \in s.dedupe
        <4>1. d.lsn \in 1..n /\ t.outbox[d.lsn] = s.outbox[d.lsn]
          BY <3>1, <1>1 DEF StoreInv, DedupeInv
        <4> QED BY <3>1, <4>1, <1>1 DEF StoreInv, DedupeInv
      <3>2. CASE d = DedupeRow(s, c)
        BY <3>2, <1>1, <1>2, <1>3
      <3> QED BY <1>0, <3>1, <3>2
    <2>2. \A j \in 1..Len(t.outbox) :
            IsCommand(t.outbox[j]) =>
              \E d \in t.dedupe : d.id = t.outbox[j].command.id /\ d.lsn = j
      <3> SUFFICES ASSUME NEW j \in 1..Len(t.outbox), IsCommand(t.outbox[j])
                   PROVE  \E d \in t.dedupe :
                            d.id = t.outbox[j].command.id /\ d.lsn = j
        OBVIOUS
      <3>1. CASE j \in 1..n
        BY <3>1, <1>0, <1>1 DEF StoreInv, DedupeInv
      <3>2. CASE j = n + 1
        BY <3>2, <1>0, <1>1, <1>2, <1>3
      <3> QED BY <1>1, <3>1, <3>2
    <2>3. \A d, e \in t.dedupe : d.id = e.id => d = e
      BY <1>0, <1>3, <1>4 DEF StoreInv, DedupeInv
    <2> QED BY <2>1, <2>2, <2>3 DEF DedupeInv
  <1>6. StampInv(t)
    <2>1. CASE StampKey \in DOMAIN c.writes
      <3>1. c.writes[StampKey] = s.clock + 1
        BY <2>1 DEF Stamped, CommandAdmitted
      <3>2. t.rows[StampKey] # None =>
              /\ t.rows[StampKey].payload = c.writes[StampKey]
              /\ t.rows[StampKey].modified = s.clock + 1
        BY <2>1, <1>0, StampAssumption DEF Written
      <3> QED BY <3>1, <3>2 DEF StampInv
    <2>2. CASE StampKey \notin DOMAIN c.writes
      <3>1. t.rows[StampKey] = s.rows[StampKey]
        BY <2>2, <1>0, StampAssumption DEF Written
      <3> QED BY <3>1 DEF StoreInv, StampInv
    <2> QED BY <2>1, <2>2
  <1>7. DeadlineInv(t)
    <2>1. deadline # None => s.lease < deadline
      BY DEF CommandAdmitted
    <2>2. \A i \in 1..Len(t.outbox) : t.outbox[i].kind = "lease" =>
            i \in 1..n /\ t.outbox[i].observed \in Nat
            /\ t.outbox[i].observed <= t.lease
      BY <1>0, <1>1, <1>2 DEF StoreInv, DeadlineInv
    <2>3. ASSUME NEW i \in 1..Len(t.outbox), NEW j \in 1..Len(t.outbox),
                 i < j, t.outbox[i].kind = "lease",
                 IsCommand(t.outbox[j]), t.outbox[j].deadline # None
          PROVE  t.outbox[i].observed < t.outbox[j].deadline
      <3>1. CASE j \in 1..n
        BY <3>1, <2>2, <2>3, <1>1 DEF StoreInv, DeadlineInv
      <3>2. CASE j = n + 1
        <4>1. /\ t.outbox[i].observed \in Nat
              /\ t.outbox[i].observed <= s.lease
          BY <2>2, <2>3, <1>0
        <4>2. s.lease < t.outbox[j].deadline
          BY <3>2, <1>1, <1>2, <2>1, <2>3
        <4>3. t.outbox[j].deadline \in Nat
          BY <3>2, <1>1, <1>2, <2>3
        <4> QED BY <4>1, <4>2, <4>3 DEF StoreInv, Numbers
      <3> QED BY <1>1, <3>1, <3>2
    <2> QED BY <2>2, <2>3 DEF DeadlineInv
  <1>8. Numbers(t)
    BY <1>0 DEF StoreInv, Numbers
  <1> QED BY <1>0, <1>1, <1>5, <1>6, <1>7, <1>8 DEF StoreInv, Extends, t

(* So does a transaction that only logs another kind of row.               *)
LEMMA OtherRowInv ==
    ASSUME NEW s, StoreInv(s), NEW t, NEW row, DOMAIN t = Fields,
           t.clock = s.clock, t.rows = s.rows, t.dedupe = s.dedupe,
           t.lease \in Nat, s.lease <= t.lease,
           t.outbox = Append(s.outbox, row), row.kind # "command",
           row.kind = "lease" => row.observed \in Nat
                                 /\ row.observed <= t.lease
    PROVE  StoreInv(t) /\ Extends(t, s)
  <1> DEFINE n == Len(s.outbox)
  <1>1. /\ IsLog(t) /\ n \in Nat /\ Len(t.outbox) = n + 1
        /\ \A i \in 1..n : t.outbox[i] = s.outbox[i]
        /\ t.outbox[n + 1] = row
    <2>1. IsSeq(s.outbox)
      BY DEF StoreInv, IsLog
    <2> QED BY <2>1, AppendLog DEF IsLog
  <1>2. DedupeInv(t)
    <2>1. \A d \in t.dedupe :
            /\ d.lsn \in 1..n /\ t.outbox[d.lsn] = s.outbox[d.lsn]
            /\ d.lsn \in 1..Len(t.outbox)
      BY <1>1 DEF StoreInv, DedupeInv
    <2>2. \A j \in 1..Len(t.outbox) : IsCommand(t.outbox[j]) =>
            j \in 1..n /\ t.outbox[j] = s.outbox[j]
      BY <1>1 DEF IsCommand
    <2> QED BY <2>1, <2>2 DEF StoreInv, DedupeInv
  <1>3. StampInv(t)
    BY DEF StoreInv, StampInv
  <1>4. DeadlineInv(t)
    <2>1. \A i \in 1..Len(t.outbox) : t.outbox[i].kind = "lease" =>
            /\ t.outbox[i].observed \in Nat
            /\ t.outbox[i].observed <= t.lease
      <3> SUFFICES ASSUME NEW i \in 1..Len(t.outbox),
                          t.outbox[i].kind = "lease"
                   PROVE  /\ t.outbox[i].observed \in Nat
                          /\ t.outbox[i].observed <= t.lease
        OBVIOUS
      <3>1. CASE i \in 1..n
        BY <3>1, <1>1 DEF StoreInv, DeadlineInv, Numbers
      <3>2. CASE i = n + 1
        BY <3>2, <1>1
      <3> QED BY <1>1, <3>1, <3>2
    <2>2. ASSUME NEW i \in 1..Len(t.outbox), NEW j \in 1..Len(t.outbox),
                 i < j, t.outbox[i].kind = "lease",
                 IsCommand(t.outbox[j]), t.outbox[j].deadline # None
          PROVE  t.outbox[i].observed < t.outbox[j].deadline
      <3>1. j \in 1..n /\ i \in 1..n
        BY <2>2, <1>1 DEF IsCommand
      <3> QED BY <2>2, <3>1, <1>1 DEF StoreInv, DeadlineInv
    <2> QED BY <2>1, <2>2 DEF DeadlineInv
  <1> QED BY <1>1, <1>2, <1>3, <1>4 DEF StoreInv, Numbers, Extends

LEMMA EpochAdvancedInv ==
    ASSUME NEW s, StoreInv(s), NEW expected, NEW next
    PROVE  StoreInv(EpochAdvanced(s, expected, next))
           /\ Extends(EpochAdvanced(s, expected, next), s)
  <1> DEFINE t == EpochAdvanced(s, expected, next)
             row == [kind |-> "epoch", expected |-> expected, next |-> next]
  <1>1. /\ DOMAIN t = Fields /\ t.clock = s.clock /\ t.rows = s.rows
        /\ t.dedupe = s.dedupe /\ t.lease = s.lease
        /\ t.outbox = Append(s.outbox, row)
    BY DEF StoreInv, EpochAdvanced, Fields
  <1>2. row.kind # "command" /\ row.kind # "lease"
    OBVIOUS
  <1> HIDE DEF t, row
  <1>3. t.lease \in Nat /\ s.lease <= t.lease
    BY <1>1 DEF StoreInv, Numbers
  <1>4. StoreInv(t) /\ Extends(t, s)
    BY <1>1, <1>2, <1>3, OtherRowInv
  <1> QED BY <1>4 DEF t

LEMMA LeaseObservedInv ==
    ASSUME NEW s, StoreInv(s), NEW generation, NEW observed \in Nat,
           s.lease < observed
    PROVE  StoreInv(LeaseObserved(s, generation, observed))
           /\ Extends(LeaseObserved(s, generation, observed), s)
  <1> DEFINE t == LeaseObserved(s, generation, observed)
             row == [kind |-> "lease", generation |-> generation,
                     epoch |-> s.owner, observed |-> observed]
  <1>1. /\ DOMAIN t = Fields /\ t.clock = s.clock /\ t.rows = s.rows
        /\ t.dedupe = s.dedupe /\ t.lease = observed
        /\ t.outbox = Append(s.outbox, row)
    BY DEF StoreInv, LeaseObserved, Fields
  <1>2. row.kind = "lease" /\ row.observed = observed
    OBVIOUS
  <1> HIDE DEF t, row
  <1>3. /\ t.lease \in Nat /\ s.lease <= t.lease
        /\ row.observed \in Nat /\ row.observed <= t.lease
    BY <1>1, <1>2 DEF StoreInv, Numbers
  <1>4. row.kind # "command"
    BY <1>2
  <1>5. StoreInv(t) /\ Extends(t, s)
    BY <1>1, <1>3, <1>4, OtherRowInv
  <1> QED BY <1>5 DEF t

-----------------------------------------------------------------------------
(* What a store has recorded, an extension of it has recorded too.         *)
LEMMA RecordedKept ==
    ASSUME NEW s, NEW t, Extends(t, s), NEW a, Recorded(s, a)
    PROVE  Recorded(t, a)
  BY DEF Extends, Recorded

LEMMA InitInv == Init => IInv
  <1> SUFFICES ASSUME Init PROVE IInv
    OBVIOUS
  <1>1. /\ DOMAIN Fresh = Fields
        /\ Fresh.clock = 1 /\ Fresh.lease = 0 /\ Fresh.dedupe = {}
        /\ Fresh.outbox = <<>> /\ Fresh.rows = [k \in Keys |-> None]
    BY DEF Fresh, Fields
  <1>2. Len(<<>>) = 0 /\ <<>> \in Seq({})
    OBVIOUS
  <1>3. StampInv(Fresh)
    BY <1>1, StampAssumption DEF StampInv
  <1>4. DedupeInv(Fresh) /\ DeadlineInv(Fresh)
    BY <1>1, <1>2 DEF DedupeInv, DeadlineInv
  <1>5. IsLog(Fresh) /\ Numbers(Fresh)
    BY <1>1, <1>2 DEF IsLog, IsSeq, Numbers
  <1>6. StoreInv(Fresh)
    BY <1>1, <1>3, <1>4, <1>5 DEF StoreInv
  <1>7. StepsOf({}) = {}
    BY DEF StepsOf
  <1> QED BY <1>6, <1>7 DEF Init, IInv, Extends

(* A step that extends the live store and leaves the rest to the session.  *)
LEMMA LiveStoreInv ==
    ASSUME IInv, StoreInv(shard'), Extends(shard', shard),
           durable' \in {durable, shard'},
           UNCHANGED <<session, plan, pending, answers>>
    PROVE  IInv'
  <1>1. Extends(shard', durable) /\ Extends(shard', shard')
    BY DEF IInv, Extends
  <1>2. \A a \in StepsOf(pending) : Recorded(shard', a)
    BY RecordedKept DEF IInv
  <1>3. \A a \in StepsOf(answers) : Recorded(durable', a)
    BY <1>1, RecordedKept DEF IInv
  <1> QED BY <1>1, <1>2, <1>3 DEF IInv

(* Commands the clients' steps and the bootstrap build.                    *)
LEMMA CommandStamped ==
    ASSUME NEW s, NEW id, NEW read, NEW action, NEW writes, NEW event,
           NEW result,
           StampKey \in DOMAIN writes => writes[StampKey] = read + 1
    PROVE  /\ Stamped(Command(s, id, read, action, writes, event, result))
           /\ Command(s, id, read, action, writes, event, result).id = id
           /\ Command(s, id, read, action, writes, event, result).result = result
           /\ Command(s, id, read, action, writes, event, result).read = read
  BY DEF Command, Stamped

LEMMA BootstrapInv ==
    ASSUME IInv,
           \/ Activate \/ Install(None) \/ Install(Namespace)
           \/ BindObjectNamespace \/ ActivateRoot
    PROVE  IInv'
  <1>1. CASE Activate
    <2>1. StoreInv(shard') /\ Extends(shard', shard)
      BY <1>1, EpochAdvancedInv DEF Activate, IInv
    <2> QED BY <1>1, <2>1, LiveStoreInv DEF Activate
  <1>2. ASSUME NEW id, NEW action, NEW namespace,
               FenceCommand(id, action, namespace)
        PROVE  IInv'
    <2> DEFINE b == Command(shard, id, shard.clock, action, Empty, FALSE, id)
               c == [b EXCEPT !.namespace = namespace]
    <2>1. c.writes = Empty
      BY DEF Command
    <2>2. Stamped(c)
      BY <2>1 DEF Stamped, Empty
    <2>3. /\ CommandAdmitted(shard, c, None) /\ shard' = Executed(shard, c, None)
          /\ durable' = shard' /\ UNCHANGED <<session, plan, pending, answers>>
      BY <1>2 DEF FenceCommand
    <2> HIDE DEF c
    <2>4. StoreInv(shard') /\ Extends(shard', shard)
      BY <2>2, <2>3, ExecutedInv DEF IInv
    <2> QED BY <2>3, <2>4, LiveStoreInv
  <1> QED BY <1>1, <1>2 DEF Install, BindObjectNamespace, ActivateRoot

LEMMA BeginRpcInv ==
    ASSUME IInv, NEW r \in Requests, NEW op \in Ops, BeginRpc(r, op)
    PROVE  IInv'
  <1> DEFINE c == Command(shard, ClaimId(r), shard.clock, NoAction, Empty,
                          FALSE, op)
  <1>1. StoreInv(shard') /\ Extends(shard', shard)
    <2>1. CASE shard' = shard
      BY <2>1 DEF IInv, Extends
    <2>2. CASE CommandAdmitted(shard, c, None) /\ shard' = Executed(shard, c, None)
      <3>1. Stamped(c)
        BY CommandStamped DEF Empty
      <3> HIDE DEF c
      <3> QED BY <2>2, <3>1, ExecutedInv DEF IInv
    <2> QED BY <2>1, <2>2 DEF BeginRpc
  <1>2. /\ session' = [request |-> r, op |-> op] /\ durable' = durable
        /\ UNCHANGED <<plan, pending, answers>>
    BY DEF BeginRpc
  <1>3. Extends(shard', durable)
    BY <1>1 DEF IInv, Extends
  <1>4. \A a \in StepsOf(pending) : Recorded(shard', a)
    BY <1>1, RecordedKept DEF IInv
  <1> QED BY <1>1, <1>2, <1>3, <1>4 DEF IInv

(* A step result that its dedupe row backs may wait for its answer.        *)
LEMMA ResultInv ==
    ASSUME IInv, StoreInv(shard'), Extends(shard', shard), EndSession,
           NEW r \in Requests, NEW op, NEW version,
           pending' = pending \cup {Result(r, op, version)},
           \E d \in shard'.dedupe : d.id = StepId(r) /\ d.version = version
                                     /\ d.command.result = op
    PROVE  IInv'
  <1>1. Recorded(shard', Result(r, op, version))
    BY DEF Recorded, Result
  <1>2. \A a \in StepsOf(pending') : Recorded(shard', a)
    BY <1>1, RecordedKept DEF IInv, StepsOf
  <1>3. Extends(shard', durable)
    BY DEF IInv, Extends
  <1> QED BY <1>2, <1>3 DEF IInv, EndSession

LEMMA StepInv ==
    ASSUME IInv, ReplayStep \/ ExecuteStep \/ RefuseStep
    PROVE  IInv'
  <1> DEFINE r == session.request
             op == session.op
             c == StepCommand(r, op)
  <1>0. session # None /\ r \in Requests /\ op \in Ops
    BY DEF IInv, ReplayStep, ExecuteStep, RefuseStep
  <1>1. c.result = op /\ c.id = StepId(r) /\ Stamped(c)
    <2>1. StampKey \notin DOMAIN op.writes
      BY <1>0, StampAssumption
    <2> DEFINE seen == Seen(shard, StepId(r))
               read == IF seen = {} THEN shard.clock
                       ELSE (CHOOSE d \in seen : TRUE).version - 1
               w == op.writes
    <2>2. c = Command(shard, StepId(r), read, NoAction, w, TRUE, op)
      BY DEF StepCommand
    <2>3. StampKey \in DOMAIN w => w[StampKey] = read + 1
      BY <2>1
    <2> HIDE DEF r, op, c, seen, read, w
    <2>4. LET b == Command(shard, StepId(r), read, NoAction, w, TRUE, op)
          IN  Stamped(b) /\ b.id = StepId(r) /\ b.result = op
      BY <2>3 DEF Command, Stamped
    <2> QED BY <2>2, <2>4
  <1>2. CASE ReplayStep
    <2>1. PICK d \in shard.dedupe :
            /\ d.id = StepId(r) /\ StepReplays(d, r, op)
            /\ pending' = pending \cup {Result(r, op, d.version)}
      BY <1>2 DEF ReplayStep, Seen
    <2>2. d.command.result = op
      BY <2>1, <1>1 DEF StepReplays
    <2>3. shard' = shard /\ EndSession
      BY <1>2 DEF ReplayStep
    <2>4. StoreInv(shard') /\ Extends(shard', shard)
      BY <2>3 DEF IInv, Extends
    <2> QED BY <1>0, <2>1, <2>2, <2>3, <2>4, ResultInv
  <1>3. CASE ExecuteStep
    <2>1. /\ CommandAdmitted(shard, c, op.deadline)
          /\ shard' = Executed(shard, c, op.deadline)
          /\ pending' = pending \cup {Result(r, op, shard.clock + 1)}
          /\ EndSession
      BY <1>3 DEF ExecuteStep
    <2>2. op.deadline \in Nat \cup {None}
      BY <1>0, DeadlineAssumption
    <2> HIDE DEF c
    <2>3. /\ StoreInv(shard') /\ Extends(shard', shard)
          /\ DedupeRow(shard, c) \in shard'.dedupe
      BY <1>1, <2>1, <2>2, ExecutedInv DEF IInv
    <2>4. \E d \in shard'.dedupe : d.id = StepId(r)
                                    /\ d.version = shard.clock + 1
                                    /\ d.command.result = op
      BY <1>1, <2>3 DEF DedupeRow
    <2> QED BY <1>0, <2>1, <2>3, <2>4, ResultInv
  <1>4. CASE RefuseStep
    BY <1>4 DEF RefuseStep, EndSession, IInv
  <1> QED BY <1>2, <1>3, <1>4

LEMMA WorkInv ==
    ASSUME IInv,
           \/ \E j \in Jobs : PlanJob(j)
           \/ RunJob
           \/ \E observed \in 1..MaxLease : ObserveLease(observed)
    PROVE  IInv'
  <1>1. CASE \E j \in Jobs : PlanJob(j)
    <2>1. PICK j \in Jobs : PlanJob(j)
      BY <1>1
    <2>2. Stamped(plan')
      <3> DEFINE w == [k \in {StampKey} |-> shard.clock + 1]
      <3>1. w[StampKey] = shard.clock + 1
        OBVIOUS
      <3> HIDE DEF w
      <3>2. Stamped(Command(shard, JobId(j), shard.clock, NoAction, w, FALSE, j))
        BY <3>1, CommandStamped
      <3> QED BY <2>1, <3>2 DEF PlanJob, w
    <2> QED BY <2>1, <2>2 DEF PlanJob, IInv
  <1>2. CASE RunJob
    <2>1. StoreInv(shard') /\ Extends(shard', shard)
      <3>1. CASE CommandAdmitted(shard, plan, None)
        BY <1>2, <3>1, ExecutedInv DEF RunJob, IInv
      <3>2. CASE ~CommandAdmitted(shard, plan, None)
        BY <1>2, <3>2 DEF RunJob, IInv, Extends
      <3> QED BY <3>1, <3>2
    <2>2. /\ plan' = None /\ durable' = durable
          /\ UNCHANGED <<session, pending, answers>>
      BY <1>2 DEF RunJob
    <2>3. \A a \in StepsOf(pending) : Recorded(shard', a)
      BY <2>1, RecordedKept DEF IInv
    <2> QED BY <2>1, <2>2, <2>3 DEF IInv, Extends
  <1>3. CASE \E observed \in 1..MaxLease : ObserveLease(observed)
    <2>1. PICK observed \in 1..MaxLease : ObserveLease(observed)
      BY <1>3
    <2>2. observed \in Nat /\ shard.lease < observed
      BY <2>1, DeadlineAssumption DEF ObserveLease, LeaseAdmitted
    <2>3. StoreInv(shard') /\ Extends(shard', shard)
      BY <2>1, <2>2, LeaseObservedInv DEF ObserveLease, IInv
    <2> QED BY <2>1, <2>3, LiveStoreInv DEF ObserveLease
  <1> QED BY <1>1, <1>2, <1>3

LEMMA AnswerInv ==
    ASSUME IInv,
           \/ \E result \in pending : Acknowledge(result)
           \/ \E k \in Keys \ Bodies, version \in 1..shard.clock :
                Read(k, version)
           \/ Crash
           \/ Replay
    PROVE  IInv'
  <1>1. CASE \E result \in pending : Acknowledge(result)
    <2>1. PICK result \in pending : Acknowledge(result)
      BY <1>1
    <2>2. /\ durable' = shard /\ UNCHANGED <<shard, session, plan>>
          /\ pending' = pending \ {result} /\ answers' = answers \cup {result}
      BY <2>1 DEF Acknowledge
    <2>3. \A a \in StepsOf(answers) : Recorded(shard, a)
      BY RecordedKept DEF IInv
    <2>4. \A a \in StepsOf(answers') : Recorded(shard, a)
      BY <2>2, <2>3 DEF IInv, StepsOf
    <2>5. \A a \in StepsOf(pending') : Recorded(shard, a)
      BY <2>2 DEF IInv, StepsOf
    <2> QED BY <2>2, <2>4, <2>5 DEF IInv, Extends
  <1>2. CASE \E k \in Keys \ Bodies, version \in 1..shard.clock :
               Read(k, version)
    <2>1. PICK k \in Keys \ Bodies, version \in 1..shard.clock :
            Read(k, version)
      BY <1>2
    <2> DEFINE a == ReadResult(k, version, ReadAt(shard, k, version))
    <2>2. a \notin StepsOf({a})
      BY DEF ReadResult, StepsOf
    <2>3. /\ pending' = pending \cup {a}
          /\ UNCHANGED <<shard, durable, session, plan, answers>>
      BY <2>1 DEF Read
    <2> HIDE DEF a
    <2>4. StepsOf(pending') = StepsOf(pending)
      BY <2>2, <2>3 DEF StepsOf
    <2> QED BY <2>3, <2>4 DEF IInv
  <1>3. CASE Crash
    <2>1. StepsOf({}) = {}
      BY DEF StepsOf
    <2>2. /\ shard' \in {shard, durable} /\ durable' = shard'
          /\ session' = None /\ plan' = None /\ pending' = {}
          /\ answers' = answers
      BY <1>3 DEF Crash
    <2>3. \A x \in StepsOf(answers) : Recorded(shard', x)
      BY <2>2, RecordedKept DEF IInv
    <2>4. StoreInv(shard') /\ Extends(shard', shard')
      BY <2>2 DEF IInv, Extends
    <2> QED BY <2>1, <2>2, <2>3, <2>4 DEF IInv
  <1>4. CASE Replay
    BY <1>4 DEF Replay, IInv
  <1> QED BY <1>1, <1>2, <1>3, <1>4

LEMMA NextInv == IInv /\ [Next]_vars => IInv'
  <1> SUFFICES ASSUME IInv, [Next]_vars PROVE IInv'
    OBVIOUS
  <1>1. CASE UNCHANGED vars
    BY <1>1 DEF vars, IInv
  <1>2. CASE Next
    BY <1>2, BootstrapInv, BeginRpcInv, StepInv, WorkInv, AnswerInv
       DEF Next, Serve, Background
  <1> QED BY <1>1, <1>2

LEMMA Invariance == Spec => []IInv
  BY InitInv, NextInv, PTL DEF Spec

(* Every answer a client received, whatever was retried or lost with a     *)
(* crash after write_session acknowledged it, names the only commit of its *)
(* request in the log of the live store.                                   *)
THEOREM ExactlyOnce == Spec => []AnsweredExactlyOnce
  <1>1. IInv => AnsweredExactlyOnce
    <2> SUFFICES ASSUME IInv, NEW a \in StepsOf(answers)
                 PROVE  \E i \in 1..Len(shard.outbox) :
                          /\ shard.outbox[i].kind = "command"
                          /\ shard.outbox[i].command.id = StepId(a.request)
                          /\ shard.outbox[i].version = a.version
                          /\ shard.outbox[i].command.result = a.op
                          /\ \A j \in 1..Len(shard.outbox) :
                               /\ shard.outbox[j].kind = "command"
                               /\ shard.outbox[j].command.id
                                    = StepId(a.request)
                               => j = i
      BY DEF AnsweredExactlyOnce
    <2>1. PICK d \in shard.dedupe :
            /\ d.id = StepId(a.request) /\ d.version = a.version
            /\ d.command.result = a.op
      BY DEF IInv, Recorded, Extends
    <2>2. /\ d.lsn \in 1..Len(shard.outbox)
          /\ shard.outbox[d.lsn].kind = "command"
          /\ shard.outbox[d.lsn].command = d.command
          /\ shard.outbox[d.lsn].version = d.version
          /\ d.command.id = d.id
      BY DEF IInv, StoreInv, DedupeInv, IsCommand
    <2>3. ASSUME NEW j \in 1..Len(shard.outbox),
                 shard.outbox[j].kind = "command",
                 shard.outbox[j].command.id = StepId(a.request)
          PROVE  j = d.lsn
      <3>1. PICK e \in shard.dedupe :
              e.id = shard.outbox[j].command.id /\ e.lsn = j
        BY <2>3 DEF IInv, StoreInv, DedupeInv, IsCommand
      <3>2. e = d
        BY <3>1, <2>1, <2>3 DEF IInv, StoreInv, DedupeInv
      <3> QED BY <3>1, <3>2
    <2> QED BY <2>1, <2>2, <2>3
  <1> QED BY <1>1, Invariance, PTL

(* A version that execute's exact read fence let a planner predict is the  *)
(* version its record commits at.                                          *)
THEOREM StampExact == Spec => []StampsAreExact
  <1>1. IInv => StampsAreExact
    BY DEF IInv, StoreInv, StampInv, StampsAreExact
  <1> QED BY <1>1, Invariance, PTL

(* No command guarded by a lease deadline is logged after the lease clock  *)
(* was observed at or beyond the deadline.                                 *)
THEOREM DeadlinesKept == Spec => []DeadlinesHold
  <1>1. IInv => DeadlinesHold
    BY DEF IInv, StoreInv, DeadlineInv, DeadlinesHold, IsCommand
  <1> QED BY <1>1, Invariance, PTL

-----------------------------------------------------------------------------
(* Versions: what a retained version of a row reads does not change, and   *)
(* the log alone determines the store.                                     *)

\* The keys whose replaced values go to History.
Kept == Keys \ Bodies

\* A row is no younger than the clock, and follows what History has of it.
HistoryInv(s) ==
    /\ s.owner \in Nat /\ s.clock \in Nat
    /\ \A k \in Kept : s.rows[k] # None =>
         s.rows[k].modified \in Nat /\ s.rows[k].modified <= s.clock
    /\ \A h \in s.history : h.key \in Kept =>
         /\ h.modified \in Nat /\ h.transition \in Nat /\ h.transition <= s.clock
         /\ s.rows[h.key] # None => h.transition <= s.rows[h.key].modified

\* The history rows that may answer a read.
Old(s, k, version) == {h \in s.history : h.key = k /\ h.modified <= version
                                                  /\ version < h.transition}

OldPayload(rows) == (CHOOSE h \in rows : TRUE).payload

KeepsReads(s, t) ==
    /\ s.clock <= t.clock
    /\ \A k \in Kept, v \in 0..s.clock : ReadAt(t, k, v) = ReadAt(s, k, v)

\* t is s after one more row of the log, and replay accepts that row.
Logged(s, t) ==
    /\ HistoryInv(t) /\ KeepsReads(s, t)
    /\ \E row : /\ t.outbox = Append(s.outbox, row)
                /\ ReplayAdmitted(s, row) /\ t = Replayed(s, row)

LEMMA ReadByCases ==
    ASSUME NEW s, NEW k, NEW v
    PROVE  ReadAt(s, k, v) =
             IF s.rows[k] # None /\ s.rows[k].modified <= v THEN s.rows[k].payload
             ELSE IF Old(s, k, v) = {} THEN None
             ELSE OldPayload(Old(s, k, v))
  BY DEF ReadAt, Old, OldPayload

(* A read at the clock is a read of the current row.                       *)
LEMMA ReadNow ==
    ASSUME NEW s, HistoryInv(s), NEW k \in Kept
    PROVE  ReadAt(s, k, s.clock) = Payload(s, k)
  <1>1. Old(s, k, s.clock) = {}
    BY DEF Old, HistoryInv
  <1>2. s.rows[k] # None => s.rows[k].modified <= s.clock
    BY DEF HistoryInv
  <1> QED BY <1>1, <1>2, ReadByCases DEF Payload

(* A command leaves every earlier version of a kept row readable.          *)
LEMMA CommandLogs ==
    ASSUME NEW s, DOMAIN s = Fields, HistoryInv(s), NEW c, NEW deadline,
           CommandAdmitted(s, c, deadline), NEW t, t = Executed(s, c, deadline)
    PROVE  Logged(s, t)
  <1> DEFINE version == s.clock + 1
             Past(k) == [key |-> k, transition |-> version, created |-> s.rows[k].created,
                         modified |-> s.rows[k].modified, payload |-> s.rows[k].payload]
             row == CommandRow(s, c, deadline)
  <1>1. /\ t.clock = version /\ t.owner = s.owner
        /\ t.rows = Written(s, c, version)
        /\ t.history = s.history \cup {Past(k) : k \in Replaced(s, c)}
        /\ t.outbox = Append(s.outbox, row)
    BY DEF Executed, Fields
  <1>2. /\ row.kind = "command" /\ row.command = c /\ row.deadline = deadline
    BY DEF CommandRow
  <1>3. ReplayAdmitted(s, row) /\ t = Replayed(s, row)
    BY <1>2 DEF ReplayAdmitted, Replayed
  <1>4. s.clock \in Nat /\ version \in Nat /\ s.clock < version
    BY DEF HistoryInv
  <1>5. /\ \A k \in Keys : k \notin DOMAIN c.writes => t.rows[k] = s.rows[k]
        /\ \A k \in Keys : k \in DOMAIN c.writes =>
             t.rows[k] = None \/ t.rows[k].modified = version
    BY <1>1 DEF Written
  <1>6. /\ \A k : Past(k).key = k /\ Past(k).transition = version
                  /\ Past(k).modified = s.rows[k].modified
                  /\ Past(k).payload = s.rows[k].payload
    OBVIOUS
  <1>7. /\ \A k \in Kept : k \in Replaced(s, c) <=>
                           k \in DOMAIN c.writes /\ s.rows[k] # None
    BY DEF Replaced, Kept
  <1> HIDE DEF row, Past, version
  <1>8. HistoryInv(t)
    <2>1. ASSUME NEW k \in Kept, t.rows[k] # None
          PROVE  t.rows[k].modified \in Nat /\ t.rows[k].modified <= t.clock
      <3>1. CASE k \in DOMAIN c.writes
        BY <1>1, <1>4, <1>5, <2>1, <3>1 DEF Kept
      <3>2. CASE k \notin DOMAIN c.writes
        BY <1>1, <1>4, <1>5, <2>1, <3>2 DEF Kept, HistoryInv
      <3> QED BY <3>1, <3>2
    <2>2. ASSUME NEW h \in t.history, h.key \in Kept
          PROVE  /\ h.modified \in Nat /\ h.transition \in Nat /\ h.transition <= t.clock
                 /\ t.rows[h.key] # None => h.transition <= t.rows[h.key].modified
      <3>1. CASE h \in s.history
        <4>1. /\ h.modified \in Nat /\ h.transition \in Nat /\ h.transition <= s.clock
              /\ s.rows[h.key] # None => h.transition <= s.rows[h.key].modified
          BY <2>2, <3>1 DEF HistoryInv
        <4> QED BY <1>1, <1>4, <1>5, <2>2, <4>1 DEF Kept
      <3>2. ASSUME NEW k \in Replaced(s, c), h = Past(k)
            PROVE  /\ h.modified \in Nat /\ h.transition \in Nat /\ h.transition <= t.clock
                   /\ t.rows[h.key] # None => h.transition <= t.rows[h.key].modified
        <4>1. h.key = k /\ h.transition = version /\ h.modified = s.rows[k].modified
          BY <1>6, <3>2
        <4>2. k \in Kept /\ k \in DOMAIN c.writes /\ s.rows[k] # None
          BY <1>7, <2>2, <3>2, <4>1
        <4>3. s.rows[k].modified \in Nat
          BY <4>2 DEF HistoryInv
        <4> QED BY <1>1, <1>4, <1>5, <4>1, <4>2, <4>3 DEF Kept
      <3> QED BY <1>1, <2>2, <3>1, <3>2
    <2>3. t.owner \in Nat /\ t.clock \in Nat
      BY <1>1, <1>4 DEF HistoryInv
    <2> QED BY <2>1, <2>2, <2>3 DEF HistoryInv
  <1>9. ASSUME NEW k \in Kept, NEW v \in 0..s.clock
        PROVE  ReadAt(t, k, v) = ReadAt(s, k, v)
    <2>1. k \in Keys /\ v \in Nat /\ v < version /\ v <= s.clock
      BY <1>4 DEF Kept
    <2>2. CASE k \notin DOMAIN c.writes \/ s.rows[k] = None
      <3>1. k \notin Replaced(s, c)
        BY <1>7, <2>2
      <3>2. Old(t, k, v) = Old(s, k, v)
        BY <1>1, <1>6, <3>1 DEF Old
      <3>3. t.rows[k] = s.rows[k] \/ (s.rows[k] = None /\ (t.rows[k] = None \/ t.rows[k].modified = version))
        BY <1>5, <2>1, <2>2
      <3>4. CASE t.rows[k] = s.rows[k]
        BY <3>2, <3>4, ReadByCases
      <3>5. CASE s.rows[k] = None /\ (t.rows[k] = None \/ t.rows[k].modified = version)
        <4>1. ~(t.rows[k] # None /\ t.rows[k].modified <= v)
          BY <1>4, <2>1, <3>5
        <4> QED BY <3>2, <3>5, <4>1, ReadByCases
      <3> QED BY <3>3, <3>4, <3>5
    <2>3. CASE k \in DOMAIN c.writes /\ s.rows[k] # None
      <3>1. t.rows[k] = None \/ ~(t.rows[k].modified <= v)
        BY <1>4, <1>5, <2>1, <2>3
      <3>2. k \in Replaced(s, c) /\ s.rows[k].modified \in Nat
        BY <1>7, <2>3 DEF HistoryInv
      <3>3. \A h \in t.history : h.key = k => h \in s.history \/ h = Past(k)
        BY <1>1, <1>6
      <3>4. Past(k) \in t.history
        BY <1>1, <3>2
      <3>5. CASE s.rows[k].modified <= v
        <4>1. \A h \in s.history : h.key = k => ~(v < h.transition)
          BY <2>1, <2>3, <3>2, <3>5 DEF HistoryInv
        <4>2. Old(t, k, v) = {Past(k)}
          BY <1>6, <2>1, <3>3, <3>4, <3>5, <4>1 DEF Old
        <4>3. OldPayload(Old(t, k, v)) = Past(k).payload
          BY <4>2 DEF OldPayload
        <4>4. ReadAt(t, k, v) = Past(k).payload
          BY <3>1, <4>2, <4>3, ReadByCases
        <4>5. ReadAt(s, k, v) = s.rows[k].payload
          BY <2>3, <3>5, ReadByCases
        <4> QED BY <1>6, <4>4, <4>5
      <3>6. CASE ~(s.rows[k].modified <= v)
        <4>1. Old(t, k, v) = Old(s, k, v)
          BY <1>1, <1>6, <3>3, <3>6 DEF Old
        <4> QED BY <3>1, <3>6, <4>1, ReadByCases
      <3> QED BY <3>5, <3>6
    <2> QED BY <2>2, <2>3
  <1>10. KeepsReads(s, t)
    BY <1>1, <1>4, <1>9 DEF KeepsReads
  <1> QED BY <1>1, <1>3, <1>8, <1>10 DEF Logged

(* The other rows of the log touch no row of the store.                    *)
LEMMA RowsKept ==
    ASSUME NEW s, HistoryInv(s), NEW t, t.rows = s.rows, t.history = s.history,
           t.clock = s.clock, t.owner \in Nat
    PROVE  HistoryInv(t) /\ KeepsReads(s, t)
  <1>1. s.clock <= t.clock
    BY DEF HistoryInv
  <1>2. HistoryInv(t)
    BY DEF HistoryInv
  <1>3. \A k \in Kept, v \in 0..s.clock : ReadAt(t, k, v) = ReadAt(s, k, v)
    BY DEF ReadAt
  <1> QED BY <1>1, <1>2, <1>3 DEF KeepsReads

LEMMA EpochLogs ==
    ASSUME NEW s, DOMAIN s = Fields, HistoryInv(s), NEW t,
           t = EpochAdvanced(s, s.owner, s.owner + 1)
    PROVE  Logged(s, t)
  <1> DEFINE row == [kind |-> "epoch", expected |-> s.owner, next |-> s.owner + 1]
  <1>1. /\ t.rows = s.rows /\ t.history = s.history /\ t.clock = s.clock
        /\ t.owner = s.owner + 1 /\ t.outbox = Append(s.outbox, row)
    BY DEF EpochAdvanced, Fields
  <1>2. s.owner \in Nat /\ s.owner < s.owner + 1 /\ t.owner \in Nat
    BY <1>1 DEF HistoryInv
  <1>3. row.kind = "epoch" /\ row.expected = s.owner /\ row.next = s.owner + 1
    OBVIOUS
  <1> HIDE DEF row
  <1>4. ReplayAdmitted(s, row) /\ t = Replayed(s, row)
    BY <1>2, <1>3 DEF ReplayAdmitted, Replayed, EpochAdmitted
  <1>5. HistoryInv(t) /\ KeepsReads(s, t)
    BY <1>1, <1>2, RowsKept
  <1> QED BY <1>1, <1>4, <1>5 DEF Logged

LEMMA LeaseLogs ==
    ASSUME NEW s, DOMAIN s = Fields, HistoryInv(s), NEW generation, NEW observed,
           LeaseAdmitted(s, generation, s.owner, observed), NEW t,
           t = LeaseObserved(s, generation, observed)
    PROVE  Logged(s, t)
  <1> DEFINE row == [kind |-> "lease", generation |-> generation, epoch |-> s.owner,
                     observed |-> observed]
  <1>1. /\ t.rows = s.rows /\ t.history = s.history /\ t.clock = s.clock
        /\ t.owner = s.owner /\ t.outbox = Append(s.outbox, row)
    BY DEF LeaseObserved, Fields
  <1>2. t.owner \in Nat
    BY <1>1 DEF HistoryInv
  <1>3. row.kind = "lease" /\ row.generation = generation /\ row.epoch = s.owner
        /\ row.observed = observed
    OBVIOUS
  <1> HIDE DEF row
  <1>4. ReplayAdmitted(s, row) /\ t = Replayed(s, row)
    BY <1>3 DEF ReplayAdmitted, Replayed
  <1>5. HistoryInv(t) /\ KeepsReads(s, t)
    BY <1>1, <1>2, RowsKept
  <1> QED BY <1>1, <1>4, <1>5 DEF Logged

-----------------------------------------------------------------------------
(* The story of a store: f[i] is the store after i rows of its log, replay *)
(* takes each to the next, and every version of a kept row that one of     *)
(* them has can be read in the last.                                       *)
Story(f, s) ==
    LET n == Len(s.outbox) IN
    /\ f[n] = s
    /\ \A i \in 0..n :
         /\ IsSeq(f[i].outbox) /\ Len(f[i].outbox) = i
         /\ \A j \in 1..i : f[i].outbox[j] = s.outbox[j]
         /\ f[i].clock \in 0..s.clock
         /\ \A k \in Kept : ReadAt(s, k, f[i].clock) = Payload(f[i], k)
    /\ \A i \in 0..(n - 1) :
         ReplayAdmitted(f[i], s.outbox[i + 1]) /\ f[i + 1] = Replayed(f[i], s.outbox[i + 1])

\* One story is told of the live store, of the durable one and of the successor.
OneStory(live, kept, copy) ==
    \E f : /\ Story(f, live) /\ Story(f, kept)
           /\ Len(kept.outbox) <= Len(live.outbox)
           /\ Len(copy.outbox) \in 0..Len(kept.outbox) /\ copy = f[Len(copy.outbox)]

\* A read result is what store s reads.
Reads(s, a) ==
    /\ a.key \in Kept /\ a.version \in 0..s.clock
    /\ ReadAt(s, a.key, a.version) = a.payload

VInv ==
    /\ HistoryInv(shard) /\ HistoryInv(durable)
    /\ OneStory(shard, durable, replica)
    /\ \A a \in ReadsOf(pending) : Reads(shard, a)
    /\ \A a \in ReadsOf(answers) : Reads(shard, a) /\ Reads(durable, a)

LEMMA ReadsKept ==
    ASSUME NEW s, NEW t, s.clock \in Nat, t.clock \in Nat, KeepsReads(s, t),
           NEW a, Reads(s, a)
    PROVE  Reads(t, a)
  BY DEF KeepsReads, Reads

LEMMA StoryGoesOn ==
    ASSUME NEW s, NEW t, StoreInv(s), HistoryInv(s), Logged(s, t), NEW f, Story(f, s),
           NEW g, g = [i \in Nat |-> IF i = Len(s.outbox) + 1 THEN t ELSE f[i]]
    PROVE  /\ Story(g, t) /\ Len(t.outbox) = Len(s.outbox) + 1
           /\ \A i \in 0..Len(s.outbox) : g[i] = f[i]
  <1> DEFINE n == Len(s.outbox)
  <1>1. PICK row : /\ t.outbox = Append(s.outbox, row)
                   /\ ReplayAdmitted(s, row) /\ t = Replayed(s, row)
    BY DEF Logged
  <1>2. /\ IsSeq(t.outbox) /\ n \in Nat /\ Len(t.outbox) = n + 1
        /\ \A i \in 1..n : t.outbox[i] = s.outbox[i]
        /\ t.outbox[n + 1] = row
    BY <1>1, AppendLog DEF StoreInv, IsLog
  <1>3. g[n + 1] = t /\ \A i \in 0..n : g[i] = f[i]
    BY <1>2
  <1>4. s.clock \in Nat /\ t.clock \in Nat /\ s.clock <= t.clock
    BY DEF HistoryInv, Logged, KeepsReads
  <1>5. ASSUME NEW i \in 0..(n + 1)
        PROVE  /\ IsSeq(g[i].outbox) /\ Len(g[i].outbox) = i
               /\ \A j \in 1..i : g[i].outbox[j] = t.outbox[j]
               /\ g[i].clock \in 0..t.clock
               /\ \A k \in Kept : ReadAt(t, k, g[i].clock) = Payload(g[i], k)
    <2>1. CASE i = n + 1
      <3>1. \A k \in Kept : ReadAt(t, k, t.clock) = Payload(t, k)
        BY ReadNow DEF Logged
      <3> QED BY <1>2, <1>3, <1>4, <2>1, <3>1
    <2>2. CASE i \in 0..n
      <3>1. /\ IsSeq(f[i].outbox) /\ Len(f[i].outbox) = i
            /\ \A j \in 1..i : f[i].outbox[j] = s.outbox[j]
            /\ f[i].clock \in 0..s.clock
            /\ \A k \in Kept : ReadAt(s, k, f[i].clock) = Payload(f[i], k)
        BY <2>2 DEF Story
      <3>2. \A k \in Kept : ReadAt(t, k, f[i].clock) = Payload(f[i], k)
        BY <3>1 DEF Logged, KeepsReads
      <3>3. \A j \in 1..i : f[i].outbox[j] = t.outbox[j]
        BY <1>2, <2>2, <3>1
      <3>4. f[i].clock \in 0..t.clock
        BY <1>4, <3>1
      <3>5. g[i] = f[i]
        BY <1>3, <2>2
      <3> QED BY <3>1, <3>2, <3>3, <3>4, <3>5
    <2> QED BY <1>2, <2>1, <2>2
  <1>6. ASSUME NEW i \in 0..n
        PROVE  /\ ReplayAdmitted(g[i], t.outbox[i + 1])
               /\ g[i + 1] = Replayed(g[i], t.outbox[i + 1])
    <2>1. CASE i = n
      <3>1. g[n] = s
        BY <1>2, <1>3 DEF Story
      <3> QED BY <1>1, <1>2, <1>3, <2>1, <3>1
    <2>2. CASE i \in 0..(n - 1)
      <3>1. /\ ReplayAdmitted(f[i], s.outbox[i + 1])
            /\ f[i + 1] = Replayed(f[i], s.outbox[i + 1])
        BY <2>2 DEF Story
      <3>2. g[i] = f[i] /\ g[i + 1] = f[i + 1] /\ t.outbox[i + 1] = s.outbox[i + 1]
        BY <1>2, <1>3, <2>2
      <3> QED BY <3>1, <3>2
    <2> QED BY <1>2, <2>1, <2>2
  <1>7. Story(g, t)
    <2>1. n + 1 - 1 = n
      BY <1>2
    <2> HIDE DEF n
    <2> QED BY <1>2, <1>3, <1>5, <1>6, <2>1 DEF Story
  <1> QED BY <1>2, <1>3, <1>7

(* A story that goes on still tells of the stores it passed.               *)
LEMMA StoryKept ==
    ASSUME NEW s, NEW f, NEW g, Story(f, s), Len(s.outbox) \in Nat,
           \A i \in 0..Len(s.outbox) : g[i] = f[i]
    PROVE  Story(g, s)
  <1> DEFINE n == Len(s.outbox)
  <1>1. n \in 0..n /\ \A i \in 0..(n - 1) : i \in 0..n /\ i + 1 \in 0..n
    OBVIOUS
  <1> QED BY <1>1, ZenonT(60) DEF Story

LEMMA VersionsInit == Init => VInv
  <1> SUFFICES ASSUME Init PROVE VInv
    OBVIOUS
  <1>1. /\ Fresh.owner = 0 /\ Fresh.clock = 1 /\ Fresh.outbox = <<>> /\ Fresh.history = {}
        /\ Fresh.rows = [k \in Keys |-> None]
    BY DEF Fresh
  <1>2. HistoryInv(Fresh)
    BY <1>1 DEF HistoryInv, Kept
  <1>3. Len(<<>>) = 0 /\ IsSeq(<<>>)
    BY DEF IsSeq
  <1>4. \A k \in Kept : ReadAt(Fresh, k, 1) = Payload(Fresh, k)
    BY <1>1, <1>2, ReadNow
  <1> DEFINE f == [i \in Nat |-> Fresh]
  <1>5. f[0] = Fresh
    OBVIOUS
  <1> HIDE DEF f
  <1>6. Story(f, Fresh)
    BY <1>1, <1>3, <1>4, <1>5 DEF Story
  <1>7. OneStory(Fresh, Fresh, Fresh)
    BY <1>1, <1>3, <1>5, <1>6 DEF OneStory
  <1>8. ReadsOf({}) = {}
    BY DEF ReadsOf
  <1> QED BY <1>2, <1>7, <1>8 DEF VInv, Init

(* A step that logs one row or none.                                       *)
LEMMA LiveStep ==
    ASSUME IInv, VInv, shard' = shard \/ Logged(shard, shard'),
           durable' \in {durable, shard'}, UNCHANGED <<replica, answers>>,
           \A a \in ReadsOf(pending') : a \in pending \/ Reads(shard', a)
    PROVE  VInv'
  <1>1. HistoryInv(shard) /\ HistoryInv(durable) /\ OneStory(shard, durable, replica)
        /\ StoreInv(shard) /\ StoreInv(durable)
    BY DEF VInv, IInv
  <1>2. HistoryInv(shard') /\ HistoryInv(durable')
    BY <1>1 DEF Logged
  <1>3. KeepsReads(shard, shard')
    BY <1>1 DEF Logged, KeepsReads, HistoryInv
  <1>4. \A a : Reads(shard, a) => Reads(shard', a)
    BY <1>1, <1>2, <1>3, ReadsKept DEF HistoryInv
  <1>5. \A a \in ReadsOf(pending') : Reads(shard', a)
    BY <1>4 DEF VInv, ReadsOf
  <1>6. \A a \in ReadsOf(answers') : Reads(shard', a) /\ Reads(durable', a)
    BY <1>4 DEF VInv
  <1>7. OneStory(shard', durable', replica)
    <2>1. PICK f : /\ Story(f, shard) /\ Story(f, durable)
                   /\ Len(durable.outbox) <= Len(shard.outbox)
                   /\ Len(replica.outbox) \in 0..Len(durable.outbox)
                   /\ replica = f[Len(replica.outbox)]
      BY <1>1 DEF OneStory
    <2>2. Len(shard.outbox) \in Nat /\ Len(durable.outbox) \in Nat
      BY <1>1, AppendLog DEF StoreInv, IsLog
    <2>3. CASE shard' = shard
      BY <2>1, <2>2, <2>3 DEF OneStory
    <2>4. CASE Logged(shard, shard')
      <3> PICK g : g = [i \in Nat |-> IF i = Len(shard.outbox) + 1 THEN shard' ELSE f[i]]
        OBVIOUS
      <3> PICK t : t = shard'
        OBVIOUS
      <3>1. /\ Story(g, t) /\ Len(t.outbox) = Len(shard.outbox) + 1
            /\ \A i \in 0..Len(shard.outbox) : g[i] = f[i]
        BY <1>1, <2>1, <2>4, StoryGoesOn
      <3>2. Story(g, durable) /\ replica = g[Len(replica.outbox)]
        <4>1. \A i \in 0..Len(durable.outbox) : g[i] = f[i]
          BY <2>1, <2>2, <3>1
        <4> QED BY <2>1, <2>2, <4>1, StoryKept
      <3>3. /\ Len(replica.outbox) \in 0..Len(t.outbox)
            /\ Len(durable.outbox) <= Len(t.outbox) /\ Len(t.outbox) <= Len(t.outbox)
        BY <2>1, <2>2, <3>1
      <3>4. OneStory(t, durable, replica)
        BY <2>1, <3>1, <3>2, <3>3 DEF OneStory
      <3>5. OneStory(t, t, replica)
        BY <3>1, <3>2, <3>3 DEF OneStory
      <3> QED BY <3>4, <3>5
    <2> QED BY <2>3, <2>4
  <1> QED BY <1>2, <1>5, <1>6, <1>7 DEF VInv

LEMMA VersionsBootstrap ==
    ASSUME IInv, VInv,
           \/ Activate \/ Install(None) \/ Install(Namespace)
           \/ BindObjectNamespace \/ ActivateRoot
    PROVE  VInv'
  <1>0. DOMAIN shard = Fields /\ HistoryInv(shard)
    BY DEF IInv, StoreInv, VInv
  <1>1. CASE Activate
    <2>1. Logged(shard, shard')
      BY <1>0, <1>1, EpochLogs DEF Activate
    <2> QED BY <1>1, <2>1, LiveStep DEF Activate, ReadsOf
  <1>2. ASSUME NEW id, NEW action, NEW namespace,
               FenceCommand(id, action, namespace)
        PROVE  VInv'
    <2>1. PICK c : CommandAdmitted(shard, c, None) /\ shard' = Executed(shard, c, None)
      BY <1>2 DEF FenceCommand
    <2>2. Logged(shard, shard')
      BY <1>0, <2>1, CommandLogs
    <2> QED BY <1>2, <2>2, LiveStep DEF FenceCommand, ReadsOf
  <1> QED BY <1>1, <1>2 DEF Install, BindObjectNamespace, ActivateRoot

LEMMA VersionsBeginRpc ==
    ASSUME IInv, VInv, NEW r \in Requests, NEW op \in Ops, BeginRpc(r, op)
    PROVE  VInv'
  <1>0. DOMAIN shard = Fields /\ HistoryInv(shard)
    BY DEF IInv, StoreInv, VInv
  <1>1. shard' = shard \/ \E c : CommandAdmitted(shard, c, None) /\ shard' = Executed(shard, c, None)
    BY DEF BeginRpc
  <1>2. shard' = shard \/ Logged(shard, shard')
    BY <1>0, <1>1, CommandLogs
  <1> QED BY <1>2, LiveStep DEF BeginRpc, ReadsOf

LEMMA VersionsStep ==
    ASSUME IInv, VInv, ReplayStep \/ ExecuteStep \/ RefuseStep
    PROVE  VInv'
  <1>0. DOMAIN shard = Fields /\ HistoryInv(shard)
    BY DEF IInv, StoreInv, VInv
  <1>1. shard' = shard \/ \E c, d : CommandAdmitted(shard, c, d) /\ shard' = Executed(shard, c, d)
    BY DEF ReplayStep, ExecuteStep, RefuseStep
  <1>2. shard' = shard \/ Logged(shard, shard')
    BY <1>0, <1>1, CommandLogs
  <1>3. \A r, op, version : "key" \notin DOMAIN Result(r, op, version)
    BY DEF Result
  <1>4. \/ pending' = pending
        \/ \E r, op, version : pending' = pending \cup {Result(r, op, version)}
    BY DEF ReplayStep, ExecuteStep, RefuseStep
  <1>5. \A a \in ReadsOf(pending') : a \in pending
    BY <1>3, <1>4 DEF ReadsOf
  <1>6. UNCHANGED <<durable, replica, answers>>
    BY DEF ReplayStep, ExecuteStep, RefuseStep, EndSession
  <1> QED BY <1>2, <1>5, <1>6, LiveStep

LEMMA VersionsWork ==
    ASSUME IInv, VInv,
           \/ \E j \in Jobs : PlanJob(j)
           \/ RunJob
           \/ \E observed \in 1..MaxLease : ObserveLease(observed)
    PROVE  VInv'
  <1>0. DOMAIN shard = Fields /\ HistoryInv(shard)
    BY DEF IInv, StoreInv, VInv
  <1>1. CASE \E j \in Jobs : PlanJob(j)
    BY <1>1, LiveStep DEF PlanJob, ReadsOf
  <1>2. CASE RunJob
    <2>1. shard' = shard \/ Logged(shard, shard')
      BY <1>0, <1>2, CommandLogs DEF RunJob
    <2> QED BY <1>2, <2>1, LiveStep DEF RunJob, ReadsOf
  <1>3. CASE \E observed \in 1..MaxLease : ObserveLease(observed)
    <2>1. PICK observed \in 1..MaxLease : ObserveLease(observed)
      BY <1>3
    <2>2. Logged(shard, shard')
      BY <1>0, <2>1, LeaseLogs DEF ObserveLease
    <2> QED BY <2>1, <2>2, LiveStep DEF ObserveLease, ReadsOf
  <1> QED BY <1>1, <1>2, <1>3

LEMMA VersionsAnswer ==
    ASSUME IInv, VInv,
           \/ \E result \in pending : Acknowledge(result)
           \/ \E k \in Keys \ Bodies, version \in 1..shard.clock :
                Read(k, version)
           \/ Crash
           \/ Replay
    PROVE  VInv'
  <1>0. /\ HistoryInv(shard) /\ HistoryInv(durable) /\ OneStory(shard, durable, replica)
        /\ StoreInv(shard) /\ StoreInv(durable)
        /\ \A a \in ReadsOf(pending) : Reads(shard, a)
        /\ \A a \in ReadsOf(answers) : Reads(shard, a) /\ Reads(durable, a)
    BY DEF VInv, IInv
  <1>1. PICK f : /\ Story(f, shard) /\ Story(f, durable)
                 /\ Len(durable.outbox) <= Len(shard.outbox)
                 /\ Len(replica.outbox) \in 0..Len(durable.outbox)
                 /\ replica = f[Len(replica.outbox)]
    BY <1>0 DEF OneStory
  <1>2. Len(shard.outbox) \in Nat /\ Len(durable.outbox) \in Nat
    BY <1>0, AppendLog DEF StoreInv, IsLog
  <1>3. OneStory(shard, shard, replica) /\ OneStory(durable, durable, replica)
    <2>1. /\ Len(replica.outbox) \in 0..Len(shard.outbox)
          /\ Len(shard.outbox) <= Len(shard.outbox)
          /\ Len(durable.outbox) <= Len(durable.outbox)
      BY <1>1, <1>2
    <2> QED BY <1>1, <2>1 DEF OneStory
  <1>4. CASE \E result \in pending : Acknowledge(result)
    <2>1. PICK result \in pending :
            /\ durable' = shard /\ UNCHANGED <<shard, replica>>
            /\ pending' = pending \ {result} /\ answers' = answers \cup {result}
      BY <1>4 DEF Acknowledge
    <2>2. /\ \A a \in ReadsOf(pending') : Reads(shard, a)
          /\ \A a \in ReadsOf(answers') : Reads(shard, a)
      BY <1>0, <2>1 DEF ReadsOf
    <2> QED BY <1>0, <1>3, <2>1, <2>2 DEF VInv
  <1>5. CASE \E k \in Keys \ Bodies, version \in 1..shard.clock :
               Read(k, version)
    <2>1. PICK k \in Kept, version \in 1..shard.clock : Read(k, version)
      BY <1>5 DEF Kept
    <2> PICK a : a = ReadResult(k, version, ReadAt(shard, k, version))
      OBVIOUS
    <2>2. /\ pending' = pending \cup {a}
          /\ UNCHANGED <<shard, durable, replica, answers>>
      BY <2>1 DEF Read
    <2>3. version \in 0..shard.clock
      BY <1>0 DEF HistoryInv
    <2>4. Reads(shard, a)
      BY <2>3 DEF Reads, ReadResult
    <2>5. \A b \in ReadsOf(pending') : b \in pending \/ Reads(shard', b)
      BY <2>2, <2>4 DEF ReadsOf
    <2> QED BY <2>2, <2>5, LiveStep
  <1>6. CASE Crash
    <2>1. /\ shard' \in {shard, durable} /\ durable' = shard'
          /\ pending' = {} /\ UNCHANGED <<replica, answers>>
      BY <1>6 DEF Crash
    <2>2. ReadsOf({}) = {}
      BY DEF ReadsOf
    <2> QED BY <1>0, <1>3, <2>1, <2>2 DEF VInv
  <1>7. CASE Replay
    <2> DEFINE n == Len(replica.outbox)
    <2>1. /\ n < Len(durable.outbox)
          /\ replica' = Replayed(replica, durable.outbox[n + 1])
          /\ UNCHANGED <<shard, durable, pending, answers>>
      BY <1>7 DEF Replay
    <2>2. n \in 0..(Len(durable.outbox) - 1) /\ n + 1 \in 0..Len(durable.outbox)
      BY <1>1, <1>2, <2>1
    <2>3. replica' = f[n + 1] /\ Len(f[n + 1].outbox) = n + 1
      BY <1>1, <2>1, <2>2 DEF Story
    <2>4. OneStory(shard, durable, replica')
      BY <1>1, <2>2, <2>3 DEF OneStory
    <2> QED BY <1>0, <2>1, <2>4 DEF VInv
  <1> QED BY <1>4, <1>5, <1>6, <1>7

LEMMA VersionsNext == IInv /\ VInv /\ [Next]_vars => VInv'
  <1> SUFFICES ASSUME IInv, VInv, [Next]_vars PROVE VInv'
    OBVIOUS
  <1>1. CASE UNCHANGED vars
    BY <1>1 DEF vars, VInv
  <1>2. CASE Next
    BY <1>2, VersionsBootstrap, VersionsBeginRpc, VersionsStep, VersionsWork,
       VersionsAnswer DEF Next, Serve, Background
  <1> QED BY <1>1, <1>2

LEMMA Versions == Spec => [](IInv /\ VInv)
  <1>1. Init => VInv
    BY VersionsInit
  <1> QED BY <1>1, Invariance, VersionsNext, PTL DEF Spec

(* A read that left the shard can be repeated at its version forever, in   *)
(* the live store and in the one a crash falls back to: read_at_fence      *)
(* finds the row or the one history row that validate_history_projection   *)
(* kept of it.                                                             *)
THEOREM ReadsRepeat == Spec => []RepeatableReads
  <1>1. VInv => RepeatableReads
    BY DEF VInv, Reads, RepeatableReads
  <1> QED BY <1>1, Versions, PTL

(* A successor that replays the durable log is always able to take the     *)
(* next row, holds what the shard held at that version, and ends with the  *)
(* durable store itself.                                                   *)
THEOREM SuccessorFollows == Spec => []SuccessorAgrees
  <1>1. ASSUME IInv, VInv PROVE SuccessorAgrees
    <2> DEFINE n == Len(replica.outbox)
               log == SubSeq(durable.outbox, 1, n)
    <2>1. PICK f : /\ Story(f, shard) /\ Story(f, durable)
                   /\ Len(durable.outbox) <= Len(shard.outbox)
                   /\ n \in 0..Len(durable.outbox) /\ replica = f[n]
      BY <1>1 DEF VInv, OneStory
    <2>2. Len(durable.outbox) \in Nat /\ Len(shard.outbox) \in Nat /\ IsSeq(durable.outbox)
      BY <1>1, AppendLog DEF IInv, StoreInv, IsLog
    <2>3. /\ IsSeq(replica.outbox)
          /\ \A j \in 1..n : replica.outbox[j] = durable.outbox[j]
      BY <2>1 DEF Story
    <2>4. log = replica.outbox
      <3>1. PICK S : durable.outbox \in Seq(S)
        BY <2>2 DEF IsSeq
      <3>2. PICK T : replica.outbox \in Seq(T)
        BY <2>3 DEF IsSeq
      <3>3. 1 \in Int /\ n \in Int /\ n \in Nat
        BY <2>1, <2>2
      <3>4. /\ DOMAIN log = 1..n /\ log = [i \in 1..n |-> durable.outbox[i]]
        BY <2>1, <2>2, <3>1, <3>3
      <3>5. replica.outbox \in [1..n -> T]
        BY <3>2
      <3> QED BY <2>3, <3>4, <3>5
    <2>5. n < Len(durable.outbox) => ReplayAdmitted(replica, durable.outbox[n + 1])
      <3>1. n < Len(durable.outbox) => n \in 0..(Len(durable.outbox) - 1)
        BY <2>1, <2>2
      <3> QED BY <2>1, <3>1 DEF Story
    <2>6. n = Len(durable.outbox) => replica = durable
      BY <2>1 DEF Story
    <2>7. \A k \in Keys \ Bodies : ReadAt(shard, k, replica.clock) = Payload(replica, k)
      <3>1. n \in 0..Len(shard.outbox)
        BY <2>1, <2>2
      <3> QED BY <2>1, <3>1 DEF Story, Kept
    <2> QED BY <2>4, <2>5, <2>6, <2>7 DEF SuccessorAgrees
  <1> QED BY <1>1, Versions, PTL

=============================================================================
