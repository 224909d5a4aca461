----------------------------- MODULE MetaEngine -----------------------------
(***************************************************************************)
(* The metadata engine of one shard (nokv-meta workspace/engine.rs) as     *)
(* functions of its store: what a command, an owner-epoch advance, a lease *)
(* clock observation and the replay of a recovery row require of a store   *)
(* and turn it into.  Each is one store transaction, so it happens whole   *)
(* or not at all.                                                          *)
(*                                                                         *)
(* One root: every row, history, event and dedupe key starts with the root *)
(* id, so the roots of a shard meet only in the owner fence, the clocks    *)
(* and the log.  The digest of a command is the command; the applied LSN   *)
(* is the length of the outbox and its chain digest is the outbox.         *)
(***************************************************************************)
EXTENDS Integers, Sequences

CONSTANTS None,
          Keys,      \* row keys of all metadata families
          Claims,    \* ... of family WorkspaceIncarnationClaim
          Bodies     \* ... of family ArtifactInlineBody

ASSUME FamilyAssumption == Claims \subseteq Keys /\ Bodies \subseteq Keys

\* system_bootstrap_rows
Fresh == [owner |-> 0, clock |-> 1, lease |-> 0, fence |-> None,
          rows |-> [k \in Keys |-> None], history |-> {}, events |-> {},
          dedupe |-> {}, outbox |-> <<>>]

\* The CommandDedupe row of a request id: a set of at most one row.
Seen(s, id) == {d \in s.dedupe : d.id = id}

Payload(s, k) == IF s.rows[k] = None THEN None ELSE s.rows[k].payload

-----------------------------------------------------------------------------
(* The root fence.                                                         *)

\* valid_root_transition
ValidTransitions == {<<"Installing", "Active">>, <<"Active", "Draining">>,
                     <<"Active", "Fenced">>, <<"Draining", "Fenced">>}

\* plan_root_fence: the current fence admits the command.
FenceAccepts(fence, c) ==
    IF c.action.kind = "Install" THEN fence = None
    ELSE /\ fence # None
         /\ fence.generation = c.generation
         /\ CASE c.action.kind = "Bind" ->
                   /\ fence.state = c.action.from
                   /\ fence.namespace \in {None, c.namespace}
              [] c.action.kind = "RequireActive" ->
                   /\ fence.namespace = c.namespace
                   /\ fence.state = "Active"
              [] c.action.kind = "Transition" ->
                   /\ <<c.action.from, c.action.to>> \in ValidTransitions
                   /\ fence.namespace = c.namespace
                   /\ fence.state = c.action.from

FenceAfter(fence, c) ==
    CASE c.action.kind = "Install" ->
           [generation |-> c.generation, namespace |-> c.namespace,
            state |-> "Installing"]
      [] c.action.kind = "Bind" -> [fence EXCEPT !.namespace = c.namespace]
      [] c.action.kind = "RequireActive" -> fence
      [] c.action.kind = "Transition" -> [fence EXCEPT !.state = c.action.to]

-----------------------------------------------------------------------------
(* Commands.  c.expect gives the predicates: the payload each named key    *)
(* must have, None for absent (a prefix-empty predicate names every key of *)
(* the prefix).  c.writes gives the mutations, None for a delete; c.event  *)
(* says whether the command projects a change event.                       *)

\* plan_predicates, validate_predicate_plan and the shape checks of
\* validate_command.
PredicatesHold(s, c) ==
    /\ \A k \in DOMAIN c.expect : Payload(s, k) = c.expect[k]
    /\ DOMAIN c.writes \subseteq DOMAIN c.expect
    /\ c.action.kind # "RequireActive" => DOMAIN c.expect = {}
    /\ \A k \in DOMAIN c.writes :
         /\ c.writes[k] = None => s.rows[k] # None
         /\ c.writes[k] = None => k \notin Claims
         /\ s.rows[k] # None => k \notin Claims
         /\ s.rows[k] # None /\ c.writes[k] # None => k \notin Bodies

\* Bug: a command planned at an older version is let through.
CommandAdmittedAtAnyVersion(s, c, deadline) ==
    /\ Seen(s, c.id) = {}
    /\ s.owner = c.epoch
    /\ FenceAccepts(s.fence, c)
    /\ deadline # None => s.lease < deadline
    /\ PredicatesHold(s, c)

\* Bug: a lease deadline the clock has just reached still commits.
CommandAdmittedAtDeadline(s, c, deadline) ==
    /\ Seen(s, c.id) = {}
    /\ s.owner = c.epoch
    /\ s.clock = c.read
    /\ FenceAccepts(s.fence, c)
    /\ deadline # None => s.lease <= deadline
    /\ PredicatesHold(s, c)

\* execute_with_lease_deadline_unlocked, for a request id without a dedupe
\* row.
CommandAdmitted(s, c, deadline) ==
    /\ Seen(s, c.id) = {}
    /\ s.owner = c.epoch
    /\ s.clock = c.read
    /\ FenceAccepts(s.fence, c)
    /\ deadline # None => s.lease < deadline
    /\ PredicatesHold(s, c)

\* Bug: a deleted value is not kept.
ReplacedByPut(s, c) ==
    {k \in DOMAIN c.writes \ Bodies : s.rows[k] # None /\ c.writes[k] # None}

\* The keys whose old value goes to History (validate_history_projection).
Replaced(s, c) == {k \in DOMAIN c.writes \ Bodies : s.rows[k] # None}

Written(s, c, version) ==
    [k \in Keys |->
       IF k \notin DOMAIN c.writes THEN s.rows[k]
       ELSE IF c.writes[k] = None THEN None
       ELSE [created  |-> IF s.rows[k] = None THEN version
                          ELSE s.rows[k].created,
             modified |-> version, payload |-> c.writes[k]]]

CommandRow(s, c, deadline) ==
    [kind |-> "command", command |-> c, deadline |-> deadline,
     version |-> s.clock + 1]

DedupeRow(s, c) ==
    [id |-> c.id, command |-> c, version |-> s.clock + 1,
     lsn |-> Len(s.outbox) + 1]

\* build_command_txn
Executed(s, c, deadline) ==
    LET version == s.clock + 1
    IN  [s EXCEPT
           !.clock = version,
           !.fence = FenceAfter(s.fence, c),
           !.rows = Written(s, c, version),
           !.history = s.history \cup
               {[key |-> k, transition |-> version,
                 created |-> s.rows[k].created,
                 modified |-> s.rows[k].modified,
                 payload |-> s.rows[k].payload] : k \in Replaced(s, c)},
           !.events = IF c.event
                      THEN s.events \cup {[version |-> version, id |-> c.id]}
                      ELSE s.events,
           !.dedupe = s.dedupe \cup {DedupeRow(s, c)},
           !.outbox = Append(s.outbox, CommandRow(s, c, deadline))]

-----------------------------------------------------------------------------
(* Reads (read_at_fence): the current row when it is old enough, else the  *)
(* history row whose interval holds the version.                           *)

IsActive(s, generation) ==
    s.fence # None /\ s.fence.generation = generation
                   /\ s.fence.state = "Active"

ReadAt(s, k, version) ==
    LET old == {h \in s.history : h.key = k /\ h.modified <= version
                                            /\ version < h.transition}
    IN  IF s.rows[k] # None /\ s.rows[k].modified <= version
        THEN s.rows[k].payload
        ELSE IF old = {} THEN None ELSE (CHOOSE h \in old : TRUE).payload

-----------------------------------------------------------------------------
(* The owner epoch and the lease clock.                                    *)

\* advance_owner_epoch_unlocked, when the epoch is not already next.
EpochAdmitted(s, expected, next) == s.owner = expected /\ s.owner < next

EpochAdvanced(s, expected, next) ==
    [s EXCEPT !.owner = next,
              !.outbox = Append(s.outbox, [kind |-> "epoch",
                                           expected |-> expected,
                                           next |-> next])]

\* Bug: the observation is stored but not logged.
LeaseObservedUnlogged(s, generation, observed) ==
    [s EXCEPT !.lease = observed]

\* observe_lease_clock_unlocked, when the observation is newer than the
\* clock; an older one leaves the store alone.
LeaseAdmitted(s, generation, epoch, observed) ==
    s.owner = epoch /\ IsActive(s, generation) /\ s.lease < observed

LeaseObserved(s, generation, observed) ==
    [s EXCEPT !.lease = observed,
              !.outbox = Append(s.outbox, [kind |-> "lease",
                                           generation |-> generation,
                                           epoch |-> s.owner,
                                           observed |-> observed])]

-----------------------------------------------------------------------------
(* replay_recovery_record_unlocked: a row is executed again on a store     *)
(* that holds exactly the rows before it, and must come out the same.      *)

ReplayAdmitted(s, row) ==
    CASE row.kind = "command" ->
           /\ CommandAdmitted(s, row.command, row.deadline)
           /\ CommandRow(s, row.command, row.deadline) = row
      [] row.kind = "lease" ->
           LeaseAdmitted(s, row.generation, row.epoch, row.observed)
      [] row.kind = "epoch" -> EpochAdmitted(s, row.expected, row.next)

Replayed(s, row) ==
    CASE row.kind = "command" -> Executed(s, row.command, row.deadline)
      [] row.kind = "lease" -> LeaseObserved(s, row.generation, row.observed)
      [] row.kind = "epoch" -> EpochAdvanced(s, row.expected, row.next)

=============================================================================
