-------------------------- MODULE ExecutionRegistry --------------------------
(***************************************************************************)
(* The executions a coordinator serves (off-chain/src/lib.rs,              *)
(* CoordinatorRPCServerSharedBase and RetiredExecutions): registration,    *)
(* acknowledgements, eviction under capacity pressure, tombstones, and the *)
(* shutdown of a one-off coordinator.                                      *)
(*                                                                         *)
(* The rounds of an execution are those of CoordinatorExecution; here it   *)
(* only matters whether ProgramFinished has been entered.  Of the metadata *)
(* of a registration it only matters whether it is valid.  Handlers that   *)
(* take the state lock twice look the execution up again the second time;  *)
(* the ones that deliver outputs expect to find it.                        *)
(***************************************************************************)
EXTENDS Rounds, SeqHelpers

CONSTANTS
  mpc_nodes,
  t,
  ExecutionId,
  None,
  one_off_execution,     \* the execution of a one-off coordinator, or None
  MAX_CONCURRENT_EXECUTIONS,
  MAX_RETIRED_EXECUTIONS

n == Cardinality(mpc_nodes)

ASSUME RegistryAssumption ==
  /\ IsFiniteSet(mpc_nodes)
  /\ t \in Nat
  /\ ValidTopology(n, t)
  /\ one_off_execution \in ExecutionId \cup {None}
  /\ None \notin ExecutionId
  /\ MAX_CONCURRENT_EXECUTIONS \in Nat \ {0}
  /\ MAX_RETIRED_EXECUTIONS \in Nat \ {0}

VARIABLES
  executions,        \* the live executions
  retirement_acks,   \* the parties that acknowledged a live execution
  finished,          \* the live executions in round ProgramFinished
  acks,              \* RetiredExecutions: acknowledgements of the tombstones
  order,             \* RetiredExecutions: tombstones, oldest first
  delivering,        \* executions of which an output handler left the lock
  shutdown_notify,   \* whether a shutdown request is still accepted
  server             \* the listener

vars == <<executions, retirement_acks, finished, acks, order, delivering,
          shutdown_notify, server>>

Running == server \in {"up", "draining"}

sealed == DOMAIN acks

AtRetirementQuorum(e) ==
  Cardinality(retirement_acks[e]) >= retirement_quorum(n, t)

is_retired(e) == e \in sealed \/ (e \in executions /\ AtRetirementQuorum(e))

\* new_for_execution registers the execution of a one-off coordinator before
\* the listener starts.
Init ==
  /\ executions = {one_off_execution} \cap ExecutionId
  /\ retirement_acks = [e \in ExecutionId |-> {}]
  /\ finished = {}
  /\ acks = [e \in {} |-> {}]
  /\ order = <<>>
  /\ delivering = {}
  /\ shutdown_notify = (one_off_execution # None)
  /\ server = "up"

-----------------------------------------------------------------------------
\* Fault: one tombstone too many is dropped.
seal_OneLess(e, parties) ==
  LET queue == IF e \in sealed THEN order ELSE Append(order, e)
      excess == max(Len(queue) - MAX_RETIRED_EXECUTIONS + 1, 0)
      dropped == {queue[k] : k \in 1..excess}
  IN  /\ order' = SubSeq(queue, excess + 1, Len(queue))
      /\ acks' = [x \in (sealed \cup {e}) \ dropped |->
                   IF x = e THEN parties ELSE acks[x]]

\* RetiredExecutions::seal: a new tombstone goes to the back of the queue, and
\* the oldest ones are dropped to keep the bound.
seal(e, parties) ==
  LET queue == IF e \in sealed THEN order ELSE Append(order, e)
      excess == max(Len(queue) - MAX_RETIRED_EXECUTIONS, 0)
      dropped == {queue[k] : k \in 1..excess}
  IN  /\ order' = SubSeq(queue, excess + 1, Len(queue))
      /\ acks' = [x \in (sealed \cup {e}) \ dropped |->
                   IF x = e THEN parties ELSE acks[x]]

\* Fault: a tombstone that is forgotten stays in the queue.
acknowledge_KeepsOrder(e, p) ==
  /\ acks' = IF Cardinality(acks[e] \cup {p}) >= n
             THEN [x \in sealed \ {e} |-> acks[x]]
             ELSE [acks EXCEPT ![e] = @ \cup {p}]
  /\ order' = order

\* RetiredExecutions::acknowledge for a tombstone: it is forgotten once every
\* party is in it.
acknowledge(e, p) ==
  LET parties == acks[e] \cup {p}
  IN  IF Cardinality(parties) >= n
      THEN /\ acks' = [x \in sealed \ {e} |-> acks[x]]
           /\ order' = Retain(order, {k \in DOMAIN order : order[k] # e})
      ELSE /\ acks' = [acks EXCEPT ![e] = parties]
           /\ order' = order

\* Fault: the execution of a one-off coordinator may be compacted.
Evictable_OneOff == {e \in executions : AtRetirementQuorum(e)}

\* The executions register_execution may compact when it needs a slot.
Evictable == {e \in executions : e # one_off_execution /\ AtRetirementQuorum(e)}

\* Replace the evicted executions by the new ones, which start afresh.
Admit(evicted, new) ==
  /\ executions' = (executions \ evicted) \cup new
  /\ retirement_acks' = [x \in ExecutionId |->
       IF x \in evicted \cup new THEN {} ELSE retirement_acks[x]]
  /\ finished' = finished \ evicted

\* Fault: the capacity is exceeded by one.
register_execution_OneMore(e, valid) ==
  /\ e \notin executions
  /\ \/ /\ Cardinality(executions) <= MAX_CONCURRENT_EXECUTIONS
        /\ valid
        /\ Admit({}, {e})
        /\ UNCHANGED <<acks, order>>
     \/ /\ Cardinality(executions) > MAX_CONCURRENT_EXECUTIONS
        /\ \E victim \in Evictable :
             /\ seal(victim, retirement_acks[victim])
             /\ Admit({victim}, IF valid THEN {e} ELSE {})

\* An execution that is not live is registered.  At capacity some evictable
\* execution (the first of a hash map) is compacted to a tombstone, and then a
\* registration that is not valid is refused.
register_execution(e, valid) ==
  /\ e \notin executions
  /\ \/ /\ Cardinality(executions) < MAX_CONCURRENT_EXECUTIONS
        /\ valid
        /\ Admit({}, {e})
        /\ UNCHANGED <<acks, order>>
     \/ /\ Cardinality(executions) >= MAX_CONCURRENT_EXECUTIONS
        /\ \E victim \in Evictable :
             /\ seal(victim, retirement_acks[victim])
             /\ Admit({victim}, IF valid THEN {e} ELSE {})

\* A party of the roster registers an execution.
RegisterExecution(e, valid) ==
  /\ Running
  /\ register_execution(e, valid)
  /\ UNCHANGED <<delivering, shutdown_notify, server>>

\* Fault: a live execution takes the acknowledgement before its tombstone.
retire_execution_LiveFirst(p, e) ==
  /\ \/ /\ e \in executions
        /\ retirement_acks' = [retirement_acks EXCEPT ![e] = @ \cup {p}]
        /\ UNCHANGED <<acks, order>>
     \/ /\ e \in sealed \ executions
        /\ acknowledge(e, p)
        /\ UNCHANGED retirement_acks
  /\ UNCHANGED <<executions, finished>>

\* An acknowledgement of an execution: its tombstone takes the acknowledgement
\* when there is one, otherwise the live execution.
retire_execution(p, e) ==
  /\ \/ /\ e \in sealed
        /\ acknowledge(e, p)
        /\ UNCHANGED retirement_acks
     \/ /\ e \in executions \ sealed
        /\ retirement_acks' = [retirement_acks EXCEPT ![e] = @ \cup {p}]
        /\ UNCHANGED <<acks, order>>
  /\ UNCHANGED <<executions, finished>>

\* A party of the roster acknowledges an execution.
RetireExecution(p, e) ==
  /\ Running
  /\ retire_execution(p, e)
  /\ UNCHANGED <<delivering, shutdown_notify, server>>

\* A live execution enters ProgramFinished (module CoordinatorExecution).
FinishProgram(e) ==
  /\ Running
  /\ e \in executions \ finished
  /\ finished' = finished \cup {e}
  /\ UNCHANGED <<executions, retirement_acks, acks, order, delivering,
                 shutdown_notify, server>>

\* send_output_shares or obtain_output_shares has changed the execution and
\* drops the lock before deliver_ready_output_waiters takes it again.
OutputUnlocked(e) ==
  /\ Running
  /\ e \in executions \ delivering
  /\ delivering' = delivering \cup {e}
  /\ UNCHANGED <<executions, retirement_acks, finished, acks, order,
                 shutdown_notify, server>>

\* deliver_ready_output_waiters has the lock again and looks the execution up.
OutputRelocked(e) ==
  /\ e \in delivering
  /\ delivering' = delivering \ {e}
  /\ UNCHANGED <<executions, retirement_acks, finished, acks, order,
                 shutdown_notify, server>>

\* Fault: the round of the execution is not checked.
RequestShutdown_AnyRound ==
  /\ Running
  /\ shutdown_notify
  /\ shutdown_notify' = FALSE
  /\ server' = "draining"
  /\ UNCHANGED <<executions, retirement_acks, finished, acks, order,
                 delivering>>

\* The designated party asks a one-off coordinator to shut down, once.
RequestShutdown ==
  /\ Running
  /\ one_off_execution \in executions \cap finished
  /\ shutdown_notify
  /\ shutdown_notify' = FALSE
  /\ server' = "draining"
  /\ UNCHANGED <<executions, retirement_acks, finished, acks, order,
                 delivering>>

\* The third component of retirement_progress: all parties are done with e.
RetirementComplete(e) ==
  IF e \in executions
  THEN Cardinality(retirement_acks[e]) >= n
  ELSE e \notin sealed

\* start_coord_one_off stops the listener when a poll finds the execution fully
\* acknowledged, or else when the grace period ends.
StopServer ==
  /\ server = "draining"
  /\ \/ /\ RetirementComplete(one_off_execution)
        /\ server' = "drained"
     \/ server' = "expired"
  /\ UNCHANGED <<executions, retirement_acks, finished, acks, order,
                 delivering, shutdown_notify>>

Next ==
  \/ \E e \in ExecutionId, valid \in BOOLEAN : RegisterExecution(e, valid)
  \/ \E p \in mpc_nodes, e \in ExecutionId : RetireExecution(p, e)
  \/ \E e \in ExecutionId : FinishProgram(e)
  \/ \E e \in ExecutionId : OutputUnlocked(e)
  \/ \E e \in ExecutionId : OutputRelocked(e)
  \/ RequestShutdown
  \/ StopServer

Spec == Init /\ [][Next]_vars

-----------------------------------------------------------------------------
\* Types of the registry's state.
TypeOK ==
  /\ executions \subseteq ExecutionId
  /\ retirement_acks \in [ExecutionId -> SUBSET mpc_nodes]
  /\ finished \subseteq executions
  /\ sealed \subseteq ExecutionId
  /\ acks \in [sealed -> SUBSET mpc_nodes]
  /\ order \in Seq(ExecutionId)
  /\ delivering \subseteq ExecutionId
  /\ shutdown_notify \in BOOLEAN
  /\ server \in {"up", "draining", "drained", "expired"}

\* However registrations, acknowledgements and evictions interleave, the
\* coordinator never holds more executions than its capacity: an eviction
\* always makes the room the registration takes.
WithinCapacity == Cardinality(executions) <= MAX_CONCURRENT_EXECUTIONS

\* The two halves of RetiredExecutions agree: the queue lists every tombstone
\* exactly once, within its bound, whether tombstones leave it by unanimity
\* (acknowledge) or at the front (seal).
TombstonesQueued ==
  /\ Len(order) <= MAX_RETIRED_EXECUTIONS
  /\ Len(order) = Cardinality(sealed)
  /\ {order[k] : k \in 1..Len(order)} = sealed

\* Protocol state is only ever dropped for an execution that a quorum of n - t
\* parties is done with, and never for the execution of a one-off coordinator,
\* which stays live whatever else is registered (register_execution).
DroppedOnlyRetired ==
  /\ \A e \in sealed : Cardinality(acks[e]) >= retirement_quorum(n, t)
  /\ one_off_execution # None => one_off_execution \in executions \ sealed

\* An execution that was compacted and then registered again collects no
\* acknowledgement of its own as long as its tombstone stands, so compacting
\* it a second time never overwrites a tombstone (seal inserts, never replaces).
SealNeverReplaces ==
  \A e \in executions \cap sealed : retirement_acks[e] = {}

\* A one-off coordinator only leaves service after its program finished, and
\* it leaves before the grace period ends only once all parties acknowledged.
ShutdownJustified ==
  /\ server # "up" => one_off_execution \in executions \cap finished
  /\ server = "drained" => retirement_acks[one_off_execution] = mpc_nodes

\* Once a retirement quorum is reached, is_retired stays true until the last
\* party acknowledges (a step that registers nothing), or until the tombstone
\* at the front of a full queue makes room for another (retire_execution, seal,
\* acknowledge).
RetiredUntilForgotten ==
  [][\A e \in ExecutionId :
       is_retired(e) /\ ~is_retired(e)' =>
         /\ e \in sealed
         /\ \/ /\ executions' = executions
               /\ \E p \in mpc_nodes : acks[e] \cup {p} = mpc_nodes
            \/ Len(order) = MAX_RETIRED_EXECUTIONS /\ Head(order) = e]_vars

\* deliver_ready_output_waiters takes the state lock after its caller dropped
\* it, "output execution remains registered".
OutputExecutionRemains == delivering \subseteq executions
==============================================================================
