------------------------ MODULE CoordinatorExecution ------------------------
(***************************************************************************)
(* One execution of the off-chain coordinator: the rounds its parties vote *)
(* for and the input slots its clients reserve and fill                    *)
(* (off-chain/src/lib.rs, CoordinatorExecutionState and its RPC handlers). *)
(*                                                                         *)
(* The state lock of the coordinator is a tokio Mutex, so the code between *)
(* locking and dropping it is one step.  Two handlers leave the lock and   *)
(* take it again, transition and submit_masked_inputs; both do so holding  *)
(* the per-execution mutex masked_input_delivery, so that at most one such *)
(* call is under way.  The variable delivery is that mutex, with the place *)
(* its holder has reached.                                                 *)
(*                                                                         *)
(* A masked input is represented by the identity that submitted it.  The   *)
(* subscriptions fed by these handlers are added by module EventFeeds.     *)
(***************************************************************************)
EXTENDS Rounds, SeqHelpers

CONSTANTS
  mpc_nodes,         \* the parties of the roster
  t,                 \* how many of them may be faulty
  Client,            \* the identities that call the client methods
  None,              \* the code's Option::None
  n_inputs,          \* number of input slots of the execution
  input_assignments, \* client of every assigned slot: <<>> or one per slot
  Batches,           \* the index vectors a client may send in one call
  U64                \* the number of values of a u64

Index == 0..(n_inputs - 1)

n == Cardinality(mpc_nodes)

ASSUME TopologyAssumption ==
  /\ IsFiniteSet(mpc_nodes)
  /\ t \in Nat
  /\ ValidTopology(n, t)

\* A registration assigns all slots or none (CoordinatorExecutionState::new).
ASSUME InputsAssumption ==
  /\ n_inputs \in Nat /\ U64 \in Nat /\ n_inputs < U64
  /\ None \notin Client
  /\ input_assignments \in Seq(Client)
  /\ Len(input_assignments) \in {0, n_inputs}

\* Empty batches and indices out of bounds are refused with no state change.
ASSUME BatchesAssumption == Batches \subseteq Seq(Index) \ {<<>>}

VARIABLES
  round,                \* the current round
  transition_votes,     \* for every round, the parties that proposed it
  trans_events,         \* the rounds whose event is recorded for replay
  reserved_indices,     \* the client that reserved a slot
  n_reserved,           \* how many reservations were counted
  masked_inputs,        \* the client that filled a slot
  reserved_index_events,\* history of ReservedInputEvents
  masked_input_events,  \* history of MaskedInputEvents
  delivery              \* the mutex masked_input_delivery

inputVars == <<reserved_indices, n_reserved, masked_inputs,
               reserved_index_events, masked_input_events>>
vars == <<round, transition_votes, trans_events, inputVars, delivery>>

Indices(batch) == {batch[k] : k \in DOMAIN batch}

Event(c, batch) == [client |-> c, indices |-> batch]

\* The client an input slot is bound to, or None for an unassigned slot.
AssignedClient(i) ==
  IF i + 1 \in DOMAIN input_assignments THEN input_assignments[i + 1] ELSE None

-----------------------------------------------------------------------------
(***************************************************************************)
(* try_advance: from the current round, enter every round that follows it, *)
(* has a quorum of votes and is not held back by its precondition.         *)
(***************************************************************************)
\* Fault: the input rounds are skipped after reservations too.
skips_empty_input_rounds_Late(r, next) ==
  r \in {Preprocessing, InputMaskReservation} /\ next = MPCExecution

skips_empty_input_rounds(r, next) == r = Preprocessing /\ next = MPCExecution

skips_empty_output_rounds(r, next) == r = MPCExecution /\ next = ProgramFinished

Follows(r, next) ==
  \/ round_before(next) = r
  \/ skips_empty_input_rounds(r, next)
  \/ skips_empty_output_rounds(r, next)

\* Fault: one proposal too few is enough.
HasQuorum_OneLess(votes, next) ==
  Cardinality(votes[next]) >= transition_quorum(n, t) - 1

HasQuorum(votes, next) == Cardinality(votes[next]) >= transition_quorum(n, t)

\* Fault: nothing holds MPCExecution back.
blocking_precondition_none(r, inputs, next) == FALSE

blocking_precondition(r, inputs, next) ==
  /\ next = MPCExecution
  /\ ~skips_empty_input_rounds(r, next)
  /\ \E i \in Index : inputs[i] = None

\* Fault: any later round may be entered.
QuorumRounds_AnyLater(r, votes) ==
  {next \in ORDERED_ROUNDS : next > r /\ HasQuorum(votes, next)}

QuorumRounds(r, votes) ==
  {next \in ORDERED_ROUNDS : Follows(r, next) /\ HasQuorum(votes, next)}

next_quorum_round(r, votes) ==
  CHOOSE next \in QuorumRounds(r, votes) :
    \A other \in QuorumRounds(r, votes) : next <= other

\* One turn of the loop: the round entered from r, or r when the loop ends.
AdvanceOnce(r, votes, inputs) ==
  IF \/ QuorumRounds(r, votes) = {}
     \/ blocking_precondition(r, inputs, next_quorum_round(r, votes))
  THEN r
  ELSE next_quorum_round(r, votes)

\* The loop.  Every turn that does not end it enters a later round, so that
\* one turn per round that can be entered is enough.
try_advance(r, votes, inputs) ==
  LET turn == [x \in Round |-> AdvanceOnce(x, votes, inputs)]
      r1 == turn[r]
      r2 == turn[r1]
      r3 == turn[r2]
      r4 == turn[r3]
      r5 == turn[r4]
      r6 == turn[r5]
  IN  [round |-> r6, entered |-> {r1, r2, r3, r4, r5, r6} \ {r}]

\* The part of a handler from the call of try_advance on: the rounds entered
\* are recorded, and their subscribers notified with the mutex still held.
Advance(votes, inputs) ==
  LET advance == try_advance(round, votes, inputs)
  IN  /\ round' = advance.round
      /\ trans_events' = trans_events \cup advance.entered
      /\ delivery' = IF advance.entered = {} THEN "free" ELSE "notifying"

-----------------------------------------------------------------------------
Init ==
  /\ round = Idle
  /\ transition_votes = [r \in ORDERED_ROUNDS |-> {}]
  /\ trans_events = {}
  /\ reserved_indices = [i \in Index |-> None]
  /\ n_reserved = 0
  /\ masked_inputs = [i \in Index |-> None]
  /\ reserved_index_events = <<>>
  /\ masked_input_events = <<>>
  /\ delivery = "free"

\* Fault: the handler does not take the mutex.
Transition_NoMutex(p, next) ==
  /\ transition_votes' = IF next <= round THEN transition_votes
       ELSE [transition_votes EXCEPT ![next] = @ \cup {p}]
  /\ round' = try_advance(round, transition_votes', masked_inputs).round
  /\ trans_events' = trans_events \cup
       try_advance(round, transition_votes', masked_inputs).entered
  /\ UNCHANGED <<inputVars, delivery>>

\* Fault: a proposal takes the place of the earlier ones for the same round.
Transition_Replaces(p, next) ==
  /\ delivery = "free"
  /\ next > round
  /\ transition_votes' = [transition_votes EXCEPT ![next] = {p}]
  /\ Advance(transition_votes', masked_inputs)
  /\ UNCHANGED inputVars

\* A party proposes a round.  A round already passed is left as it is.
Transition(p, next) ==
  /\ delivery = "free"
  /\ \/ /\ next <= round
        /\ UNCHANGED vars
     \/ /\ next > round
        /\ transition_votes' = [transition_votes EXCEPT ![next] = @ \cup {p}]
        /\ Advance(transition_votes', masked_inputs)
        /\ UNCHANGED inputVars

\* deliver_transitions returns and the handler releases the mutex.
TransitionsDelivered ==
  /\ delivery = "notifying"
  /\ delivery' = "free"
  /\ UNCHANGED <<round, transition_votes, trans_events, inputVars>>

\* Fault: the reservation is not counted.
ReserveMaskIndices_Uncounted(c, batch) ==
  /\ round = InputMaskReservation
  /\ \A i \in Index : reserved_indices[i] # c
  /\ \A i \in Indices(batch) : /\ reserved_indices[i] = None
                               /\ AssignedClient(i) \in {None, c}
  /\ reserved_indices' =
       [i \in Index |-> IF i \in Indices(batch) THEN c ELSE reserved_indices[i]]
  /\ reserved_index_events' = Append(reserved_index_events, Event(c, batch))
  /\ UNCHANGED <<round, transition_votes, trans_events, n_reserved,
                 masked_inputs, masked_input_events, delivery>>

\* A client reserves a batch of slots.  The handler does not take the mutex.
ReserveMaskIndices(c, batch) ==
  /\ round = InputMaskReservation
  /\ \A i \in Index : reserved_indices[i] # c
  /\ \A i \in Indices(batch) : /\ reserved_indices[i] = None
                               /\ AssignedClient(i) \in {None, c}
  /\ reserved_indices' =
       [i \in Index |-> IF i \in Indices(batch) THEN c ELSE reserved_indices[i]]
  /\ n_reserved' = n_reserved + Len(batch)
  /\ reserved_index_events' = Append(reserved_index_events, Event(c, batch))
  /\ UNCHANGED <<round, transition_votes, trans_events, masked_inputs,
                 masked_input_events, delivery>>

\* What available_input_masks answers.  The u64 subtraction wraps, as it does in
\* a release build, when more was counted than there are slots.
available_input_masks ==
  IF n_reserved <= n_inputs THEN n_inputs - n_reserved
  ELSE U64 + n_inputs - n_reserved

\* What browser_execution_status answers to a client about the inputs.
input_indices(c) == {i \in Index : AssignedClient(i) = c}

browser_execution_status(c) ==
  LET assigned_clients == {AssignedClient(i) : i \in Index} \ {None}
      Submitted(x) == \A i \in input_indices(x) : masked_inputs[i] # None
  IN  [round               |-> round,
       reserved_inputs     |-> Cardinality({i \in Index : reserved_indices[i] # None}),
       submitted_inputs    |-> Cardinality({i \in Index : masked_inputs[i] # None}),
       total_clients       |-> Cardinality(assigned_clients),
       submitted_clients   |-> Cardinality({x \in assigned_clients : Submitted(x)}),
       own_input_reserved  |-> /\ input_indices(c) # {}
                               /\ \A i \in input_indices(c) : reserved_indices[i] = c,
       own_input_submitted |-> input_indices(c) # {} /\ Submitted(c)]

\* The counter of wait_for_indices and of wait_for_inputs: for any number of
\* events taken, how many indices were in them.
Received(events) == RunningSums([k \in DOMAIN events |-> Len(events[k].indices)])

\* Both loops end when they have counted n_inputs indices.
WaitReturns(events) == Received(events)[Len(events)] >= n_inputs

\* Fault: a slot that is filled may be filled again.
SubmitMaskedInputs_Again(c, batch) ==
  /\ delivery = "free"
  /\ round = InputCollection
  /\ \A i \in Indices(batch) : reserved_indices[i] = c
  /\ masked_inputs' =
       [i \in Index |-> IF i \in Indices(batch) THEN c ELSE masked_inputs[i]]
  /\ masked_input_events' = Append(masked_input_events, Event(c, batch))
  /\ delivery' = "submitting"
  /\ UNCHANGED <<round, transition_votes, trans_events, reserved_indices,
                 n_reserved, reserved_index_events>>

\* Fault: who reserved the slots is not looked at.
SubmitMaskedInputs_Anyone(c, batch) ==
  /\ delivery = "free"
  /\ round = InputCollection
  /\ \A i \in Indices(batch) : masked_inputs[i] = None
  /\ masked_inputs' =
       [i \in Index |-> IF i \in Indices(batch) THEN c ELSE masked_inputs[i]]
  /\ masked_input_events' = Append(masked_input_events, Event(c, batch))
  /\ delivery' = "submitting"
  /\ UNCHANGED <<round, transition_votes, trans_events, reserved_indices,
                 n_reserved, reserved_index_events>>

\* A client submits a batch of masked inputs: the step up to the point where
\* the handler drops the state lock to send the event to its subscribers.
SubmitMaskedInputs(c, batch) ==
  /\ delivery = "free"
  /\ round = InputCollection
  /\ \A i \in Indices(batch) : /\ reserved_indices[i] = c
                               /\ masked_inputs[i] = None
  /\ masked_inputs' =
       [i \in Index |-> IF i \in Indices(batch) THEN c ELSE masked_inputs[i]]
  /\ masked_input_events' = Append(masked_input_events, Event(c, batch))
  /\ delivery' = "submitting"
  /\ UNCHANGED <<round, transition_votes, trans_events, reserved_indices,
                 n_reserved, reserved_index_events>>

\* Fault: the handler does not try to advance.
MaskedInputsSent_NoAdvance ==
  /\ delivery = "submitting"
  /\ delivery' = "free"
  /\ UNCHANGED <<round, transition_votes, trans_events, inputVars>>

\* The rest of the handler, from taking the state lock again: these inputs
\* may be the ones that a proposal of MPCExecution was waiting for.
MaskedInputsSent ==
  /\ delivery = "submitting"
  /\ Advance(transition_votes, masked_inputs)
  /\ UNCHANGED <<transition_votes, inputVars>>

Next ==
  \/ \E p \in mpc_nodes, next \in ORDERED_ROUNDS : Transition(p, next)
  \/ TransitionsDelivered
  \/ \E c \in Client, batch \in Batches : ReserveMaskIndices(c, batch)
  \/ \E c \in Client, batch \in Batches : SubmitMaskedInputs(c, batch)
  \/ MaskedInputsSent

Spec == Init /\ [][Next]_vars

-----------------------------------------------------------------------------
\* Types of the state of an execution.
TypeOK ==
  /\ round \in Round
  /\ transition_votes \in [ORDERED_ROUNDS -> SUBSET mpc_nodes]
  /\ trans_events \subseteq ORDERED_ROUNDS
  /\ reserved_indices \in [Index -> Client \cup {None}]
  /\ n_reserved \in Nat
  /\ masked_inputs \in [Index -> Client \cup {None}]
  /\ reserved_index_events \in Seq([client : Client, indices : Batches])
  /\ masked_input_events \in Seq([client : Client, indices : Batches])
  /\ delivery \in {"free", "submitting", "notifying"}

AllInputsSubmitted == \A i \in Index : masked_inputs[i] # None

\* Whatever t parties are faulty, every round that was entered had been
\* proposed by a party outside them: transition_quorum is at least t + 1 and
\* transition counts distinct parties of the roster.
OneHonestProposer ==
  \A r \in trans_events : \A faulty \in SUBSET mpc_nodes :
    Cardinality(faulty) <= t => transition_votes[r] \ faulty # {}

\* No proposal is stranded: outside the window in which submit_masked_inputs
\* has recorded its inputs and not yet called try_advance, a round that
\* follows the current one and has its quorum is MPCExecution, waiting in
\* InputCollection for an input that is really missing.
NoStrandedProposal ==
  \A next \in ORDERED_ROUNDS :
    /\ delivery # "submitting"
    /\ Follows(round, next)
    /\ HasQuorum(transition_votes, next)
    => /\ round = InputCollection
       /\ ~AllInputsSubmitted

\* An execution that collected inputs runs on all of them: once it has been
\* through InputCollection, MPCExecution is entered with no empty slot
\* (blocking_precondition), whatever the parties propose and in what order.
CollectedInputsComplete ==
  {InputCollection, MPCExecution} \subseteq trans_events => AllInputsSubmitted

\* A masked input comes from the client that reserved its slot, and a slot
\* that the registration assigns is reserved by the assigned client only.
InputProvenance ==
  \A i \in Index :
    /\ masked_inputs[i] # None => masked_inputs[i] = reserved_indices[i]
    /\ /\ reserved_indices[i] # None
       /\ AssignedClient(i) # None
       => reserved_indices[i] = AssignedClient(i)

\* The history that late subscribers replay tells the same story as the
\* slots: a filled slot is announced by exactly one event, of the client that
\* filled it, and an empty slot by none.
OneEventPerInput ==
  \A i \in Index :
    LET announcing == {k \in DOMAIN masked_input_events :
                        i \in Indices(masked_input_events[k].indices)}
    IN  IF masked_inputs[i] = None
        THEN announcing = {}
        ELSE \E k \in announcing :
               /\ announcing = {k}
               /\ masked_input_events[k].client = masked_inputs[i]

\* While the event of a submission is being sent the execution is still in
\* InputCollection: MPCStarted is not announced before the last masked input,
\* because transition waits for the mutex that submit_masked_inputs holds.
InputsAnnouncedBeforeMPC == delivery = "submitting" => round = InputCollection

\* A vector that lists no slot twice.
ListsOnce(batch) == \A j, k \in DOMAIN batch : batch[j] = batch[k] => j = k

\* available_input_masks answers the number of slots not reserved yet for as
\* long as every call of reserve_mask_indices listed its slots once, and from
\* the first call that lists one twice on it never does again: such a call is
\* not refused and the slot is counted for every time it is listed.  (A count
\* that does not fit into a u64 is out of reach.)
AvailableMasksExact ==
  n_reserved < U64 =>
    (available_input_masks = Cardinality({i \in Index : reserved_indices[i] = None})
      <=> \A k \in DOMAIN reserved_index_events :
            ListsOnce(reserved_index_events[k].indices))

\* The progress a browser shows is one a client can rely on: an input reported
\* as submitted was reserved and submitted by that client itself, no more inputs
\* are in than were reserved, and once an execution that collected inputs runs,
\* every client is reported to have submitted (browser_execution_status).
StatusTruthful ==
  \A c \in Client :
    LET status == browser_execution_status(c)
    IN  /\ status.own_input_submitted =>
             /\ status.own_input_reserved
             /\ \A i \in input_indices(c) : masked_inputs[i] = c
        /\ status.submitted_inputs <= status.reserved_inputs
        /\ {InputCollection, MPCExecution} \subseteq trans_events =>
             status.submitted_clients = status.total_clients

\* MPCExecution is never entered while an input slot is empty.
NoTruncatedInputs == round >= MPCExecution => AllInputsSubmitted

\* Every step that changes the round enters later rounds only, each of them
\* following the current round or another round entered by the same step,
\* and records an event for each: the cascade of try_advance skips no round
\* but the ones skips_empty_input_rounds and skips_empty_output_rounds name.
RoundsFollowOrder ==
  [][LET entered == trans_events' \ trans_events
     IN  /\ trans_events \subseteq trans_events'
         /\ \A r \in entered :
              /\ round < r /\ r <= round'
              /\ \E before \in entered \cup {round} : Follows(before, r)
         /\ round' # round => round' \in entered]_vars

\* The promise of an execution about its inputs (InputCommitment), read off its
\* state: it is collecting in InputCollection and running from MPCExecution on.
Commitment == INSTANCE InputCommitment WITH
  owner    <- reserved_indices,
  input    <- masked_inputs,
  phase    <- IF round < InputCollection THEN "reserving"
              ELSE IF round = InputCollection THEN "collecting"
              ELSE "running",
  assigned <- [i \in Index |-> AssignedClient(i)]

\* Whatever the parties propose and however handlers interleave, the execution
\* keeps that promise: slots are taken and filled once, each by its own client,
\* and try_advance starts the program on all inputs or, when it skips the input
\* rounds, before anyone reserved a slot.
KeepsCommitment == Commitment!Spec
=============================================================================
