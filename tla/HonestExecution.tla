-------------------------- MODULE HonestExecution --------------------------
(***************************************************************************)
(* An execution whose parties and clients follow the protocol of the       *)
(* Coordinator trait, except for the parties outside Honest, which propose *)
(* whatever they like whenever they like, or nothing at all.               *)
(*                                                                         *)
(* An honest party proposes a round when the one before it has been        *)
(* entered, InputCollection once wait_for_indices has returned, and        *)
(* MPCExecution once wait_for_inputs has.  An honest client reserves all   *)
(* the slots assigned to it in one call and submits an input for each.     *)
(*                                                                         *)
(* The slots may come from a client IO manifest and the bindings of its    *)
(* client slots, through run-coord (InputLayout).  Layouts are the pairs   *)
(* of the two under consideration.                                         *)
(***************************************************************************)
EXTENDS CoordinatorExecution, InputLayout

CONSTANTS
  Honest,      \* the parties that follow the protocol
  Layouts      \* manifests with bindings of their client slots

ASSUME HonestAssumption ==
  /\ Honest \subseteq mpc_nodes
  /\ Cardinality(mpc_nodes \ Honest) <= t

ASSUME LayoutsAssumption ==
  \A l \in Layouts :
    /\ l.manifest \in Seq([client_slot : Nat, inputs : Nat, outputs : Nat])
    /\ l.bindings \in Seq([client_slot : Nat, client : Client])

\* The layouts that this execution may have been registered from.
Registered ==
  {l \in Layouts :
     LET built == build_input_assignment(l.manifest, l.bindings)
     IN  /\ built # Error
         /\ n_inputs = TotalInputs(built.ranges)
         /\ input_assignments = SlotClients(built)}

\* What such a layout says of a client: how many inputs the manifest has for it, and
\* what the slots are.
Expected ==
  UNION {{[client |-> l.bindings[b].client,
           inputs |-> SchemaOf(l.manifest, l.bindings[b].client_slot).inputs,
           slots  |-> expand_input_ranges(
                        build_input_assignment(l.manifest, l.bindings).ranges)] :
             b \in DOMAIN l.bindings} : l \in Registered}

ProtocolAllows(next) ==
  /\ next = round + 1
  /\ next = InputCollection => WaitReturns(reserved_index_events)
  /\ next = MPCExecution => WaitReturns(masked_input_events)

HonestTransition(p, next) == ProtocolAllows(next) /\ Transition(p, next)

SlotsOf(c) == {i \in Index : AssignedClient(i) = c}

HonestReserve(c) ==
  \E batch \in Batches : /\ Indices(batch) = SlotsOf(c)
                         /\ ReserveMaskIndices(c, batch)

HonestSubmit(c) == \E batch \in Batches : SubmitMaskedInputs(c, batch)

HonestNext ==
  \/ \E p \in Honest, next \in ORDERED_ROUNDS : HonestTransition(p, next)
  \/ \E p \in mpc_nodes \ Honest, next \in ORDERED_ROUNDS : Transition(p, next)
  \/ TransitionsDelivered
  \/ \E c \in Client : HonestReserve(c)
  \/ \E c \in Client : HonestSubmit(c)
  \/ MaskedInputsSent

\* The handlers end because each send is cut off by a timeout; the mutex is
\* granted in the order it was asked for; honest participants keep calling.
Fairness ==
  /\ WF_vars(TransitionsDelivered)
  /\ WF_vars(MaskedInputsSent)
  /\ \A p \in Honest : WF_vars(\E next \in ORDERED_ROUNDS : HonestTransition(p, next))
  /\ \A c \in Client : WF_vars(HonestReserve(c)) /\ WF_vars(HonestSubmit(c))

HonestSpec == Init /\ [][HonestNext]_vars /\ Fairness

-----------------------------------------------------------------------------
\* With at most t faulty parties the program never runs on a truncated input
\* set: MPCExecution needs a quorum, a quorum contains an honest party, and an
\* honest party has received every input.
NoTruncatedRun == round >= MPCExecution => AllInputsSubmitted

\* When an execution is registered, the layout of every manifest is as bound,
\* whichever way the bindings repeat, omit or reorder its slots
\* (build_input_assignment, CoordinatorExecutionState::new, expand_input_ranges).
LayoutsAsBound == Init => \A l \in Layouts : LayoutAsBound(l.manifest, l.bindings)

\* From the manifest to the program: what the program runs on is, for every client,
\* as many inputs as the manifest has for the client slot bound to it, labelled from
\* zero on and next to each other, and each of them came from that client
\* (build_input_assignment, expand_input_ranges, reserve_mask_indices,
\* submit_masked_inputs, try_advance).
InputsAsBound ==
  round >= MPCExecution =>
    \A e \in Expected :
      LET given == {i \in Index : masked_inputs[i] = e.client}
      IN  /\ {e.slots[i + 1].label : i \in given} = 0..e.inputs - 1
          /\ \A i, j \in given : e.slots[i + 1].label - e.slots[j + 1].label = i - j

\* The t faulty parties can neither halt the execution by falling silent nor
\* derail it by proposing rounds early: with every slot assigned to a client, it
\* always finishes.
Finishes == <>(round = ProgramFinished)

\* Why it does: until it has finished, somebody always has something to do.  A
\* handler is under way, or an honest party may propose the next round and has not,
\* or the call of a client that has not reserved its slots would be taken, or a slot
\* that is reserved can be filled (transition, reserve_mask_indices,
\* submit_masked_inputs).
NeverStuck ==
  \/ round = ProgramFinished
  \/ delivery # "free"
  \/ ProtocolAllows(round + 1) /\ \E p \in Honest : p \notin transition_votes[round + 1]
  \/ /\ round = InputMaskReservation
     /\ \E c \in Client : /\ SlotsOf(c) # {}
                          /\ \A i \in Index : reserved_indices[i] # c
                          /\ \A i \in SlotsOf(c) : reserved_indices[i] = None
  \/ /\ round = InputCollection
     /\ \E i \in Index : reserved_indices[i] # None /\ masked_inputs[i] = None
=============================================================================
