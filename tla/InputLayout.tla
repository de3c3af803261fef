------------------------------ MODULE InputLayout ------------------------------
(***************************************************************************)
(* How the input slots of an execution come about.  run-coord binds the    *)
(* client slots of a program's client IO manifest to identities            *)
(* (bins/src/bin/run-coord.rs, build_input_assignment) and registers the   *)
(* compact ranges it gets; the coordinator expands them to one assignment  *)
(* per slot (off-chain/src/lib.rs, CoordinatorExecutionState::new).        *)
(*                                                                         *)
(* A manifest is a sequence of [client_slot, inputs, outputs], the last    *)
(* two being how many there are, and bindings are a sequence of            *)
(* [client_slot, client].                                                  *)
(***************************************************************************)
EXTENDS SeqHelpers, Functions

Error == [refused |-> TRUE]

\* The client slot of every entry.
SlotSeq(seq) == [i \in DOMAIN seq |-> seq[i].client_slot]

SlotsIn(seq) == Range(SlotSeq(seq))

\* The entry of a manifest for a client slot.
SchemaOf(manifest, client_slot) ==
  manifest[CHOOSE i \in DOMAIN manifest : manifest[i].client_slot = client_slot]

\* Every slot of the manifest is bound once, to an identity of its own.  The
\* clients with inputs are numbered in the order of the bindings, and those with
\* outputs are authorized to get them.
build_input_assignment(manifest, bindings) ==
  LET Schema(b) == SchemaOf(manifest, b.client_slot)
      with_inputs ==
        Retain(bindings, {i \in DOMAIN bindings : Schema(bindings[i]).inputs > 0})
      with_outputs ==
        Retain(bindings, {i \in DOMAIN bindings : Schema(bindings[i]).outputs > 0})
  IN  IF \/ ~IsInjective(SlotSeq(manifest))
         \/ ~IsInjective(SlotSeq(bindings))
         \/ SlotsIn(bindings) # SlotsIn(manifest)
         \/ ~IsInjective([i \in DOMAIN bindings |-> bindings[i].client])
      THEN Error
      ELSE [clients |-> [k \in DOMAIN with_inputs |-> with_inputs[k].client],
            ranges |-> [k \in DOMAIN with_inputs |->
                          [client_index |-> k - 1, count |-> Schema(with_inputs[k]).inputs]],
            output_clients |-> [k \in DOMAIN with_outputs |-> with_outputs[k].client]]

\* How many slots the first k ranges take, for any k.
SlotsUpTo(ranges) == RunningSums([k \in DOMAIN ranges |-> ranges[k].count])

TotalInputs(ranges) == SlotsUpTo(ranges)[Len(ranges)]

\* The range that the i-th slot falls into.
RangeOf(ranges, i) ==
  CHOOSE k \in DOMAIN ranges : SlotsUpTo(ranges)[k - 1] < i /\ i <= SlotsUpTo(ranges)[k]

\* Fault: the labels of a client start at one.
expand_input_ranges_FromOne(ranges) ==
  [i \in 1..TotalInputs(ranges) |->
     LET k == RangeOf(ranges, i)
     IN  [client_index |-> ranges[k].client_index,
          label        |-> i - SlotsUpTo(ranges)[k - 1]]]

\* One [client_index, label] per input slot, in the order of the ranges: the
\* slots of a range follow those of the ranges before it, labelled from zero.
expand_input_ranges(ranges) ==
  [i \in 1..TotalInputs(ranges) |->
     LET k == RangeOf(ranges, i)
     IN  [client_index |-> ranges[k].client_index,
          label        |-> i - SlotsUpTo(ranges)[k - 1] - 1]]

\* What CoordinatorExecutionState::new accepts of an input assignment.
ValidAssignment(assignment, n_inputs) ==
  /\ assignment.ranges # <<>> => n_inputs = TotalInputs(assignment.ranges)
  /\ \A k \in DOMAIN assignment.ranges :
       assignment.ranges[k].client_index < Len(assignment.clients)

\* The client of every input slot (input_slot_client).
SlotClients(assignment) ==
  LET slots == expand_input_ranges(assignment.ranges)
  IN  [i \in DOMAIN slots |-> assignment.clients[slots[i].client_index + 1]]

-----------------------------------------------------------------------------
\* What a layout should be: manifest and bindings are in one-to-one
\* correspondence with the clients.
OneToOne(manifest, bindings) ==
  /\ Len(manifest) = Len(bindings)
  /\ SlotsIn(manifest) = SlotsIn(bindings)
  /\ \A i, j \in DOMAIN bindings : i # j =>
       /\ bindings[i].client # bindings[j].client
       /\ bindings[i].client_slot # bindings[j].client_slot

\* An assignment is accepted at registration, gives each client as many input
\* slots, next to each other, as the manifest has inputs for it, labelled from
\* zero on, and authorizes those it has outputs for.
AsBound(assignment, manifest, bindings) ==
  LET slots == expand_input_ranges(assignment.ranges)
      clients == SlotClients(assignment)
      Of(c) == {i \in DOMAIN slots : clients[i] = c}
  IN  /\ ValidAssignment(assignment, Len(slots))
      /\ \A b \in DOMAIN bindings :
           LET c == bindings[b].client
               schema == SchemaOf(manifest, bindings[b].client_slot)
           IN  /\ {slots[i].label : i \in Of(c)} = 0..schema.inputs - 1
               /\ \A i, j \in Of(c) : slots[i].label - slots[j].label = i - j
               /\ schema.outputs > 0 <=>
                    c \in {assignment.output_clients[k] : k \in DOMAIN assignment.output_clients}

\* A layout is as the manifest and the bindings ask for, and one that is refused
\* is not one-to-one (build_input_assignment, CoordinatorExecutionState::new,
\* expand_input_ranges).
LayoutAsBound(manifest, bindings) ==
  LET built == build_input_assignment(manifest, bindings)
  IN  IF built = Error THEN ~OneToOne(manifest, bindings)
      ELSE AsBound(built, manifest, bindings)
================================================================================
