------------------------------ MODULE MCHonest ------------------------------
(* An instance of HonestExecution for TLC, and the layouts of small manifests. *)
EXTENDS HonestExecution, TLC

CONSTANTS p1, p2, p3, c1, c2, c3

\* Every slot is assigned to a client, as some layout has it.
ASSUME AllAssigned == n_inputs > 0 /\ Len(input_assignments) = n_inputs

ASSUME SomeLayout == Registered # {}

ThreeInputs == <<c2, c1, c1>>

\* Each client sends the vector of its slots.
OwnSlots == {<<0>>, <<1, 2>>}

UpToTwo(S) == {<<>>} \cup [1..1 -> S] \cup [1..2 -> S]

SmallManifests == UpToTwo([client_slot : 0..1, inputs : 0..2, outputs : 0..1])

SmallBindings == UpToTwo([client_slot : 0..1, client : {c1, c2}])

\* Three entries in the order of their slots, bound in any way.
ThreeSlots ==
  {[k \in 1..3 |-> [client_slot |-> k - 1, inputs |-> f[k], outputs |-> 2 - f[k]]] :
     f \in [1..3 -> 0..2]}

ThreeBindings == [1..3 -> [client_slot : 0..2, client : Client]]

SmallLayouts ==
  [manifest : SmallManifests, bindings : SmallBindings]
    \cup [manifest : ThreeSlots, bindings : ThreeBindings]
=============================================================================
