----------------------------- MODULE MCExecution -----------------------------
(* Instances of CoordinatorExecution for TLC. *)
EXTENDS CoordinatorExecution, TLC

CONSTANTS p1, p2, p3, c1, c2

\* Parties are interchangeable; clients are too since no slot is assigned.
Symmetry == Permutations(mpc_nodes) \cup Permutations(Client)

\* Of two slots: the first, the second written twice, and both.
BatchesOfTwo == {<<0>>, <<1, 1>>, <<0, 1>>}

Unassigned == <<>>
==============================================================================
