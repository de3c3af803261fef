------------------------------- MODULE Rounds -------------------------------
(***************************************************************************)
(* The protocol rounds of an execution and the two quorums of the          *)
(* coordinator (coord-shared/src/lib.rs, off-chain/src/lib.rs).            *)
(*                                                                         *)
(* A round is represented by its round_index, so that round_before(r) is   *)
(* r - 1 and "rounds only ever advance" is the order of the integers.      *)
(***************************************************************************)
EXTENDS Integers

Idle                 == 0
Preprocessing        == 1
InputMaskReservation == 2
InputCollection      == 3
MPCExecution         == 4
OutputDistribution   == 5
ProgramFinished      == 6

Round == Idle..ProgramFinished

\* The rounds a party may propose, in the order next_quorum_round scans them.
ORDERED_ROUNDS == Preprocessing..ProgramFinished

\* Idle has no round before it: the code's None is the integer -1 here.
round_before(r) == r - 1

min(a, b) == IF a <= b THEN a ELSE b

max(a, b) == IF a >= b THEN a ELSE b

\* Fault: every party must propose.
transition_quorum_unanimous(n, t) == n

\* How many distinct parties must propose a round before it is applied.
transition_quorum(n, t) == max(min(2 * t + 1, n - t), t + 1)

\* How many parties must acknowledge completion before the state of an
\* execution may be dropped.
retirement_quorum(n, t) == n - t

\* The topologies that validate_topology accepts, as far as sizes go.
ValidTopology(n, t) == n > 0 /\ t < n /\ n >= 2 * t + 1
=============================================================================
