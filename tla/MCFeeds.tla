------------------------------- MODULE MCFeeds -------------------------------
(* Instances of EventFeeds for TLC. *)
EXTENDS EventFeeds, TLC

CONSTANTS p1, c1, c2, s1, s2, w1

\* The first slot, the second, and the first written three times.
BatchesOfTwo == {<<0>>, <<1>>, <<0, 0, 0>>}

AssignedToBoth == <<c1, c2>>

\* Subscriptions are interchangeable.
Symmetry == Permutations(Subscriber)
==============================================================================
