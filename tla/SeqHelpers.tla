------------------------------ MODULE SeqHelpers ------------------------------
(***************************************************************************)
(* Two operations on sequences that the program's loops come down to, in a *)
(* form that can be reasoned about: keeping some entries, and adding up.   *)
(***************************************************************************)
EXTENDS Integers, Sequences, FiniteSets

\* The entries at the positions that are kept, in the order they have: the j-th
\* comes from the position that j of the kept ones do not exceed.
Retain(seq, kept) ==
  [j \in 1..Cardinality(kept) |->
     seq[CHOOSE k \in kept : Cardinality({i \in kept : i <= k}) = j]]

\* For any number of entries, how much the first that many add up to.
RunningSums(numbers) ==
  LET sum[k \in 0..Len(numbers)] == IF k = 0 THEN 0 ELSE sum[k - 1] + numbers[k]
  IN  sum
================================================================================
