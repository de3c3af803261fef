-------------------------- MODULE InputCommitment --------------------------
(***************************************************************************)
(* What an execution promises its clients and parties about the inputs,    *)
(* with nothing said of votes, quorums, events or locks: slots are taken,  *)
(* then filled by whoever took them, and then the program runs, on all the *)
(* inputs or, when nobody took part, on none.  From there on neither the   *)
(* inputs nor their owners change.  CoordinatorExecution implements this,  *)
(* and so does OnChainExecution.                                           *)
(***************************************************************************)
CONSTANTS Index, Client, None, assigned

VARIABLES
  owner,  \* who took a slot
  input,  \* whose input a slot holds
  phase   \* "reserving", "collecting" or "running"

commitment == <<owner, input, phase>>

Free == [i \in Index |-> None]

Init == owner = Free /\ input = Free /\ phase = "reserving"

\* A client takes free slots that are its own or nobody's.
Take(c, slots) ==
  /\ phase = "reserving"
  /\ \A i \in slots : owner[i] = None /\ assigned[i] \in {None, c}
  /\ owner' = [i \in Index |-> IF i \in slots THEN c ELSE owner[i]]
  /\ UNCHANGED <<input, phase>>

Collect ==
  /\ phase = "reserving"
  /\ phase' = "collecting"
  /\ UNCHANGED <<owner, input>>

\* A client fills slots it owns.
Fill(c, slots) ==
  /\ phase = "collecting"
  /\ \A i \in slots : owner[i] = c /\ input[i] = None
  /\ input' = [i \in Index |-> IF i \in slots THEN c ELSE input[i]]
  /\ UNCHANGED <<owner, phase>>

\* The program starts: all slots are filled, or none was ever taken.
Run ==
  /\ \/ phase = "collecting" /\ \A i \in Index : input[i] # None
     \/ phase = "reserving" /\ owner = Free
  /\ phase' = "running"
  /\ UNCHANGED <<owner, input>>

Next ==
  \/ \E c \in Client, slots \in SUBSET Index : Take(c, slots) \/ Fill(c, slots)
  \/ Collect
  \/ Run

Spec == Init /\ [][Next]_commitment
=============================================================================
