-------------------------------- MODULE MCNode --------------------------------
\* Instances of NodeMaskShares and MaskReconstruction for TLC.
EXTENDS MaskReconstruction, TLC

CONSTANTS a, b

\* Client a has the indices 0 and 1, client b the index 2.
Owners == <<a, a, b>>

OwnReservations ==
  {[i \in batch |-> Owners[i + 1]] : batch \in (SUBSET Index) \ {{}}}

\* Client a also asks for the index of b.  Of the requests of b one is empty, one
\* has an index that does not exist, and one leaves the range of u64.
SomeRequests ==
  {[client |-> a, start |-> 0, count |-> 2],
   [client |-> a, start |-> 0, count |-> 3],
   [client |-> b, start |-> 2, count |-> 1],
   [client |-> b, start |-> 2, count |-> 0],
   [client |-> b, start |-> 2, count |-> 2],
   [client |-> b, start |-> 4, count |-> 1]}

\* What client a asks all nodes for.
OwnCalls == {[client |-> a, start |-> 0, count |-> 2]}
================================================================================
