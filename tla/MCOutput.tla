------------------------------- MODULE MCOutput -------------------------------
\* Instances of OutputDelivery for TLC.
EXTENDS OutputDelivery, TLC

CONSTANTS p1, p2, p3, c1, c2

\* Parties p1 and p2 are honest, p3 sends what it likes.
FairSpec ==
  /\ Init
  /\ [][HonestNext({p1, p2})]_vars
  /\ Fairness({p1, p2})
================================================================================
