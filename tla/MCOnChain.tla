------------------------------- MODULE MCOnChain -------------------------------
\* Instance of OnChainExecution for TLC.
EXTENDS OnChainExecution, TLC

CONSTANTS d, q, a1, a2, a3, t1, t2, t3, i1, i2

Events == [addr : Address, index : Index]

Meant == [x \in Honest |-> IF x = a1 THEN i1 ELSE i2]

Certificates == [x \in Honest |-> IF x = a1 THEN t1 ELSE t2]
================================================================================
