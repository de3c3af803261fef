------------------------------ MODULE MCRegistry ------------------------------
\* Instances of ExecutionRegistry for TLC.
EXTENDS ExecutionRegistry, TLC

CONSTANTS p1, p2, p3, e1, e2, e3, e4

\* Parties are interchangeable here: request_shutdown's designated party does
\* not show in the state.
Symmetry == Permutations(mpc_nodes)
================================================================================
