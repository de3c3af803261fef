\* A standing coordinator with one slot: an output handler that finds its
\* execution gone.
SPECIFICATION Spec
CONSTANTS
  p1 = p1
  p2 = p2
  p3 = p3
  e1 = e1
  e2 = e2
  e3 = e3
  e4 = e4
  None = None
  mpc_nodes = {p1, p2, p3}
  t = 1
  ExecutionId = {e1, e2}
  one_off_execution = None
  MAX_CONCURRENT_EXECUTIONS = 1
  MAX_RETIRED_EXECUTIONS = 1
SYMMETRY Symmetry
INVARIANT OutputExecutionRemains
