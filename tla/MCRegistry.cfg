\* A one-off coordinator for e1 that also serves three other executions, one
\* at a time, with two tombstones.  The listener may stop for good.
CHECK_DEADLOCK FALSE
SPECIFICATION Spec
CONSTANTS
  p1 = p1
  p2 = p2
  p3 = p3
  e1 = e1
  e2 = e2
  e3 = e3
  e4 = e4
  None = None
  mpc_nodes = {p1, p2, p3}
  t = 1
  ExecutionId = {e1, e2, e3, e4}
  one_off_execution = e1
  MAX_CONCURRENT_EXECUTIONS = 2
  MAX_RETIRED_EXECUTIONS = 2
SYMMETRY Symmetry
INVARIANTS WithinCapacity TombstonesQueued DroppedOnlyRetired
  SealNeverReplaces ShutdownJustified
PROPERTY RetiredUntilForgotten
