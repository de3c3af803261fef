\* One party, two slots that two clients may reserve.
SPECIFICATION Spec
CONSTANTS
  p1 = p1
  p2 = p2
  p3 = p3
  c1 = c1
  c2 = c2
  None = None
  mpc_nodes = {p1}
  t = 0
  Client = {c1, c2}
  n_inputs = 2
  input_assignments <- Unassigned
  Batches <- BatchesOfTwo
  U64 = 16
INVARIANT NoTruncatedInputs
