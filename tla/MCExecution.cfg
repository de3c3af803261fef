\* Three parties with one faulty, two slots that two clients may reserve.
SPECIFICATION Spec
CONSTANTS
  p1 = p1
  p2 = p2
  p3 = p3
  c1 = c1
  c2 = c2
  None = None
  mpc_nodes = {p1, p2, p3}
  t = 1
  Client = {c1, c2}
  n_inputs = 2
  input_assignments <- Unassigned
  Batches <- BatchesOfTwo
  U64 = 16
SYMMETRY Symmetry
INVARIANTS OneHonestProposer NoStrandedProposal OneEventPerInput
PROPERTIES RoundsFollowOrder KeepsCommitment
