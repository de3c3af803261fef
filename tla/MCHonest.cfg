\* Three parties, one of them faulty; one client has two slots, one has one and
\* one has none.
CONSTANTS
  p1 = p1
  p2 = p2
  p3 = p3
  c1 = c1
  c2 = c2
  c3 = c3
  None = None
  mpc_nodes = {p1, p2, p3}
  Honest = {p1, p2}
  t = 1
  Client = {c1, c2, c3}
  n_inputs = 3
  input_assignments <- ThreeInputs
  Batches <- OwnSlots
  U64 = 16
  Layouts <- SmallLayouts
SPECIFICATION HonestSpec
INVARIANTS NoTruncatedRun LayoutsAsBound InputsAsBound NeverStuck
PROPERTY Finishes
