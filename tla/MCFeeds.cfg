\* One party, two slots assigned to one client each, two feed subscriptions and
\* one subscription to a round.
SPECIFICATION SpecFeeds
CONSTANTS
  p1 = p1
  c1 = c1
  c2 = c2
  s1 = s1
  s2 = s2
  w1 = w1
  None = None
  mpc_nodes = {p1}
  t = 0
  Client = {c1, c2}
  n_inputs = 2
  input_assignments <- AssignedToBoth
  Batches <- BatchesOfTwo
  U64 = 16
  Subscriber = {s1, s2}
  Waiter = {w1}
SYMMETRY Symmetry
INVARIANTS AvailableMasksExact StatusTruthful FeedExact
  NoSinkForgotten WaitersNotLost InputsBeforeMPCStarted WaitedForAll
