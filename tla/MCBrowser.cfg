\* Three tabs, two input slots, two parties, an authenticator that counts; two
\* nonces, two calls at a time, a window of two seconds in four of time.
\* The tabs may stop once the inputs are in or the authenticator is used up.
CHECK_DEADLOCK FALSE
SPECIFICATION SpecParts
CONSTANTS
  b1 = b1
  b2 = b2
  b3 = b3
  p1 = p1
  p2 = p2
  n1 = n1
  n2 = n2
  h1 = h1
  h2 = h2
  None = None
  Idle = Idle
  Tab = {b1, b2, b3}
  mpc_nodes = {p1, p2}
  Slot = {0, 1}
  Counting = TRUE
  MaxCount = 4
  Handler = {h1, h2}
  Nonce = {n1, n2}
  NONCE_WINDOW_SECONDS = 2
  MaxTime = 4
SYMMETRY Symmetry
INVARIANT OutputsToSubmitter
INVARIANT ReplayedOnlyIfOvertaken
PROPERTY TargetSettles
