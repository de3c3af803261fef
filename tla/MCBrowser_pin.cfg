\* The instance of MCBrowser.cfg, asked for what the comment of
\* pin_binding_from_token promises.
CHECK_DEADLOCK FALSE
SPECIFICATION SpecParts
CONSTANTS
  b1 = b1
  b2 = b2
  b3 = b3
  p1 = p1
  p2 = p2
  n1 = n1
  n2 = n2
  h1 = h1
  h2 = h2
  None = None
  Idle = Idle
  Tab = {b1, b2, b3}
  mpc_nodes = {p1, p2}
  Slot = {0, 1}
  Counting = TRUE
  MaxCount = 4
  Handler = {h1, h2}
  Nonce = {n1, n2}
  NONCE_WINDOW_SECONDS = 2
  MaxTime = 4
SYMMETRY Symmetry
PROPERTY PinIsLastWrite
