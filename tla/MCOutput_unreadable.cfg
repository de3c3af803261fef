\* A share the client cannot decrypt.
CHECK_DEADLOCK FALSE
SPECIFICATION FairSpec
CONSTANTS
  p1 = p1
  p2 = p2
  p3 = p3
  c1 = c1
  c2 = c2
  None = None
  mpc_nodes = {p1, p2, p3}
  Connection = {c1}
  Share = {"good", "unreadable"}
  min_output_shares = 2
  min_shares = 2
INVARIANT TriesUntilItSucceeds
