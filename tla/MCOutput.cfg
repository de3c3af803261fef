\* Three parties, one of them faulty, and two subscriptions of the client.
\* At the end every share is in and every subscription closed.
CHECK_DEADLOCK FALSE
SPECIFICATION FairSpec
CONSTANTS
  p1 = p1
  p2 = p2
  p3 = p3
  c1 = c1
  c2 = c2
  None = None
  mpc_nodes = {p1, p2, p3}
  Connection = {c1, c2}
  Share = {"good", "short"}
  min_output_shares = 2
  min_shares = 2
INVARIANTS OpenSinkKept AllSharesOffered
PROPERTY OutputsObtained
