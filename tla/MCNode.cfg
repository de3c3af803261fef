\* Two clients that ask for their own indices, one of them also for another.
\* Three nodes, one of which is faulty; two shares are enough.
SPECIFICATION SpecClient
CONSTANTS
  a = a
  b = b
  None = None
  Index = {0, 1, 2}
  Client = {a, b}
  Requests <- SomeRequests
  Reservations <- OwnReservations
  u64_MAX = 4
  me = a
  Calls <- OwnCalls
  n = 3
  served = 2
  Faulty = {1}
  min_shares = 2
INVARIANTS SharesOnlyToReserver PendingNotReady ResultJustified
PROPERTIES Returns
