\* Two parties, two honest clients with an index each, and another address
\* and TLS identity.
\* Everything has been said once the execution is over or a client failed.
CHECK_DEADLOCK FALSE
SPECIFICATION SpecExecution
CONSTANTS
  d = d
  q = q
  a1 = a1
  a2 = a2
  a3 = a3
  t1 = t1
  t2 = t2
  t3 = t3
  i1 = i1
  i2 = i2
  None = None
  Address = {a1, a2, a3}
  Id = {t1, t2, t3}
  Index = {i1, i2}
  Reservations <- Events
  Party = {d, q}
  designated = d
  Honest = {a1, a2}
  index_of <- Meant
  tls_id <- Certificates
  min_shares = 2
  MaxTries = 2
INVARIANTS SharesAuthenticated SharesDelivered ResultsComplete SomebodyCan
PROPERTIES OkMeansDone KeepsCommitment EveryoneServed
