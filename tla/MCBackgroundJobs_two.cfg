\* Two jobs competing for the queue of one owner, one kind of which has no handler.
CONSTANTS
  JobId = {j1, j2}
  Owner = {o1}
  Kind = {k1, k2}
  Registered = {k1}
  Token = {t1, t2, t3}
  Attempts = {1, 2}
  LeaseSeconds = 1
  MaxTime = 4
  MaxEvents = 0
  NoJob = NoJob
  NoToken = NoToken
SPECIFICATION Spec
SYMMETRY Symmetric
CHECK_DEADLOCK FALSE
INVARIANTS
  RetryLineage
  LeasesAreExclusive
  FirstComeFirstServed
PROPERTIES
  ImplementsLeases
