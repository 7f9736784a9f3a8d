\* One job through every lifecycle: up to three attempts, renewed leases,
\* handler events, backoff delays of 2 and 4 seconds.
CONSTANTS
  JobId = {j1}
  Owner = {o1}
  Kind = {k1}
  Registered = {k1}
  Token = {t1, t2, t3}
  Attempts = {1, 2, 3}
  LeaseSeconds = 2
  MaxTime = 9
  MaxEvents = 7
  NoJob = NoJob
  NoToken = NoToken
SPECIFICATION Spec
SYMMETRY Symmetric
CHECK_DEADLOCK FALSE
INVARIANTS
  TypeOK
  ChecksHold
  NoStrandedJob
  CancelWins
  EventsReplay
PROPERTIES
  SettledIsFinal
  ExpiredLeaseIsDead
  BackoffRespected
