\* A run whose heartbeat met a failed transaction: who settles the job?
CONSTANTS
  JobId = {j1}
  Token = {t1, t2}
  Attempts = {1, 2}
  NoToken = NoToken
  NoJob = NoJob
  Slot = {s1, s2}
  MaxFaults = 1
  MaxRestarts = 1
SPECIFICATION Spec
PROPERTY
  HeartbeatFailureLeftToLease
