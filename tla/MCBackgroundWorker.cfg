\* One job with two attempts under two slots: a run whose lease lapsed while it
\* was draining meets the run that recovered the job.
CONSTANTS
  JobId = {j1}
  Token = {t1, t2}
  Attempts = {1, 2}
  NoToken = NoToken
  NoJob = NoJob
  Slot = {s1, s2}
  MaxFaults = 1
  MaxRestarts = 1
SPECIFICATION Spec
INVARIANTS
  NoRunAbandoned
  NothingRunsAfterShutdown
PROPERTIES
  SuccessIsEarned
  EveryJobSettles
  CancelTakesEffect
  ShutdownCompletes
