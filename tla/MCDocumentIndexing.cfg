\* Two documents of equal content, two tasks, an upload and a delete at a time.
CONSTANTS
  JobId = {1, 2}
  Token = {t1, t2}
  Attempts = {1, 2}
  NoToken = NoToken
  Doc = {d1, d2}
  Client = {c1}
  NoDoc = NoDoc
SPECIFICATION IndexSpec
SYMMETRY Symmetric
CHECK_DEADLOCK FALSE
INVARIANTS
  ActiveTaskOwnsDocument
  ProjectionIsCurrent
  SucceededIsComplete
  CleanedStaysClean
