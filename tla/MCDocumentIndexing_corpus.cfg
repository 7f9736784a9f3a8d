\* One document, one task: are the chunks of a task that did not succeed searchable?
CONSTANTS
  JobId = {1}
  Token = {t1}
  Attempts = {1}
  NoToken = NoToken
  Doc = {d1}
  Client = {c1}
  NoDoc = NoDoc
SPECIFICATION IndexSpec
CHECK_DEADLOCK FALSE
INVARIANT
  OnlyIndexedSearchable
