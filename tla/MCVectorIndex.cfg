\* Three chunks in batches of two, two stores, three callers, two runs.
CONSTANTS
  handler = handler
  other = other
  request = request
  s1 = s1
  s2 = s2
  Nobody = Nobody
  Store = {s1, s2}
  Caller = {handler, other, request}
  Handler = handler
  StoreOf <- MCStoreOf
  IndexNames <- MCIndexNames
  Texts = 3
  BatchSize = 2
  MaxCalls = 1
  MaxRuns = 2
  MaxFailures = 1
SPECIFICATION Spec
CHECK_DEADLOCK FALSE
INVARIANT ReadyMeansUsable
PROPERTIES
  WholeBatchOrNothing
  CallsReturn
