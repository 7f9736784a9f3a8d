\* Four chunks of the caller in two knowledge bases, one of them allowed, and one
\* chunk of another owner; at most two candidates are reranked.
CONSTANTS
  Chunk = {1, 2, 3, 4, 5}
  Doc = {"d1", "d2", "d3", "d4"}
  Kb = {"k1", "k2"}
  Allowed = {"k1"}
  RerankLimit = 2
  Retries = 1
  Of <- SmallCorpus
  KbFilters <- SomeKbs
  DocFilters <- SomeDocs
SPECIFICATION Spec
CHECK_DEADLOCK FALSE
INVARIANTS
  ScopeIsKept
  RanksAreTrue
  NothingPartial
