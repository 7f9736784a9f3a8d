\* Two changes, two days, two requirements: every pair of deltas in either order
\* of names, one killed or forced run, one change
\* moved under a run, or files put by hand into any directory.
CONSTANTS
  Change = {1, 2}
  Req = {1, 2}
  Days = 2
  Other = 9
  Deltas <- MCDeltas
  LaterDeltas <- MCLaterDeltas
  ResolvesTo <- MCResolvesTo
  MaxTrouble = 1
SPECIFICATION Spec
CHECK_DEADLOCK FALSE
INVARIANTS
  FoldFollowsHistory
PROPERTIES
  
  Converges
