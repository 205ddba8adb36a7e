\* One Job, every operation, every fault, one crash.
SPECIFICATION Spec
CONSTANTS
  JobId = {j1}
  NoJob = NoJob
  Key = {k1}
  NoKey = NoKey
  Handler = {h1, h2}
  Owner = {app}
  NoOwner = NoOwner
  MaxConcurrent = 1
  MaxQueued = 1
  MaxCrashes = 1
  Calls = {"look", "start", "cancel", "maintain"}
  Faults = {"probe", "stall", "slow", "expiry"}
SYMMETRY Symmetry
INVARIANT ChildHasRunner
PROPERTY CancelBeforeClaim
PROPERTY SettledForGood
\* The executor stops when every identifier is used and no client calls.
CHECK_DEADLOCK FALSE
