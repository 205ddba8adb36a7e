\* Two Jobs compete for one slot; one crash; no symmetry (liveness).
SPECIFICATION FairSpec
CONSTANTS
  JobId = {j1, j2}
  NoJob = NoJob
  Key = {}
  NoKey = NoKey
  Handler = {h1, h2}
  Owner = {app}
  NoOwner = NoOwner
  MaxConcurrent = 1
  MaxQueued = 1
  MaxCrashes = 1
  Calls = {"look", "start"}
  Faults = {}
PROPERTY EveryJobSettles
\* The executor stops when every identifier is used and no client calls.
CHECK_DEADLOCK FALSE
