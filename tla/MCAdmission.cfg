\* At most one Job runs and one more is queued; Workers and runners crash
\* twice; no fault besides the crashes.
SPECIFICATION Spec
CONSTANTS
  JobId = {j1, j2}
  NoJob = NoJob
  Key = {k1}
  NoKey = NoKey
  Handler = {h1, h2}
  Owner = {app}
  NoOwner = NoOwner
  MaxConcurrent = 1
  MaxQueued = 1
  MaxCrashes = 2
  Calls = {"look", "start", "maintain"}
  Faults = {}
SYMMETRY Symmetry
INVARIANT SlotBound
INVARIANT MaintenanceExclusion
INVARIANT RecordedChildIsAccounted
PROPERTY StartedOnce
\* The executor stops when every identifier is used and no client calls.
CHECK_DEADLOCK FALSE
