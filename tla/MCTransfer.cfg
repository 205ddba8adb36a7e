\* One push of either kind, two recoveries at once, one mishap, fair.
SPECIFICATION FairSpec
CONSTANTS
  Transfer = {t1}
  Recoverer = {r1, r2}
  Chunks = 2
  MaxMishaps = 1
  Faults = {"io", "source"}
INVARIANT BackupRecorded
INVARIANT LiveOwnerUntouched
PROPERTY AtomicExchange
PROPERTY EveryTransferSettles
\* The system rests when every identifier is used.
CHECK_DEADLOCK FALSE
