\* Three versions, two updates, two mishaps.
SPECIFICATION FairSpec
CONSTANTS
  Newest = 3
  Dir = {d1, d2}
  NoDir = NoDir
  None = None
  MaxMishaps = 2
INVARIANT OldPackageKept
INVARIANT NoRetryLoop
INVARIANT LeaseCovers
PROPERTY RecoverySettles
\* An uninstalled or settled app may rest.
CHECK_DEADLOCK FALSE
