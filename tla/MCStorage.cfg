\* A command and a Job beside a scheduled Worker and an old output that alone
\* exceeds the quota; one mishap of any kind.
SPECIFICATION FairSpec
CONSTANTS
  c1 = c1
  j1 = j1
  a = a
  C = C
  D = D
  Command = {c1}
  Job = {j1}
  Sweeper = {s1}
  OldOutput = {a}
  OldLog = {}
  Size <- Oversized
  Volume = {C, D}
  Root = C
  Space <- Disks
  RootBytes <- Unit
  Target <- Beside
  TargetBytes <- Copied
  Quota = 3
  MinFree = 1
  ContentDays = 1
  RowDays = 2
  MaxMishaps = 1
  Faults = {"io", "overrun"}
INVARIANT CollectorsExclude
INVARIANT ContentsFindable
INVARIANT GrantsFit
PROPERTY QuotaStops
PROPERTY SpaceReturns
PROPERTY QuotaRestored
