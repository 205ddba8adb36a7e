\* Two calls of any kind, two names, one write and up to two recycled items of
\* other programs, two mishaps.
SPECIFICATION Spec
CONSTANTS
  i1 = i1
  C = C
  D = D
  Op = {o1, o2}
  Path = {p, q}
  User = {u1}
  Item = {i1, i2}
  Drive = {C, D}
  DriveOf <- Volumes
  Scan = {s1}
  NoFile = NoFile
  NoHash = NoHash
  MaxMishaps = 2
SYMMETRY Symmetry
INVARIANT NoPartial
INVARIANT TidyUp
PROPERTY FailureRestores
PROPERTY SeesWhatItDestroys
\* The system rests when every call has returned.
CHECK_DEADLOCK FALSE
