\* Two calls with ids of their own, three clients and sessions, every loss,
\* crash and garbled line.
SPECIFICATION Spec
CONSTANTS
  c1 = c1
  c2 = c2
  shared = shared
  effect = effect
  chunk = chunk
  Call = {c1, c2}
  ReqId = {c1, c2}
  Payload = {effect, chunk}
  IdOf <- OwnId
  PayloadOf <- Effects
  ReplaySafe = {chunk}
  Client = {k1, k2, k3}
  Session = {s1, s2, s3}
  NoClient = NoClient
  NoSession = NoSession
  NoPayload = NoPayload
SYMMETRY Symmetry
PROPERTY KeepsPromise
\* The node stops when every call has returned.
CHECK_DEADLOCK FALSE
