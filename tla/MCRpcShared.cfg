\* An effect and a chunk read under one request id.
SPECIFICATION FairSpec
CONSTANTS
  c1 = c1
  c2 = c2
  shared = shared
  effect = effect
  chunk = chunk
  Call = {c1, c2}
  ReqId = {shared}
  Payload = {effect, chunk}
  IdOf <- SharedId
  PayloadOf <- EffectAndChunk
  ReplaySafe = {chunk}
  Client = {k1, k2}
  Session = {s1, s2}
  NoClient = NoClient
  NoSession = NoSession
  NoPayload = NoPayload
INVARIANT AtMostOnce
PROPERTY FirstPayloadWins
PROPERTY EveryCallReturns
\* The node stops when every call has returned.
CHECK_DEADLOCK FALSE
