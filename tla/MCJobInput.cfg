\* Two calls of any kind, pipe or terminal; one of them is sent twice.
SPECIFICATION FairSpec
CONSTANTS
  Caller = {c1, c2}
  NoCaller = NoCaller
  Eof = Eof
  MaxSends = 2
  MaxResent = 1
  BufferLimit = 2
INVARIANT NothingLost
INVARIANT InOrder
PROPERTY InputArrives
PROPERTY StreamSpec
\* The channel rests when it is closed and every call has returned.
CHECK_DEADLOCK FALSE
