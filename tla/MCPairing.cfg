\* Two nodes, one machine at either of two addresses, two requests, one mishap.
SPECIFICATION Spec
CONSTANTS
  Node = {n1, n2}
  Machine = {m1}
  Address = {a1, a2}
  Nonce = {x1, x2}
  None = None
  MaxMishaps = 1
SYMMETRY Symmetry
INVARIANT Pinned
INVARIANT ProvenAtRest
INVARIANT KeysListed
\* The system rests when every nonce is used.
CHECK_DEADLOCK FALSE
