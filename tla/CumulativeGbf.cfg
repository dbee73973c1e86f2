SPECIFICATION Spec
CONSTANTS
  Pis = {p1, p2}
  Nbf = 5
  chunk_size = 2
INVARIANTS
  TypeOK
  NoStaleStore
  StreamAligned
PROPERTIES
  Completes
  Accumulates
