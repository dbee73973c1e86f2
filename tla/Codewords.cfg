SPECIFICATION Spec
CONSTANTS
  Nbf = 3
  seeds_num = 3
  BfThreads = 2
  MaxItems = 3
  Bits = {1, 2}
INVARIANTS
  TypeOK
  ItemsApart
  FilterComplete
  CodewordsHold
  LeftOutWhenCovered
