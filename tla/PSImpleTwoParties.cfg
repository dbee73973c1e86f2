SPECIFICATION Spec
CONSTANTS
  parties = 2
  Nbf = 3
  MaxItems = 3
  Values <- MCValues
  Tables <- MCTables
  Heap = {TRUE, FALSE}
INVARIANTS
  NothingMissing
