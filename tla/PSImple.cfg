SPECIFICATION Spec
CONSTANTS
  parties = 3
  Nbf = 3
  MaxItems = 3
  Values <- MCValues
  Tables <- MCTables
  Heap = {TRUE}
INVARIANTS
  TypeOK
  OnlyTogether
PROPERTIES
  ImplementsPSI
