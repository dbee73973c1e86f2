SPECIFICATION Spec
CONSTANTS
  P0 = P0
  Pis = {p1, p2}
INVARIANTS
  TypeOK
  MessagesInStep
  OutputOnlyAfterChecks
  FilterOnlyAfterChecks
  OrderlyClose
PROPERTIES
  RunCompletes
