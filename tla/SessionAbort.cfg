\* One other party is enough.
SPECIFICATION Spec
CONSTANTS
  P0 = P0
  Pis = {p1}
PROPERTIES
  AbortStopsSession
