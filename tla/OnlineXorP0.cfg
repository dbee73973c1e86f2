\* P0 with two other parties: four producers push to every queue.
SPECIFICATION Spec
CONSTANTS
  p1 = p1
  p2 = p2
  Links = {p1, p2}
  Nbf = 2
  NumQueues = 2
  CountMod = 8
SYMMETRY LinkSymmetry
INVARIANTS
  TypeOK
  TicketMeansSegment
  SemaphoreCountsSegments
  JoinedMeansComplete
