\* wait() may return without a notification.
SPECIFICATION SpuriousSpec
CONSTANTS
  Links = {p0}
  Nbf = 2
  NumQueues = 1
  CountMod = 4
INVARIANTS
  TicketMeansSegment
CHECK_DEADLOCK FALSE
