\* A Pi: one link, ranges of one cell and a longer last one.
SPECIFICATION Spec
CONSTANTS
  Links = {p0}
  Nbf = 4
  NumQueues = 3
  CountMod = 8
INVARIANTS
  ExclusiveCells
  SleepersAreAwaited
PROPERTIES
  PhaseEnds
  Accumulates
