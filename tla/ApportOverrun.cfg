SPECIFICATION Spec
CONSTANTS
  Not = 7
  Nbf = 5
  numOfOnes = 3
  SubSizes = {2, 3}
  maxOnes = 1
INVARIANTS
  ReadsInVectors
