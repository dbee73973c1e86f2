SPECIFICATION Spec
CONSTANTS
  parties = 4
  MaxLiars = 1
INVARIANTS
  TypeOK
  SocketsMeet
  PortsApart
  CommonSeed
  LiarsNoticed
  SharesCancel
PROPERTIES
  StepTwoEnds
