CONSTANTS
  Block = 8
  MaxLength = 21
  MaxTotal = 21
  AccessUnits <- MCAccessUnits
  Second = 2
  Fraction = 3
  Epoch = 10
  LeastBias = 1
  TimestampBias = 0
  MaxElapsed = 2
SPECIFICATION PacketSpec
INVARIANTS
  OneStream
  AccessUnitArrives
PROPERTIES
  KeystreamOnce
  StampsPaced
CHECK_DEADLOCK FALSE
