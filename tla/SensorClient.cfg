CONSTANTS
  LengthBytes = 2
  MAX_MSG = 3
  Size <- SizeOf
  MaxMeasures = 2
  MaxConnections = 2
SPECIFICATION Spec
CHECK_DEADLOCK FALSE
INVARIANTS TypeOK FramesIntact SentInOrder TokenFirst
PROPERTIES TokenPresented RejectedStops
