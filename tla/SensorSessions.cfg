CONSTANTS
  CLIENTS = 1
  Connections = {c1, c2, c3}
  Sensors = {s1, s2}
  NoConnection = NoConnection
  NoSensor = NoSensor
  InitialStatuses = {"CREATED"}
  Observed = {}
  Faults = {"accept", "length", "type", "send"}
  MaxMeasures = 2
  MaxCommands = 0
  MaxDbErrors = 0
SPECIFICATION Spec
CHECK_DEADLOCK FALSE
SYMMETRY Interchangeable
INVARIANTS MeasurementsAttributed DeadSessionsReported SessionsHeld
PROPERTY SlotsNotRebound
