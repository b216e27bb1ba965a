CONSTANTS
  CLIENTS = 1
  Connections = {c1}
  Sensors = {s1, s2}
  NoConnection = NoConnection
  NoSensor = NoSensor
  InitialStatuses = {"CREATED"}
  Observed = {"revoked"}
  Faults = {}
  MaxMeasures = 0
  MaxCommands = 1
  MaxDbErrors = 0
SPECIFICATION Spec
CHECK_DEADLOCK FALSE
INVARIANT RevokedReasonTrue
