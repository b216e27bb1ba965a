CONSTANTS
  CLIENTS = 1
  Connections = {c1, c2}
  Sensors = {s1}
  NoConnection = NoConnection
  NoSensor = NoSensor
  InitialStatuses = {"CREATED"}
  Observed = {"accepted"}
  Faults = {}
  MaxMeasures = 0
  MaxCommands = 0
  MaxDbErrors = 0
SPECIFICATION Spec
CHECK_DEADLOCK FALSE
INVARIANT AcceptedHasToken
