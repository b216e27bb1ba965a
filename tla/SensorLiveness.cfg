CONSTANTS
  CLIENTS = 2
  Connections = {c1, c2}
  Sensors = {s1, s2}
  NoConnection = NoConnection
  NoSensor = NoSensor
  InitialStatuses = {"CREATED", "ACTIVE"}
  Observed = {"accepted", "ack", "revoked", "disconnected", "incorrect", "active"}
  Faults = {}
  MaxMeasures = 0
  MaxCommands = 0
  MaxDbErrors = 0
SPECIFICATION FairSpec
CHECK_DEADLOCK FALSE
INVARIANT RefusedWhileInUse
PROPERTIES TokenAnswered TokenReleased
