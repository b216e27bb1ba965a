CONSTANTS
  CLIENTS = 2
  Connections = {c1}
  Sensors = {s1}
  NoConnection = NoConnection
  NoSensor = NoSensor
  InitialStatuses = {"ABSENT", "CREATED", "ACTIVE", "REVOKED"}
  Observed = {"accepted", "ack", "revoked", "disconnected", "incorrect", "active"}
  Faults = {}
  MaxMeasures = 1
  MaxCommands = 1
  MaxDbErrors = 1
SPECIFICATION FairSpec
CHECK_DEADLOCK FALSE
PROPERTIES TokenAnswered LifecycleSpec
