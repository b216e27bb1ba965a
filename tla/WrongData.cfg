CONSTANTS
  CLIENTS = 1
  Connections = {c1}
  Sensors = {s1}
  NoConnection = NoConnection
  NoSensor = NoSensor
  InitialStatuses = {"CREATED"}
  Observed = {}
  Faults = {"length"}
  MaxMeasures = 0
  MaxCommands = 0
  MaxDbErrors = 0
SPECIFICATION FairSpec
CHECK_DEADLOCK FALSE
PROPERTY WrongDataEndsConnection
