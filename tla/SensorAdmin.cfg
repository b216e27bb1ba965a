CONSTANTS
  CLIENTS = 2
  Connections = {c1, c2}
  Sensors = {s1, s2}
  NoConnection = NoConnection
  NoSensor = NoSensor
  InitialStatuses = {"CREATED"}
  Observed = {}
  Faults = {}
  MaxMeasures = 0
  MaxCommands = 1
  MaxDbErrors = 0
SPECIFICATION Spec
CHECK_DEADLOCK FALSE
SYMMETRY Interchangeable
INVARIANTS TypeOK RegistryAgrees StatusAgrees SelectFailsOnlyOnKill OpenConnectionsServed
