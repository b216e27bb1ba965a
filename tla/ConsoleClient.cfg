CONSTANTS
  Ids = {1, 2}
  None = None
  Spans = {"hour", "day"}
  MaxCommands <- CommandsGiven
  MaxChanges = 1
  MaxInFlight = 1
SPECIFICATION Spec
CHECK_DEADLOCK FALSE
INVARIANTS TypeOK ButtonsAgree ChartAgrees GoesOnUnconnected
PROPERTIES ViewConverges FailureAlerts
