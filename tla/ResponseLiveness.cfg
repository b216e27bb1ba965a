CONSTANTS
  CLIENTS = 1
  Connections = {c1}
  NoConnection = NoConnection
  Sensors <- Ids
  Address <- Addresses
  Token <- Tokens
  Recorded <- Measured
  InitialStatuses = {"ABSENT", "ACTIVE"}
  FirstName <- NoName
  Names <- GivenNames
  Asks <- Commands
  MaxAsked = 2
  MaxAskedInAll = 2
  MaxDbErrors = 1
  Mobile = {70000}
  MayQuit = TRUE
SPECIFICATION Spec
CHECK_DEADLOCK FALSE
PROPERTIES EveryCommandAnswered QuitStopsBusy
