CONSTANTS
  CLIENTS = 2
  Connections = {c1, c2}
  NoConnection = NoConnection
  Sensors <- Ids
  Address <- Addresses
  Token <- Tokens
  Recorded <- Measured
  InitialStatuses = {"ABSENT", "ACTIVE"}
  FirstName <- NoName
  Names <- GivenNames
  Asks <- Commands
  MaxAsked = 2
  MaxAskedInAll = 2
  MaxDbErrors = 1
  Mobile = {70000}
  MayQuit = FALSE
SPECIFICATION Spec
CHECK_DEADLOCK FALSE
SYMMETRY Interchangeable
INVARIANTS TypeOK AnswersCorrect ShownAsMeant ForeignOnlyAfterReuse RevocationVisible RenameVisible NoneStranded
PROPERTIES TableSpec
