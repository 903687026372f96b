SPECIFICATION Spec
CONSTANTS
  Text <- Texts
  Alias = {}
  Pattern = {"*"}
  Address <- Addresses
  NoAddress = NoAddress
  Resolve <- Resolving
  HostName <- Names
  Matching <- Globs
  Local = {"s"}
  LocalHost = "s"
  MaxDepth = 3
  AccessFile = TRUE
  End = {"e1", "e2", "e3"}
  NoEnd = NoEnd
  ClientOf <- Clients
  Families = {{"c", "a", "s"}, {"c", "u", "a", "s"}}
  Number <- Numbers
  Offered <- Connections
  MultiHomed = {}
  Unnameable = {"u"}
  Authorizes <- Authorizations
  Databases <- Accesses
  Choosable = {"a", "s"}
  ProtoTimeout = 0
  ChoiceTimeout = 0
  IdsPerSecond = 2
  MaxTime = 1
  MaxId = 3
  MaxAuth = 2
INVARIANTS TypeOK RecordsAgree OverIsFinal AuthorizationAgreed
PROPERTIES ChoiceHonoured SessionsImplemented
