SPECIFICATION Spec
CONSTANTS
  Text <- Texts3
  Alias = {"%a", "%b"}
  Pattern <- Patterns
  Address <- Addresses
  NoAddress = NoAddress
  Resolve <- Resolving
  HostName <- Names
  Matching <- Globs
  Local = {"s", "b"}
  LocalHost = "s"
  MaxDepth = 3
  AccessFile = TRUE
  IPv4 = {"t", "a", "b", "s", "g"}
  DefaultGroup = "g6"
  FirstFiles <- Started
  Files <- Edited
PROPERTIES SocketsMatch
