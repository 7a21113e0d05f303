SPECIFICATION FairConnectionSpec
CONSTANTS
  c1 = c1
  c2 = c2
  s1 = s1
  s2 = s2
  Nobody = Nobody
  NoSubnet = NoSubnet
  Clients = {c1}
  Subnets = {s1, s2}
  Aging = {}
  Ending = {}
  ManagesAccounts = TRUE
  MaxFaults = 1
  MaxCommands <- Three
  CommandsOf <- AllOf
CHECK_DEADLOCK FALSE
INVARIANTS
  ConnectionTypeOK
PROPERTIES
  CommandsEnd
  DeletionEnds
