SPECIFICATION FairConnectionSpec
CONSTANTS
  c1 = c1
  c2 = c2
  s1 = s1
  s2 = s2
  Nobody = Nobody
  NoSubnet = NoSubnet
  Clients = {c1}
  Subnets = {s1}
  Aging = {c1}
  Ending = {c1}
  ManagesAccounts = TRUE
  MaxFaults = 1
  MaxCommands <- One
  CommandsOf <- Connect
CHECK_DEADLOCK FALSE
PROPERTIES BecomesReady
