SPECIFICATION ConnectionSpec
CONSTANTS
  c1 = c1
  c2 = c2
  s1 = s1
  s2 = s2
  Nobody = Nobody
  NoSubnet = NoSubnet
  Clients = {c1, c2}
  Subnets = {s1, s2}
  Aging = {}
  Ending = {}
  ManagesAccounts = TRUE
  MaxFaults = 0
  MaxCommands <- TwoAndOne
  CommandsOf <- ConnectOnly
CHECK_DEADLOCK FALSE
INVARIANTS
  ConnectedSubnet
  ConnectedTunnel
  DisconnectedHasNoPeer
  ActiveHasPeer
  GoneLeavesNothing
PROPERTIES
  NoPeerLost
