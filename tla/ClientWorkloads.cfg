SPECIFICATION FairWorkloadsSpec
CONSTANTS
  b1 = b1
  c1 = c1
  d1 = d1
  d2 = d2
  t1 = t1
  p1 = p1
  p2 = p2
  p3 = p3
  n1 = n1
  s1 = s1
  Bridges = {b1}
  Targets = {t1}
  Clients = {c1}
  Dests = {d1, d2}
  Ports = {p1, p2, p3}
  TargetOf <- MCTargetOf
  ClientOf <- MCClientOf
  DestsOf <- MCDestsOf
  Nobody = Nobody
  NoDest = NoDest
  NoPort = NoPort
  Names = {n1}
  LocalOf <- MCLocalOf
  Shells = {s1}
  CommandsOf = {"run", "bridge", "delete", "rm", "rm all", "unbridge", "leave"}
  MaxCommands = 2
  MaxEdits = 0
  MaxFaults = 1
  MaxRestarts = 1
  MaxEvents = 1
CHECK_DEADLOCK FALSE
PROPERTIES BridgeRecovers DeletedGoes RunRestores
