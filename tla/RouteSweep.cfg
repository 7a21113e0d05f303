SPECIFICATION FairSweepSpec
CONSTANTS
  b1 = b1
  b2 = b2
  c1 = c1
  d1 = d1
  d2 = d2
  i1 = i1
  Bridges = {b1, b2}
  Clients = {c1}
  Dests = {d1, d2}
  Ports = {10000, 10001, 10002}
  ClientOf <- MCClientOf
  DestsOf <- MCDestsOf
  DestOf <- MCDestOf
  IPOf <- OneIP
  Within <- MCWithin
  Nobody = Nobody
  NoDest = NoDest
  NoPort = NoPort
  NoService = NoService
  MaxFaults = 3
  MaxBeside = 0
CHECK_DEADLOCK FALSE
PROPERTIES SweepKeepsListed DebrisGoes RoutesComeBack OperationsReturn
