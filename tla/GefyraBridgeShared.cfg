SPECIFICATION Spec
CONSTANTS
  b1 = b1
  b2 = b2
  c1 = c1
  c2 = c2
  d1 = d1
  d2 = d2
  d3 = d3
  t1 = t1
  p1 = p1
  p2 = p2
  p3 = p3
  Bridges = {b1, b2}
  Targets = {t1}
  Clients = {c1, c2}
  Dests = {d1, d2, d3}
  Ports = {p1, p2, p3}
  TargetOf <- MCTargetOf
  ClientOf <- OneClient
  DestsOf <- OneDest
  Nobody = Nobody
  NoDest = NoDest
  NoPort = NoPort
  MaxEdits = 0
  MaxFaults = 0
  MaxRestarts = 0
  MaxEvents = 0
SYMMETRY PortSymmetry
CHECK_DEADLOCK FALSE
PROPERTIES SharedRouteIsKept
