SPECIFICATION Spec
CONSTANTS
  b1 = b1
  b2 = b2
  b3 = b3
  c1 = c1
  c2 = c2
  d1 = d1
  d2 = d2
  Bridges = {b1, b2, b3}
  Clients = {c1, c2}
  Dests = {d1, d2}
  Ports = {10000, 10001}
  ClientOf <- MCClientOf
  DestsOf <- MCDestsOf
  Within <- MCWithin
  Nobody = Nobody
  NoDest = NoDest
  NoPort = NoPort
  NoService = NoService
INVARIANTS TypeOK PortsUnique SnapshotCurrent
PROPERTIES RemovesOwnRoute ImplementsTable
