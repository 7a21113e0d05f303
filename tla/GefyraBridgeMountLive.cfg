SPECIFICATION FairSpec
CONSTANTS
  p1 = p1
  p2 = p2
  b1 = b1
  Pods = {p1}
  Kinds = {"deployment", "pod"}
  Sunsets = {TRUE, FALSE}
  Bridges = {}
  MaxFaults = 2
  MaxLater = 1
CHECK_DEADLOCK FALSE
PROPERTIES
  GoneRestores
  DeletedGoes
  BecomesActive
  Recovers
