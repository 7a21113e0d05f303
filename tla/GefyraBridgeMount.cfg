SPECIFICATION Spec
CONSTANTS
  p1 = p1
  p2 = p2
  b1 = b1
  Pods = {p1, p2}
  Kinds = {"deployment", "pod"}
  Sunsets = {TRUE, FALSE}
  Bridges = {b1}
  MaxFaults = 1
  MaxLater = 1
CHECK_DEADLOCK FALSE
INVARIANTS
  MountTypeOK
  ActiveIsInstalled
  GoneLeavesNothing
PROPERTIES
  CarrierAfterShadow
