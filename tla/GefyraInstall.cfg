SPECIFICATION FairSpec
CONSTANTS
  o1 = o1
  o2 = o2
  v1 = v1
  v2 = v2
  Operators = {o1, o2}
  Version = v1
  Updates = {v2}
  Deletable = {"config", "statefulset"}
  Used = {"client"}
  StartupTimeout = 1
  MaxCommands = 2
  Faulty = {"install", "uninstall"}
  MaxFaults = 2
CHECK_DEADLOCK FALSE
INVARIANTS InstallTypeOK InstalledWorks
PROPERTIES InstallEnds CrdsCome
