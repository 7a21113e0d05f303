SPECIFICATION Spec
CONSTANTS
  o1 = o1
  o2 = o2
  v1 = v1
  v2 = v2
  Operators = {o1, o2}
  Version = v1
  Updates = {v2}
  Deletable = {}
  Used = {"client"}
  StartupTimeout = 0
  MaxCommands = 2
  Faulty = {"update"}
  MaxFaults = 2
CHECK_DEADLOCK FALSE
PROPERTIES EntriesKept
