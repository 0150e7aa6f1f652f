CONSTANTS
  a1 = a1
  a2 = a2
  a3 = a3
  Addresses = {a1, a2, a3}
  Capacity = 1
  MaxLeases = 1
  Wraps = FALSE
  Faults = {"save"}
  MaxFaults = 1
  MaxCrashes = 0
SPECIFICATION Spec
PROPERTIES
  KeptWhileConnected
