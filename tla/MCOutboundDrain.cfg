CONSTANTS
  a1 = a1
  a2 = a2
  a3 = a3
  Addresses = {a1, a2, a3}
  Capacity = 1
  MaxLeases = 2
  Wraps = FALSE
  Faults = {"network", "sync", "save"}
  MaxFaults = 2
  MaxCrashes = 1
SPECIFICATION Spec
SYMMETRY MCSymmetry
INVARIANTS
  StoreAgrees
  LeasedIsAssigned
PROPERTIES
  CompletesOnlyIdle
