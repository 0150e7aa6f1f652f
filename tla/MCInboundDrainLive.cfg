CONSTANTS
  a1 = a1
  a2 = a2
  a3 = a3
  n1 = n1
  n2 = n2
  Addresses = {a1, a2}
  Nodes = {n1}
  Capacity = 1
  MaxTCP = 2
  Wraps = FALSE
  Changes = {}
  Faults = {}
  MaxFaults = 0
  MaxCrashes = 0
SPECIFICATION FairSpec
PROPERTIES
  DrainsComplete
