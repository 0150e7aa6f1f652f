CONSTANTS
  n1 = n1
  n2 = n2
  p1 = p1
  p2 = p2
  s1 = s1
  s2 = s2
  f1 = f1
  f2 = f2
  Nodes = {n1, n2}
  Dedicated = {n1}
  Folders = {f1, f2}
  Settings = {s1, s2}
  Ports = {p1, p2}
  Limits = {1, 2}
  Faults = {"start", "stop", "save", "cleanup", "corrupt"}
  MaxFaults = 2
  NoFolder = NoFolder
  AnyPort = AnyPort
  Unreadable = Unreadable
SPECIFICATION Spec
SYMMETRY MCSymmetry
INVARIANTS
  ServedAsListed
PROPERTIES
  RefusedKeepsTable
  DesiredKept
  KeptUntilDeleted
