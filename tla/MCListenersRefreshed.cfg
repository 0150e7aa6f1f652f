CONSTANTS
  x = x
  y = y
  n1 = n1
  n2 = n2
  u1 = u1
  u2 = u2
  p1 = p1
  p2 = p2
  Wildcard = Wildcard
  Addresses = {x, y}
  Bindings = {{x}, {y}, {x, y}, {Wildcard}}
  Nodes = {n1}
  Associations = {u1, u2}
  Ports = {p1, p2}
  Faults = {}
  MaxFaults = 0
  MaxCrashes = 0
SPECIFICATION Spec
SYMMETRY MCSymmetry
INVARIANTS
  RelaysWhereItListens
