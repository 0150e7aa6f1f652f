CONSTANTS
  a1 = a1
  a2 = a2
  route = route
  Refs = {a1, a2, route}
  Templates = {{a1, a2}, {route}}
  MaxFaults = 2
  MaxCrashes = 1
SPECIFICATION Spec
SYMMETRY MCSymmetry
INVARIANTS
  Recorded
  AllOrNothing
PROPERTIES
  ForeignKept
  SuccessIsExact
