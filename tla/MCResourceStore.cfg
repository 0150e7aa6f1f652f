CONSTANTS
  t1 = t1
  t2 = t2
  f1 = f1
  f2 = f2
  p1 = p1
  p2 = p2
  TemplateNames = {t1, t2}
  FixedNames = {f1, f2}
  PoolNames = {p1, p2}
  Prefixes <- MCPrefixes
  MaxPoolSize = 2
  MaxBatch = 2
SPECIFICATION Spec
SYMMETRY MCSymmetry
INVARIANTS
  TypeOK
  Loadable
  Exclusive
PROPERTIES
  BatchIdsFresh
  LifecycleSpec
