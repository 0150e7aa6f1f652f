CONSTANTS
  t1 = t1
  n1 = n1
  n2 = n2
  Nobody = Nobody
  Threads = {t1}
  Nodes = {n1, n2}
  Dedicated = {n1}
SPECIFICATION FullSpec
PROPERTIES
  DeleteCleansUp
CHECK_DEADLOCK FALSE
