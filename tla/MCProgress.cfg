CONSTANTS
  c1 = c1
  c2 = c2
  name = name
  a = a
  b = b
  x = x
  y = y
  z = z
  wd_targets = {a, b}
  wd_failures_limit = 2
  wd_cooldown = 1
  wd_faults_bound = 2
  svc_room = 3
  svc_attempts = 3
  svc_faults_bound = 2
  Parts = {"drain", "lookup", "watchdog", "service"}
SPECIFICATION Spec
INVARIANTS
  OneRestart
  EndsInOrder
PROPERTIES
  DrainsComplete
  LookupsEnd
  BrokenIsAnswered
  ServiceEnds
