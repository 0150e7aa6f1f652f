CONSTANTS
  c1 = c1
  c2 = c2
  c3 = c3
  c4 = c4
  template = template
  fixed = fixed
  pool = pool
  name = name
  a = a
  b = b
  x = x
  y = y
  None = None
  Gone = Gone
  nat_prefixes = {x, y}
  nat_none = None
  nat_changes_bound = 2
  adm_browsers = {c1, c2}
  adm_console = c3
  adm_none = None
  adm_saves_bound = 3
  adm_logins_bound = 3
  dot_queries = {c1, c2, c3}
  dot_conns = {1, 2, 3, 4, 5}
  dot_kept_bound = 2
  sec_callers = {c1, c2}
  sec_nodes = {a, b}
  sec_credentials = {x, y}
  sec_open = None
  sec_gone = Gone
  sec_changes_bound = 3
  lk_clients = {c1, c2}
  lk_names = {name}
  lk_prefix = FALSE
  lk_lists <- TheServers
  lk_min = 1
  lk_max = 2
  lk_ttls = {3}
  lk_entries_max = 1
  lk_age_bound = 1
  lk_updates_bound = 1
  log_backups = 2
  log_lines_max = 2
  log_buffer = 2
  log_readers = {c3}
  log_events_bound = 7
  log_faults_bound = 2
  ap_templates = {template}
  ap_fixed = {fixed}
  ap_pools = {pool}
  ap_nodes = {a, b}
  ap_values = {x, y}
  ap_omitted = None
  ap_documents <- TheDocuments
  ap_systems <- TheSystems
  ap_others_bound = 1
  Threads = {c1, c2, c3, c4}
  Nodes = {a, b}
  Dedicated = {a}
  Nobody = None
  Parts = {"lookup", "nat64", "dot", "log", "secrets", "access", "agent", "locks"}
SPECIFICATION OneSpec
SYMMETRY MCSymmetry
INVARIANTS
  AnswersAreCurrent
  ManualIsInForce
  EachHasOneOwner
  OnlyTheOldestGo
  StreamIsNewest
  CountsAreExact
  NoneOutlivesItsPassword
  ReplyIsTrue
  NeverDangling
  CanBeRepeated
  OnlyDeletionsBlock
