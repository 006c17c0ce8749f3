SPECIFICATION FairSpec
CONSTANTS
  Livesources = {l1, l2}
  Mountpoints = {a, b}
  OnDemand = {b}
  Clients = {v}
  VirtualClients = {v}
  Workers = {w1, w2}
  None = None
  MaxJobs = 1
INVARIANTS SubscribedWhereListed
PROPERTIES EndedIsFreed
CHECK_DEADLOCK FALSE
