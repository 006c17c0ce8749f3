SPECIFICATION Spec
CONSTANTS
  Livesources = {l1, l2}
  Mountpoints = {a, b}
  OnDemand = {b}
  Clients = {v}
  VirtualClients = {v}
  Workers = {w1, w2}
  None = None
  MaxJobs = 2
SYMMETRY Symmetry
CHECK_DEADLOCK FALSE
INVARIANTS SubscribesOnce
