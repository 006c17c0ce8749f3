SPECIFICATION Spec
CONSTANTS
  Livesources = {l1, l2}
  Mountpoints = {a}
  OnDemand = {a}
  Clients = {d, v}
  VirtualClients = {v}
  Workers = {w1, w2}
  None = None
  MaxJobs = 1
SYMMETRY Symmetry
INVARIANTS NsubsExact RefcntExact DeletesItself
CHECK_DEADLOCK FALSE
