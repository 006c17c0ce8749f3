SPECIFICATION FairSpec
CONSTANTS
  t1 = t1
  t2 = t2
  Mountpoints = {a, b}
  Threads = {t1, t2}
  Conns = {k1}
  None = None
  Timely = TRUE
  Settings <- Runs
INVARIANTS Converged SerialTellsTable
PROPERTIES Settles
CHECK_DEADLOCK FALSE
