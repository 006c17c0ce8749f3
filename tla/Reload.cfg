SPECIFICATION Spec
CONSTANTS
  a = a
  b = b
  p = p
  q = q
  m = m
  Hosts = {a, b}
  Addrs = {p, q}
  Servers = {s1}
  Mountpoints = {m}
  Settings <- MCSettings
  Reloads <- MCReloads
  PeerTables <- MCPeerTables
  MaxGen = 3
  MaxFaults = 2
INVARIANTS CountsExact FreedIsQuiet OneFetch StackSorted ShownIsFound
PROPERTIES KeptDuringReload Follows
CHECK_DEADLOCK FALSE
