SPECIFICATION FairSpec
CONSTANTS
  Mountpoints = {m}
  Configs <- MCConfigs
  Reloads <- MCReloads
  AgeMax = 2
  MaxSends = 2
INVARIANTS FiredIsReal OnlineOnce
PROPERTIES SpacedUnlessOverlap RealertsWhileDown
