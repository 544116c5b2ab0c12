CONSTANTS
  Archives = {a1, a2}
  Textures = {a1}
  Orphans = {o1}
  e1 = e1
  e2 = e2
  Entries = {e1, e2}
  Readers = {r1}
  Cap = 4
  Conditions <- AllSessions
  MaxFailures = 1
  None = None
SPECIFICATION FairSpec
CHECK_DEADLOCK FALSE
INVARIANTS CacheInv ServedAlive
PROPERTIES CapStep MissExplained NothingForgotten EventuallyWritten
