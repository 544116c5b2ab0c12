CONSTANTS
  Streams = {s1, s2}
  Threads = {t1, t2}
  Size = 2
  MaxCursor = 3
  Scenarios <- NoMemory
  None = None
SPECIFICATION Spec
SYMMETRY Symmetric
INVARIANT CompleteCaptures
