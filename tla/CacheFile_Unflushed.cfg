CONSTANTS
  None = None
  Entries = {e1, e2, e3}
  Capacity = 2
  LoadMayInterrupt = TRUE
  IoMayFail = FALSE
SPECIFICATION Spec
INVARIANT FlushedBeforeCount
