CONSTANTS
  None = None
  Entries = {e1, e2, e3}
  Capacity = 2
  LoadMayInterrupt = TRUE
  IoMayFail = TRUE
SPECIFICATION Spec
INVARIANTS TypeOK ServedIntact MappedPrefixKept ServedFileValid
PROPERTY StoreSpec
