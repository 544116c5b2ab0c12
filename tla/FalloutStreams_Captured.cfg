CONSTANTS
  Threads = {t1}
  Addresses = {x1, x2}
  Sources = {p1, p2}
  Entries = {plain, packed}
  Packed = {packed}
  plain = plain
  packed = packed
  Size = 2
  MaxAccums = 1
  Conditions <- Plainest
  None = None
SPECIFICATION Spec
CHECK_DEADLOCK FALSE
INVARIANT RecordedWhole
