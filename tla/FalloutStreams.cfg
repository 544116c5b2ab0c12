CONSTANTS
  Threads = {t1, t2}
  Addresses = {x1, x2}
  Sources = {p1, p2}
  Entries = {plain, packed}
  Packed = {packed}
  plain = plain
  packed = packed
  Size = 2
  MaxAccums = 1
  Conditions <- Surroundings
  None = None
SPECIFICATION Spec
CHECK_DEADLOCK FALSE
SYMMETRY Symmetry
INVARIANTS StreamsInv ServedRight
