CONSTANTS
  x = x
  y = y
  t1 = t1
  t2 = t2
  Negative = Negative
  None = None
  Sources = {s1}
  Inners = {i1, i2}
  Archives = {x, y}
  Threads = {t1, t2}
  SlotCount = 1
  Size = 3
  Lengths = {2}
  Targets = {0, 4}
  RetryMs = 1
  NegativeMs = 2
  MaxTime = 2
  MaxEvents = 2
SYMMETRY Symmetric
SPECIFICATION Spec
INVARIANTS ReadInv ServedRight ClaimsInOrder
PROPERTIES PositiveKept SingleFlight
