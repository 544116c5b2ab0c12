CONSTANTS
  Streams = {s1, s2}
  Threads = {t1, t2}
  Size = 2
  MaxCursor = 3
  Scenarios <- AllScenarios
  None = None
SPECIFICATION Spec
SYMMETRY Symmetric
INVARIANTS StreamInv BytesInOrder LearnsWhole CursorsAgree CloseWaits
