CONSTANTS
  MaxEvents = 5
  None = None
SPECIFICATION FairSpec
CHECK_DEADLOCK FALSE
INVARIANTS GateInv Gated GapClosed
PROPERTIES QuietDuringLoad Reopens
