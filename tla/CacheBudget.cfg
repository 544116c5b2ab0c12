CONSTANTS
  a1 = a1
  e1 = e1
  e2 = e2
  o1 = o1
  None = None
  Archives = {a1}
  Entries = {e1, e2}
  Orphans = {o1}
  Owner <- OneArchive
  Size <- MCSize
  Cap = 3
  MaxPending = 3
  StartupOnly = FALSE
  Failures <- AtMostOne
SPECIFICATION Spec
INVARIANTS AccountingInv DemandCovered
PROPERTIES CapStep AcceptedNeverLost HeadroomKept
