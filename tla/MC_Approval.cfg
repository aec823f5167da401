\* A crash, its restart and a second process, all presenting one approval, against the abstract one.
CONSTANTS
  Boots = {b1, b2, b3}
  Approvals = {a1}
  None = None
  MaxTime = 3
  Window = 2
SPECIFICATION Spec
SYMMETRY Symmetric
INVARIANTS
  LeaseInv
PROPERTIES
  SpentOnlyWhileValid
  ImplementsOneShotApproval
CHECK_DEADLOCK FALSE
