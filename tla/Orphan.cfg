SPECIFICATION Spec
CONSTANTS
  Job = {a, b}
  Cancellable = {a, b}
  None = None
  Backlog = 0
  Impatient = FALSE
SYMMETRY Symmetry
INVARIANT NeverOrphanAWorker
CHECK_DEADLOCK FALSE
