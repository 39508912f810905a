SPECIFICATION Spec
CONSTANTS
  Job = {a, b}
  Cancellable = {a, b}
  None = None
  Backlog = 1
  Impatient = TRUE
SYMMETRY Symmetry
INVARIANTS
  ResultIsOwn
  OneWorkerRuns
  TerminatedIsDown
PROPERTY RenderIsARunFn
CHECK_DEADLOCK FALSE
