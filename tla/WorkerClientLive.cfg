SPECIFICATION LiveSpec
CONSTANTS
  Job = {a, b}
  Cancellable = {a}
  None = None
  Backlog = 0
  Impatient = TRUE
PROPERTIES
  CancelEndsTheRender
  DeathEndsTheRender
  ShutdownTerminates
  RenderEnds
  OrphansLeave
CHECK_DEADLOCK FALSE
