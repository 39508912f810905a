SPECIFICATION AuditSpec
CONSTANTS
  Job = {a, b}
  MaxCompleted = 1
  LogJobs = FALSE
INVARIANT KeepsServing
CHECK_DEADLOCK FALSE
