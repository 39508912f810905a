SPECIFICATION AuditSpec
CONSTANTS
  Job = {a, b, c}
  MaxCompleted = 2
  LogJobs = TRUE
SYMMETRY Symmetry
INVARIANTS
  DamageHasACause
  LiveJobsAreKept
PROPERTY SilentWhileIntact
CHECK_DEADLOCK FALSE
