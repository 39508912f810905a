SPECIFICATION LiveSpec
CONSTANTS
  Job = {a, b, c}
  MaxCompleted = 1
INVARIANTS
  QueueMatchesTable
  TableIsLiveOrRecent
  QueuedJobHasWorker
  NoOvertaking
  EnvelopeMatchesFate
PROPERTIES
  QueuedJobSettles
  CancelSettles
  ImplementsService
  ServesFairly
CHECK_DEADLOCK FALSE
