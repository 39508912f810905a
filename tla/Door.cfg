SPECIFICATION DoorSpec
CONSTANTS
  Job = {a, b, c}
  MaxCompleted = 1
  Shot = {s, t}
  ClipKey <- OneKey
  MaxTimeouts = 1
  MaxRestarts = 1
INVARIANT VerdictsAreTrue
PROPERTY EveryCallerConcludes
CHECK_DEADLOCK FALSE
