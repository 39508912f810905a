SPECIFICATION Spec
CONSTANTS
  Job = {a, b}
  Slot = {A, B}
  Shots = 1
SYMMETRY Symmetry
INVARIANT DrawsOwnIdentity
CHECK_DEADLOCK FALSE
