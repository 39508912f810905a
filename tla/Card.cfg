SPECIFICATION Spec
CONSTANTS
  Job = {a, b, c}
  Slot = {A, B}
  Shots = 2
SYMMETRY Symmetry
INVARIANTS
  OneStageOnTheCard
  NoBrokenPipeCached
  PipeSuitsTheShot
  LeftoversComeFromFailures
PROPERTY ResultsAreWhole
CHECK_DEADLOCK FALSE
