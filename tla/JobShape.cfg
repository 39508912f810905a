SPECIFICATION ShapeSpec
CONSTANTS
  Fit <- LTX12GB
  Absent = Absent
  Infinite = Infinite
  Malformed = Malformed
  Huge = Huge
  Asks <- ClipAsks
  Clips = 1
  DeclaredSeeds = 15
  TorchSeeds = 31
  Shots = 2
  Previews <- PreviewAsks
  Trainings <- TrainAsks
INVARIANTS
  NeverPastTheTier
  DecodableShape
  AskedIsHonoured
  KnobsNeverOvershoot
  
  TrainingLearns
CHECK_DEADLOCK FALSE
