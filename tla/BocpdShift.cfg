SPECIFICATION Spec
CONSTANTS
  Hazard = 3
  MaxSlots = 4
  MinHistory = 2
  Good = 3
  Fair = 2
  Bad = 1
  MaxScores = 8
INVARIANT SustainedShiftReported
CHECK_DEADLOCK FALSE
