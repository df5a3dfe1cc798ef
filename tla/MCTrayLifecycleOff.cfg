SPECIFICATION Spec
CONSTANTS
  Starts = {s1, s2}
  StartOn = FALSE
  OpenMayFail = FALSE
  MaxSaves = 1
  NoProc = NoProc
INVARIANT OffMeansStopped
CHECK_DEADLOCK FALSE
