SPECIFICATION FairSpec
CONSTANTS
  Starts = {s1, s2}
  StartOn = FALSE
  OpenMayFail = FALSE
  MaxSaves = 1
  NoProc = NoProc
PROPERTY SettingsTakeEffect
CHECK_DEADLOCK FALSE
