SPECIFICATION MCSpec
CONSTANTS
  Starts = {s1, s2}
  StartOn = TRUE
  OpenMayFail = TRUE
  MaxSaves = 1
  NoProc = NoProc
  SwitchStarts = {t1, t2, t3}
  None = None
  Pids = {q1, q2, q3, q4}
  Tray = q1
  Orphan = Orphan
  Numbers = {p1, p2}
  Found <- MCFound
  Edits <- MCEdits
  OldAutostart = TRUE
  Absent = Absent
  Torn = Torn
  Bad = Bad
  Nothing = Nothing
  Blanks = {" "}
  InstructionLimit = 2
INVARIANTS
  TypeOK
  RankerIsOwned
  StaleOnlyIfSkipped
  SwitchOwnsRanker
  HandoffReplaces
  FilesAreWhole
  InstallIsAllOrNothing
PROPERTIES
  LoadingEnds
  DeadServerNoticed
CHECK_DEADLOCK FALSE
