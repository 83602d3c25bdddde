SPECIFICATION TreeSpec
CONSTANTS
  TreeProc = {p1}
  NINODES = 3
  NINODE = 3
  FileName = {"a", "b"}
  TreePath <- UpPaths
  Unlocked = Unlocked
INVARIANTS
  LockFindsType
