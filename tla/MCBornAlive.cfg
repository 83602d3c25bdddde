SPECIFICATION Spec
CONSTANTS
  NPROC = 2
  KillTargets = {2}
  Sleepers = {}
PROPERTY
  BornAlive
