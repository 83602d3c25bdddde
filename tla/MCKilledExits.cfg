SPECIFICATION FairSpec
CONSTANTS
  NPROC = 3
  KillTargets = {2}
  Sleepers = {2, 3}
PROPERTY
  KilledExits
