SPECIFICATION ProcFsSpec
CONSTANTS
  NPROC = 3
  KillTargets = {2, 3}
  Sleepers = {2, 3}
  FsProc = {p1, p2}
  HomeBlock = {b1, b2, b3, b4}
  Content = {v1, v2}
  NoBuf = NoBuf
  LOGSIZE = 4
  MAXOPBLOCKS = 2
  OPBLOCKS = 1
  log_size = 5
  Ino = {p1, p2}
  OpenFile = {p1, p2}
  inode_of <- InodeOf
  Payload <- Payloads
  NBLK = 4
  BSIZE = 2
  NDIRECT = 1
SYMMETRY Interchangeable
INVARIANTS
  TypeOK
  NoLostWakeup
  LiveParent
  FreedOffStack
  LifeInv
  LogSpace
  SleeperHasWaker
  BlocksOwned
PROPERTIES
  LogAtomic
  FileIsBytes
