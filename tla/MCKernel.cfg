SPECIFICATION KernelSpec
CONSTANTS
  NBUF = 2
  BufProc = {x1, x2}
  DiskBlock = {1, 2, 3}
  BlockData = {d1, d2}
  NoBlock = NoBlock
  Nobody = Nobody
  MaxPinned = 1
  TreeProc = {x1, x2}
  NINODES = 2
  NINODE = 2
  FileName = {"a", "b"}
  TreePath <- Paths
  Unlocked = Unlocked
  FileProc = {1, 2}
  NFILE = 2
  NOFILE = 3
  PIPESIZE = 2
  PIPEMOD = 4
  Byte = {0, 1}
  Message = {}
  MemProc = {1, 2}
  initproc = 1
  NPAGES = 12
  PGSIZE = 2
  MaxSz = 6
  Program <- Programs
  MAXARGS = 1
  PAGE = 2
  VPAGES = 3
  PteFlags <- Flags
  UserMem <- Memories
  MaxLen = 4
  ConsProc = {1, 2}
  INPUT_BUF_SIZE = 3
  CONSMOD = 6
  MaxKeys = 4
  MaxRead = 2
  ClockProc = {1}
  TICKMOD = 8
  MaxSleep = 3
  Cpu = {c1, c2}
  Thread = {t1, t2}
  DevLock = DevLock
  NoCpu = NoCpu
  NoLock = NoLock
  StatSlot = {1, 2, 3}
  MaxPid = 4
  HEADER = 16
  MORE = 3
  HeapEnd = 10
  MallocSize = {0, 16, 40}
  Line <- Lines
  SHARGS = 3
SYMMETRY Interchangeable
CHECK_DEADLOCK FALSE
INVARIANTS
  OneBuffer
  BreadFresh
  LockFindsType
  IputWontBlock
  LinksCounted
  FilesCounted
  PagesConserved
  SizeMapped
  CopyAgrees
  EofDelivered
  SleepsLongEnough
  InterruptsMatchLocks
  SnapshotComplete
  HeapTiled
  ParseAgrees
PROPERTIES
  ConsoleIsTerminal
