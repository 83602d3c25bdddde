SPECIFICATION LiveSpec
CONSTANTS
  NPROC = 3
  KillTargets = {2}
  Sleepers = {2, 3}
  DiskProc = {p1, p2, p3}
  NUM = 8
  IDXMOD = 16
  MaxReq = 1
  NoReq = NoReq
  FileProc = {1, 2, 3}
  sh = 1
  leftcmd = 2
  rightcmd = 3
  MaxWrites = 1
  NFILE = 3
  NOFILE = 4
  PIPESIZE = 2
  PIPEMOD = 4
  Byte = {0, 1}
  Message <- Messages
  UartProc = {1, 2}
  UART_TX_BUF_SIZE = 2
  MaxPutc = 3
  MaxEcho = 2
CHECK_DEADLOCK FALSE
INVARIANTS
  RequestsIntact
PROPERTIES
  WaitReturns
  ExitEnds
  RwReturns
  PipeIsFifo
  PipelineEnds
  PutcReturns
