SPECIFICATION OrderSpec
CONSTANTS
  NPROC = 3
  NCPU = 2
  NMLFQ = 2
  MLFQ_TICKS <- MCQuanta
  BOOST_INTERVAL = 2
  TickMod = 1
  Chan = {}
  KillTargets = {}
  PrioTargets = {3}
  DevCpus = {}
INVARIANTS
  HigherQueueFirst
