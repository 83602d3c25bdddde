SPECIFICATION FairSpec
CONSTANTS
  NPROC = 3
  NCPU = 1
  NMLFQ = 2
  MLFQ_TICKS <- MCQuanta
  BOOST_INTERVAL = 3
  TickMod = 1
  Chan = {}
  KillTargets = {2}
  PrioTargets = {3}
  DevCpus = {}
PROPERTY
  NoStarvation
