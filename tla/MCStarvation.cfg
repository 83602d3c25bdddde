SPECIFICATION FairSpec
CONSTANTS
  NPROC = 3
  NCPU = 1
  NMLFQ = 2
  MLFQ_TICKS <- MCQuanta
  BOOST_INTERVAL = 3
  TickMod = 1
  Chan = {}
  KillTargets = {}
  PrioTargets = {1, 2}
  DevCpus = {}
PROPERTY
  BoostPreventsStarvation
