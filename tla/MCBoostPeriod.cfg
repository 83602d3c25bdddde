SPECIFICATION RulesSpec
CONSTANTS
  NPROC = 2
  NCPU = 2
  NMLFQ = 3
  MLFQ_TICKS <- MCQuanta
  BOOST_INTERVAL = 4
  TickMod = 32
  Chan = {}
  KillTargets = {}
  PrioTargets = {}
  DevCpus = {}
PROPERTY
  BoostPeriod
