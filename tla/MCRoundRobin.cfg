SPECIFICATION RulesSpec
CONSTANTS
  NPROC = 2
  NCPU = 1
  NMLFQ = 3
  MLFQ_TICKS <- MCQuanta
  BOOST_INTERVAL = 16
  TickMod = 1
  Chan = {}
  KillTargets = {}
  PrioTargets = {}
  DevCpus = {}
PROPERTY
  RoundRobin
