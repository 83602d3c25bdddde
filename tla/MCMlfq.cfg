SPECIFICATION Spec
CONSTANTS
  NPROC = 2
  NCPU = 2
  NMLFQ = 3
  MLFQ_TICKS <- MCQuanta
  BOOST_INTERVAL = 3
  TickMod = 1
  Chan = {"io"}
  KillTargets = {2}
  PrioTargets = {2}
  DevCpus = {1}
INVARIANTS
  TypeOK
  StackOwnership
  StackInv
  QuantumBound
  BoostNotMissed
