CONSTANTS
  main = main
  a = a
  b = b
  v = v
  z = z
  NoCo = NoCo
  Co <- MCCo
  N = 2
  MaxExec = 3
  Confs <- MCConfs
SPECIFICATION FairSpec
INVARIANTS RunsOnce NoneForgotten NoNullResume
PROPERTIES JoinOutlastsStarted OthersEnd
CHECK_DEADLOCK FALSE
