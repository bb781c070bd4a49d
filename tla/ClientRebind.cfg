\* A transaction for another network goes through `tx sign`.
CONSTANTS
  None = None
  p1 = p1
  p2 = p2
  p3 = p3
  p4 = p4
  ka = ka
  kb = kb
  k1 = k1
  k2 = k2
  k3 = k3
  k4 = k4
  main = main
  TESTNET = test
  BuildKey = kbuild
  VERSION = 1
  DEFAULT_M_COST_MIB = 2
  DEFAULT_T_COST = 1
  MAX_T_COST = 2
  MAX_RECORDS_PER_SET = 2
  Procs <- MCProcs
  Loads <- MainLoads
  Ids <- MCIds
  InitFiles <- MCInitFiles
  Domains <- MCDomains
  InitRegistry <- MCInitRegistry
  Network = test
  MAX_PENDING_PER_DOMAIN = 2
  MaxEvents = 1
SPECIFICATION Spec
CHECK_DEADLOCK FALSE
INVARIANTS
  RebindKeeps
