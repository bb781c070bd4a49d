\* Three relays in a line, one staked producer, one connection per link at a time, one fault.
CONSTANTS
  a = a
  b = b
  devnet = devnet
  t1 = t1
  t2 = t2
  d1 = d1
  None = None
  Owners = {a, b}
  Tlds = {t1, t2}
  Domains = {d1}
  TldOf <- MCTldOf
  IcannTlds = {}
  Records = {}
  ZERO_HASH = "zeros"
  MaxSequence = 1
  TERM = 2
  GRACE = 1
  HORIZON = 3
  Nodes = {1, 2, 3}
  TxOf <- MCTxOf
  KeyOf <- MCKeyOf
  Lower <- MCLower
  Links <- MCLinks
  InitChain <- MCInitChain
  InitLinks <- MCInitLinks
  Submissions <- MCSubmissions
  MaxConns = 1
  MaxOpens = 2
  MaxFaults = 1
  MAX_PENDING_PER_DOMAIN = 2
  CAPACITY = 3
  MAX_TXS_PER_BLOCK = 2
  MAX_SYNC_ROUNDS = 10
SPECIFICATION FairSpec
CHECK_DEADLOCK FALSE
INVARIANTS
  PoolReconciled
  OneHistory
PROPERTY
  CatchUp
