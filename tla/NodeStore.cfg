\* Two nodes with crashes, restarts, repairs and a bootstrap over one fork.
CONSTANTS
  a = a
  other = other
  n1 = n1
  n2 = n2
  None = None
  Nodes = {n1, n2}
  Owners = {a, other}
  Domains <- MCDomains
  Tlds <- MCTlds
  TldOf <- MCTldOf
  IcannTlds = {}
  Records = {"r"}
  ZERO_HASH = "zeros"
  MaxSequence = 1
  TERM = 2
  GRACE = 2
  HORIZON = 4
  Hashes <- MCHashes
  BlockOf <- MCBlockOf
  TxIds <- MCTxIds
  Rank <- MCRank
  CommitteeSize = 2
  EpochSecs = 2
  RecoveryMax = 1
  MIN_FINALITY_COMMITTEE_SIZE = 4
  REPLAY_WINDOW_BLOCKS = 3
  RAM_WINDOW_BLOCKS = 8
  CHECKPOINT_KEEP = 2
  SNAPSHOT_INTERVAL = 2
  PAGE = 1
  VERIFIED_SNAPSHOT_PAGE_ENTRIES = 1
  MAX_VERIFIED_SNAPSHOT_PAGE_ENTRIES = 2
  Network = "testnet"
SPECIFICATION Spec
CHECK_DEADLOCK FALSE
INVARIANTS
  TablesAreReplay
  BookkeepingExact
  SnapshotIsBoundary
  BootSafe
PROPERTIES
  DurableSpec
