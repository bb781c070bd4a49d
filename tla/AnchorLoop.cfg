\* Two anchors and a passive relay, a fork at the second height, one epoch; one
\* request is lost, overtaken or an outsider's.
CONSTANTS
  a1 = a1
  a2 = a2
  t1 = t1
  t2 = t2
  n1 = n1
  n2 = n2
  n3 = n3
  None = None
  Owners = {a1, a2}
  Tlds = {t1, t2}
  Domains = {}
  TldOf <- MCTldOf
  IcannTlds = {}
  Records = {}
  ZERO_HASH = "zeros"
  MaxSequence = 1
  TERM = 3
  GRACE = 1
  HORIZON = 3
  Hashes <- MCHashes
  BlockOf <- MCBlockOf
  TxIds = {1, 2}
  Rank <- MCRank
  CommitteeSize = 2
  EpochSecs = 2
  RecoveryMax = 1
  MIN_FINALITY_COMMITTEE_SIZE = 2
  REPLAY_WINDOW_BLOCKS = 4
  RAM_WINDOW_BLOCKS = 4
  CHECKPOINT_KEEP = 2
  Nodes <- MCThree
  KeyOf <- MCKeys
  EpochMinBlocks = 2
  Common <- MCCommon
  MAX_PENDING_CHECKPOINTS = 1
  MaxEpoch = 0
  FaultyLinks <- MCFaultyLinks
  MaxFaults = 1
  Exposed = {n2}
  ForeignData <- MCForeignData
SPECIFICATION Spec
CHECK_DEADLOCK FALSE
INVARIANTS
  FinalizedAgree
  CountsOnlyVotes
PROPERTIES
  CommonVoteFinalizes
