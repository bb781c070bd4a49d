\* Blocks, branches and checkpoints in any order over one tree of blocks.
CONSTANTS
  a1 = a1
  a2 = a2
  a3 = a3
  a4 = a4
  e = e
  t1 = t1
  t2 = t2
  t3 = t3
  t4 = t4
  d1 = d1
  None = None
  Owners = {a1, a2, a3, a4, e}
  Tlds = {t1, t2, t3, t4}
  Domains = {d1}
  TldOf <- MCTldOf
  IcannTlds = {}
  Records = {}
  ZERO_HASH = "zeros"
  MaxSequence = 1
  TERM = 3
  GRACE = 1
  HORIZON = 3
  Hashes <- MCHashes
  BlockOf <- MCBlockOf
  TxIds <- MCTxIds
  Rank <- MCRank
  CommitteeSize = 4
  EpochSecs = 2
  RecoveryMax = 1
  MIN_FINALITY_COMMITTEE_SIZE = 4
  REPLAY_WINDOW_BLOCKS = 2
  RAM_WINDOW_BLOCKS = 2
  CHECKPOINT_KEEP = 2
  SignerSets <- MCSignerSets
  MaxEpoch = 2
SPECIFICATION Spec
CHECK_DEADLOCK FALSE
INVARIANTS
  WindowSound
  CheckpointsChained
  StateIsReplay
  ReplayIndexOfGrowth
PROPERTIES
  TipImproves
  AdoptionKeepsFinalized
