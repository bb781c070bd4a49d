\* Two domains under one TLD: entries that share an owner and a slot.
CONSTANTS
  o1 = o1
  o2 = o2
  t1 = t1
  d1 = d1
  d2 = d2
  r1 = r1
  None = None
  Owners = {o1, o2}
  Tlds = {t1}
  TldOf <- MCTldOf
  IcannTlds = {}
  Records = {r1}
  ZERO_HASH = "zeros"
  MaxSequence = 1
  TERM = 2
  HORIZON = 3
  MaxJournal = 2
  Domains <- MCTwoDomains
  GRACE = 2
  Times <- MCShortTimes
  Expiries <- MCShortExpiries
SYMMETRY OwnerSymmetry
SPECIFICATION Spec
INVARIANTS
  ExpirationQueueExact
  OwnerPoolExact
  RollbackExact
