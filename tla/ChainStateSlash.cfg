\* A second slash of the same stakeholder.
CONSTANTS
  o1 = o1
  o2 = o2
  t1 = t1
  d1 = d1
  d2 = d2
  r1 = r1
  None = None
  Owners = {o1, o2}
  Tlds = {t1}
  TldOf <- MCTldOf
  IcannTlds = {}
  Records = {r1}
  ZERO_HASH = "zeros"
  MaxSequence = 1
  TERM = 2
  HORIZON = 3
  MaxJournal = 2
  Domains <- MCOneDomain
  GRACE = 1
  Times <- MCTimes
  Expiries <- MCExpiries
SPECIFICATION Spec
INVARIANT SlashIsIdempotent
