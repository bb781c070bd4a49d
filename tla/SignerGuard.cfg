\* Two keys, three epochs, two contents per epoch; the directory sync works.
CONSTANTS
  k1 = k1
  k2 = k2
  h1 = h1
  h2 = h2
  NoCtx = NoCtx
  Keys = {k1, k2}
  Epochs = {1, 2, 3}
  Hashes = {h1, h2}
  DirSyncMayFail = FALSE
SYMMETRY MCSymmetry
SPECIFICATION Spec
INVARIANTS
  NeverTwoVotes
  SentIsDurable
PROPERTY VotesAdvance
