\* Two keys, two epochs, two contents per epoch; the directory sync may fail.
CONSTANTS
  k1 = k1
  k2 = k2
  h1 = h1
  h2 = h2
  NoCtx = NoCtx
  Keys = {k1, k2}
  Epochs = {1, 2}
  Hashes = {h1, h2}
  DirSyncMayFail = TRUE
SPECIFICATION Spec
INVARIANT NeverTwoVotes
