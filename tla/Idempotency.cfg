CONSTANTS
  a1 = a1
  a2 = a2
  a3 = a3
  b1 = b1
  h1 = h1
  h2 = h2
  None = None
  Attempts = {a1, a2, a3, b1}
  Hashes = {h1, h2}
  HashOf <- MCHashOf
  MaxTicks = 3
SPECIFICATION Spec
SYMMETRY Sends
CHECK_DEADLOCK FALSE
INVARIANTS ReplaysAreFaithful NoClaimLeftBehind
PROPERTIES SavesOnce
