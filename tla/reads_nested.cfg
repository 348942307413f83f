SPECIFICATION Spec
CONSTANTS
  t1 = t1
  t2 = t2
  k1 = k1
  k2 = k2
  Threads = {t1, t2}
  Keys = {k1, k2}
  Bytes <- GrowingBytes
  Cached = {"r", "s"}
  Fallback = TRUE
  CursorLimit = 1
  Calls <- OneWriter
  MaxScopes <- TwoScopes
  MaxWrites = 1
  MaxEntries = 2
  MaxBytes = 2
SYMMETRY Symmetry
INVARIANTS
  ReadYourWrites
