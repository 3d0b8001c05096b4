\* Two rows, one of which may be from the earlier release; two requests at a time.
CONSTANTS
  Rows = {r1, r2}
  Legacy = {r1}
  Clients = {c1, c2}
  Workers = {w1}
  Keys = {k1}
  Hashes = {h1}
  Titles = {t1}
  None = None
  Batch = 1
  MaxRequests = 3
  MaxFailures = 1
SPECIFICATION Spec
INVARIANTS TypeOK LockHeld SubmittedOnce StoredReady
PROPERTIES NothingTakenBack UserCoverKept KeepsPromise
SYMMETRY Interchangeable
