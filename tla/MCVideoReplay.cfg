\* An input replayed after its task was deleted.
CONSTANTS
  Rows = {r1, r2}
  Legacy = {}
  Clients = {c1, c2}
  Workers = {w1}
  Keys = {k1}
  Hashes = {h1}
  Titles = {t1}
  None = None
  Batch = 1
  MaxRequests = 3
  MaxFailures = 0
SPECIFICATION Spec
INVARIANT ReplayCreatesNoTask
