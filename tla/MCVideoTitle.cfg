\* A title updated while its row is being submitted.
CONSTANTS
  Rows = {r1, r2}
  Legacy = {}
  Clients = {c1, c2}
  Workers = {w1}
  Keys = {k1}
  Hashes = {h1}
  Titles = {t1, t2}
  None = None
  Batch = 1
  MaxRequests = 3
  MaxFailures = 0
SPECIFICATION Spec
PROPERTY UserTitleKept
