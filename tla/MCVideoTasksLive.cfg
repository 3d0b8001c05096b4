\* Two rows that may both be live, and two workers, of which one leads; a batch of one row, so that
\* the order of polling decides who waits. Both the creator of a row and the leader may die.
CONSTANTS
  Rows = {r1, r2}
  Legacy = {}
  Clients = {c1}
  Workers = {w1, w2}
  Keys = {k1, k2}
  Hashes = {h1}
  Titles = {t1}
  None = None
  Batch = 1
  MaxRequests = 2
  MaxFailures = 2
SPECIFICATION FairSpec
ACTION_CONSTRAINT NamedInOrder
PROPERTIES SubmissionSettles
