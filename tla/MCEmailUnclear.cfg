\* Nothing fails; the user replaces the time of a draft by an unclear one.
CONSTANTS
  Requests = {m1, m2, m3}
  Messages = {m1, m2, m3}
  Users = {u1}
  UserOf <- MCUserOf
  Threads = {t1}
  Callers = {t1}
  Schedulers = {s1}
  None = None
  Limit = 2
  Day = 2
  DraftTime = 2
  MaxTime = 4
  MaxFailures = 0
SPECIFICATION DialogueSpec
INVARIANTS BooksWhatWasAsked
SYMMETRY Interchangeable
CHECK_DEADLOCK FALSE
