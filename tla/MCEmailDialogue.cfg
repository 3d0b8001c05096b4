\* Three messages in a chat of a user who may send two mails a day. It stops after the third.
CONSTANTS
  Requests = {m1, m2, m3}
  Messages = {m1, m2, m3}
  Users = {u1}
  UserOf <- MCUserOf
  Threads = {t1}
  Callers = {t1}
  Schedulers = {s1}
  None = None
  Limit = 2
  Day = 2
  DraftTime = 2
  MaxTime = 5
  MaxFailures = 1
SPECIFICATION DialogueSpec
INVARIANTS ChargedOnce 
SYMMETRY Interchangeable
CHECK_DEADLOCK FALSE
