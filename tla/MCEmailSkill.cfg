\* Two requests of a user who may have one; the schedulers of two processes. Two ticks are a day.
CONSTANTS
  Requests = {r1, r2}
  Users = {u1}
  UserOf <- MCUserOf
  Callers = {c1}
  Schedulers = {s1, s2}
  None = None
  Limit = 1
  Day = 2
  MaxTime = 4
  MaxFailures = 1
SPECIFICATION Spec
INVARIANTS TypeOK NoSecondMail BookingWhole SentIsTrue
PROPERTIES KeepsItsTime DueIsTaken
