\* Two processes, two memories of the user and two changes, by the chat or over HTTP.
CONSTANTS
  Procs = {p1, p2}
  Requests = {r1, r2}
  Memories = {m1, m2}
  Foreign = {}
  Texts = {a, b}
  None = None
  MaxPending = 1
  MaxFaults = 1
  MaxCommands = 2
SPECIFICATION Spec
INVARIANTS WholeOrRefused HistoryKeepsOwner NeverStuck
PROPERTY OnlyAsShown
SYMMETRY Interchangeable
CHECK_DEADLOCK FALSE
