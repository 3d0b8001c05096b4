\* One behaviour belongs to one part; the constants of the others do not matter to it.
CONSTANTS
  None = None
  Users = {u1, u2}
  Agents = {g1}
  Threads = {t1, t2}
  Runs = {r1, r2}
  Trusted = {FALSE}
  PageSize = 1
  MaxHeads = 2
  MaxRows = 3
  Limit = 1
  RecentDays = 2
  MaxDays = 3
  MaxNamespaces = 4
  Inputs = {1, 2}
  Fields = {"prompt", "ratio"}
  MaxTries = 2
  Sessions = {s1}
  Connections = {c1, c2}
  Deletes = {d1}
  Servers = {p1, p2}
  MaxOpen = 1
  MaxActive = 2
  Codes = {k1, k2}
  Asks = {a1, a2}
  Logins = {l1, l2}
  SendLimit = 2
  MaxAttempts = 2
  CodeLife = 2
  SendWindow = 3
  FileUploads = {f1, f2}
  AvatarUploads = {v1, v2}
  Texts = {x, y}
  MaxPlaces = 3
SPECIFICATION ServicesSpec
INVARIANTS ThreadUserFixed NewestListed DaysMakeTheThread OneVideoPerInput OneConnection ToldClosedStaysClosed LoginsPaid NewestCodeWorks FilesExist WorksOnOpenStores OneValuePerSetting
PROPERTIES HistoryGrows NothingStale
SYMMETRY Interchangeable
CHECK_DEADLOCK FALSE
