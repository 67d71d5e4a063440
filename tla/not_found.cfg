SPECIFICATION Spec
CONSTANTS
  log = log
  page = page
  Clients = {k1, k2, k3}
  Conns = {c1, c2}
  Files = {log, page}
  None = none
  Missing = missing
  Directory = directory
  IntRange = 64
  LogFile = log
  MaxFd = 6
  BufSiz = 2
  InitSize <- Sizes12
  MaxLogins = 0
  Paths = {log, missing}
  ClientMoves = {}
  GarbageFds = {0}
  GarbageDims = {0}
INVARIANTS
  ClosedOnlyWhenComplete
CHECK_DEADLOCK FALSE
