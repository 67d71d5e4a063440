SPECIFICATION Spec
CONSTANTS
  log = log
  page = page
  Clients = {k1}
  Conns = {c1, c2}
  Files = {log, page}
  None = none
  Missing = missing
  Directory = directory
  IntRange = 64
  LogFile = log
  MaxFd = 6
  BufSiz = 2
  InitSize <- Sizes30
  MaxLogins = 0
  Paths = {log}
  ClientMoves = {"short"}
  GarbageFds = {0}
  GarbageDims = {0}
INVARIANTS
  ClosedOnlyWhenComplete
CHECK_DEADLOCK FALSE
