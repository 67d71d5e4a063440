SPECIFICATION FairSpec
CONSTANTS
  log = log
  page = page
  Clients = {k1}
  Conns = {c1, c2}
  Files = {log, page}
  None = none
  Missing = missing
  Directory = directory
  IntRange = 64
  LogFile = log
  MaxFd = 6
  BufSiz = 2
  InitSize <- Sizes30
  MaxLogins = 1
  Paths = {log}
  ClientMoves = {}
  GarbageFds = {0}
  GarbageDims = {0}
PROPERTIES
  EveryRequestServed
CHECK_DEADLOCK FALSE
