SPECIFICATION FairSpec
CONSTANTS
  log = log
  page = page
  Clients = {k1, k2}
  Conns = {c1, c2}
  Files = {log, page}
  None = none
  Missing = missing
  Directory = directory
  IntRange = 64
  LogFile = log
  MaxFd = 6
  BufSiz = 2
  InitSize <- Sizes30
  MaxLogins = 0
  Paths = {log, page}
  ClientMoves = {"slow"}
  GarbageFds = {0}
  GarbageDims = {0}
INVARIANTS
  ServerStaysUp WorkDoneWhenTriggered NoOrphanDescriptor SilentInv UptimeInv MeasureInv
PROPERTIES
  EveryRequestServed ImplementsTransfer
CHECK_DEADLOCK FALSE
