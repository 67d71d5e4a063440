SPECIFICATION Spec
CONSTANTS
  log = log
  page = page
  Clients = {k1, k2}
  Conns = {c1, c2}
  Files = {log, page}
  None = none
  Missing = missing
  Directory = directory
  IntRange = 6
  LogFile = log
  MaxFd = 3
  BufSiz = 2
  InitSize <- Sizes2
  MaxLogins = 1
  Paths = {log, missing, directory}
  ClientMoves = {"extra", "rst"}
  GarbageFds = {0, 2}
  GarbageDims = {0, 2}
SYMMETRY Symmetry
INVARIANTS
  NoDanglingPointer OutMeansIdle FreeMeansIdle HandlersKnowTheState RegistrationInv TypeOK
CHECK_DEADLOCK FALSE
