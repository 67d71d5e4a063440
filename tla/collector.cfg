SPECIFICATION FairSpec
CONSTANTS
  RootLog = {TRUE, FALSE}
  MaxRecords = 4
  MaxRotations = 2
  MaxCrashes = 2
INVARIANTS
  TypeOK EntriesInOrder BackfillExact
PROPERTIES
  LastLoginLogged
CHECK_DEADLOCK FALSE
