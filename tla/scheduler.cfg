SPECIFICATION FairSpec
CONSTANTS
  MaxProc = 4
  MaxForks = 6
  None = None
INVARIANTS
  TypeOK
  CurrentRunnable
  FreeListExact
PROPERTIES
  TableSpec
  EveryRunnableRuns
  ShellRuns
CHECK_DEADLOCK FALSE
