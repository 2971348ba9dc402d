SPECIFICATION Spec
CONSTANTS
  FileLen = 3
  SendMax = 2
  Conns <- MCConns
  Workloads <- MCWorkloads
  Builds <- MCBuilds
INVARIANTS TypeOK UserDataLive  AnswersWhole
PROPERTIES Reclaimed Served
CHECK_DEADLOCK FALSE
