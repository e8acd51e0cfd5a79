SPECIFICATION FairSpec
CONSTANTS
  Conn = {c1, c2, c3}
  None = None
  Server = Server
  DataPipe = DataPipe
  ExitPipe = ExitPipe
  MaxClients = 5
  MaxLine = 2
  MaxArrivals = 3
  Batch = FALSE
INVARIANTS
  TypeOK
  TablesAgree
  ServerNotBlocked
PROPERTIES
  LiveConnectionKept
  SentOnce
  EveryLineAnswered
CHECK_DEADLOCK FALSE
