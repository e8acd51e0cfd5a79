SPECIFICATION FairSpec
CONSTANTS
  Session = {s1, s2}
  Sends <- FetchAndStore
  Addr = {a1, a2, a3}
  Sock = {f1, f2, f3}
  None = None
  Pipe = Pipe
  MaxClients = 3
  MaxChunks = 2
  MaxPipe = 1
  MaxShared = 2
  Hurry = FALSE
INVARIANTS
  TypeOK
  TablesAgree
PROPERTIES
  TransferNotCut
  EveryTransferEnds
  ChannelReclaimed
CHECK_DEADLOCK FALSE
