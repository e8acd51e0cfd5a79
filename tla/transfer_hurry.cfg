SPECIFICATION FairSpec
CONSTANTS
  Session = {s1}
  Channel = {c1}
  Port = {p1}
  None = None
  Used <- Transfers
  MaxInbox = 1
  MaxChunks = 1
  MaxPipe = 4
  Hazard <- WithHurry
PROPERTY EveryCommandAnswered
CHECK_DEADLOCK FALSE
