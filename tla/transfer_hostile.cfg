SPECIFICATION Spec
CONSTANTS
  Session = {s1}
  Channel = {c1}
  Port = {p1}
  None = None
  Used <- Transfers
  MaxInbox = 1
  MaxChunks = 1
  MaxPipe = 2
  Hazard <- AllHazards
INVARIANTS
  TypeOK
  LockIsToken
  NoLostWakeup
PROPERTIES
  ReplyNotOverwritten
CHECK_DEADLOCK FALSE
