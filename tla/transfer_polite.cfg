SPECIFICATION Spec
CONSTANTS
  Session = {s1, s2}
  Channel = {c1, c2}
  Port = {p1, p2}
  None = None
  Used <- AllCommands
  MaxInbox = 1
  MaxChunks = 2
  MaxPipe = 4
  Hazard <- NoHazard
SYMMETRY Symmetry
INVARIANTS
  OneReplyEach
  CompletionAfter150
  NoRepeatedReply
  NoMisdelivery
  NoSharedChannel
  ServerNotBlocked
