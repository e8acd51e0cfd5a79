SPECIFICATION FairSpec
CONSTANTS
  Session = {s1, s2}
  Channel = {c1}
  Port = {p1}
  None = None
  Used <- Transfers
  MaxInbox = 1
  MaxChunks = 1
  MaxPipe = 4
  Hazard <- NoHazard
PROPERTIES
  ImplementsDialogue
