SPECIFICATION FairSpec
CONSTANTS
  Chan = {c1, c2}
  Lsock = {l1, l2}
  None = None
  MaxBehind = 0
  Drop = TRUE
INVARIANTS
  TypeOK
  ReplyBelongs
  SamePlace
PROPERTIES
  CommandEnds
  KeepsDialogue
CHECK_DEADLOCK FALSE
