SPECIFICATION Spec
CONSTANTS
  Session = {s1, s2}
  Port = {p1, p2}
  Sock = {f1, f2}
  None = None
  Pipe = Pipe
  MaxClients = 4
  MaxChunks = 2
  MaxPipe = 2
INVARIANTS
  ThreadSurvives
CHECK_DEADLOCK FALSE
