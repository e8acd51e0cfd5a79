SPECIFICATION Spec
CONSTANTS
  Session = {s1, s2}
  Inode = {i1}
  None = None
  Root <- SlashRoot
  DirArgs <- DirArguments
  FileArgs <- FileArguments
  Used <- TreeCommands
  MaxDepth = 4
  MaxText = 5
  MaxLen = 0
SYMMETRY Symmetry
INVARIANTS
  CwdInside
  PwdRoundTrip
PROPERTIES
  UpIsParent
