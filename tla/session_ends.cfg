SPECIFICATION FairSpec
CONSTANTS
  Session = {s1, s2}
  Inode = {i1, i2}
  None = None
  Root <- PlainRoot
  DirArgs <- OneDirectory
  FileArgs <- FileArguments
  Used <- AllAndStores
  MaxDepth = 2
  MaxText = 2
  MaxLen = 1
INVARIANTS
  LoginFirst

  
