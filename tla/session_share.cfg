SPECIFICATION Spec
CONSTANTS
  Session = {s1, s2}
  Inode = {i1, i2}
  None = None
  Root <- PlainRoot
  DirArgs <- OneDirectory
  FileArgs <- Nested
  Used <- DownAndUp
  MaxDepth = 3
  MaxText = 3
  MaxLen = 3
SYMMETRY InodeSymmetry
INVARIANTS
  TypeOK
  DownloadFaithful
