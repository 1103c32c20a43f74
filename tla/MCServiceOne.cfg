SPECIFICATION Spec
CONSTANTS
  a = a
  b = b
  NoExt = NoExt
  Exts <- OneExt
  Distro <- OneExt
  MaxProcs = 3
  MaxPreviews = 1
  MaxOps = 3
  MaxCli = 1
INVARIANTS TypeOK OneProcess DirectoryQuiet JobAccounted Converged
PROPERTIES NoCrashLoop SlotsKept
