SPECIFICATION Spec
CONSTANTS
  a = a
  b = b
  NoExt = NoExt
  Exts <- OneExt
  Distro <- OneExt
  MaxProcs = 2
  MaxPreviews = 0
  MaxOps = 1
  MaxCli = 1
INVARIANTS FallbackStaysDisabled
