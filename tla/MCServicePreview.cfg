SPECIFICATION FairSpec
CONSTANTS
  a = a
  b = b
  NoExt = NoExt
  Exts <- TwoExts
  Distro <- NoDistro
  MaxProcs = 2
  MaxPreviews = 2
  MaxOps = 2
  MaxCli = 0
PROPERTY JobsSettle
