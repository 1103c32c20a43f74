SPECIFICATION Spec
CONSTANTS
  ext1 = ext1
  ext2 = ext2
  Plain = Plain
  Empty = Empty
  NoExt = NoExt
  Exts = {ext1, ext2}
  Typed = {ext1, ext2}
  ActivationReplies = {}
  MaxInputs = 2
  MaxActivations = 0
  MaxBatches = 1
  MaxStops = 0
  MaxFailures = 1
PROPERTY PaintsLatest
