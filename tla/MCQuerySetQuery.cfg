SPECIFICATION Spec
CONSTANTS
  ext1 = ext1
  ext2 = ext2
  Plain = Plain
  Empty = Empty
  NoExt = NoExt
  Exts = {ext1}
  Typed = {ext1}
  ActivationReplies = {"query"}
  MaxInputs = 1
  MaxActivations = 1
  MaxBatches = 1
  MaxStops = 0
  MaxFailures = 0
INVARIANT RequestKept
