SPECIFICATION Spec
CONSTANTS
  ext1 = ext1
  ext2 = ext2
  Plain = Plain
  Empty = Empty
  NoExt = NoExt
  Exts = {ext1}
  Typed = {ext1, Plain, Empty}
  ActivationReplies = {"list"}
  MaxInputs = 2
  MaxActivations = 1
  MaxBatches = 2
  MaxStops = 1
  MaxFailures = 1
INVARIANTS RequestKept IdsExact
PROPERTY PaintsLatest
