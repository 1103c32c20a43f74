SPECIFICATION FairSpec
CONSTANTS
  ext1 = ext1
  ext2 = ext2
  Plain = Plain
  Empty = Empty
  NoExt = NoExt
  Exts = {ext1, ext2}
  Typed = {ext1, ext2, Plain, Empty}
  ActivationReplies = {}
  MaxInputs = 2
  MaxActivations = 0
  MaxBatches = 2
  MaxStops = 1
  MaxFailures = 0
INVARIANTS BufferLatest StreamFaithful WireOrdered
PROPERTY AnsweredForGood
