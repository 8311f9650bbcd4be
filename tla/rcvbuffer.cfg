SPECIFICATION BufferSpec
CONSTANTS
  SeqMod = 16
  Window = 7
INVARIANTS RegionsHoldOctets RegionsSeparated MergeIsLoops
PROPERTY PassedUpInSequence
