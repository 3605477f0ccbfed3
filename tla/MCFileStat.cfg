CONSTANTS
  InitLens <- Lengths
  MaxLen = 4
  BufSize = 2
  Word = 16
SPECIFICATION Spec
INVARIANT StatFailureCovered
CHECK_DEADLOCK FALSE
