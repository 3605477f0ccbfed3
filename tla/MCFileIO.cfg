\* Buffers of two bytes: files of up to two buffers, a size between buffers.
CONSTANTS
  InitLens <- Lengths
  MaxLen = 4
  BufSize = 2
  Word = 16
SPECIFICATION FairSpec
INVARIANTS TypeOK TrueMeansDelivered
PROPERTY CallReturns
CHECK_DEADLOCK FALSE
