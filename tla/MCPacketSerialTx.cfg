CONSTANTS
  DATA_MAX = 4
  SEQ_MOD = 4
  SIZE_MOD = 64
  MaxSize = 20
  Size <- MCSize
  Handler = {h1}
  NULL = NULL

SPECIFICATION FairSpec

INVARIANTS
  TypeOK
  ReadsInBounds
  Contiguous
  FlagProtocol
  TrueMeansAccepted
  FullLastChunkIsEmpty

PROPERTY SendReturns
