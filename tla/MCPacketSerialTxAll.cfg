CONSTANTS
  DATA_MAX = 4
  SEQ_MOD = 4
  SIZE_MOD = 64
  MaxSize = 20
  Size <- MCPayloadSize
  Handler = {h1}
  NULL = NULL

SPECIFICATION Spec

INVARIANT AllBytesSent
