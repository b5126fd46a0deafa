CONSTANTS
  DATA_MAX = 4
  SEQ_MOD = 256
  SIZE_MOD = 65536
  RX_SIZE = 15
  PACKET_BUFFER_SIZE = 21
  Residue = {0, 255}
  Byte <- MCByte
  NoPacket = NoPacket
  Encode <- LossyEncode
  Decode <- LossyDecode
  Message <- LossyMessage
  PieceSize = {5, 15}
  Kept = {0, 11}
  Damaged <- LossyDamage
  MAX_IN_FLIGHT = 0
  MAX_ON_LINE = 0
  MAX_FAULTS = 2
  uart = uart
  NULL = NULL

SPECIFICATION LossySpec

INVARIANTS
  NothingRefused
  IntactMessageExact
PROPERTY LossStaysLocal
