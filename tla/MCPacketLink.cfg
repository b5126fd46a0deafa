CONSTANTS
  DATA_MAX = 4
  SEQ_MOD = 256
  SIZE_MOD = 65536
  RX_SIZE = 21
  PACKET_BUFFER_SIZE = 8
  Residue = {0, 255}
  Byte <- MCByte
  NoPacket = NoPacket
  Encode <- MCEncode
  Decode <- MCDecode
  Message <- MCMessage
  PieceSize = {1, 6, 21}
  MAX_IN_FLIGHT = 2
  uart = uart
  NULL = NULL

SPECIFICATION Spec

INVARIANT ReceiverKeepsUp
PROPERTY LinkImplemented
