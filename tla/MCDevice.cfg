CONSTANTS
  RX_SIZE = 4
  PACKET_BUFFER_SIZE = 2
  Byte <- MCByte
  Chunk <- MCChunk
  NoPacket = NoPacket
  Decode <- MCDecode
  Unmarshal <- MCUnmarshal
  Handler = {}
  NULL = NULL

SPECIFICATION DeviceSpec

INVARIANTS
  NoOverrun
  RoomAccounted
  FramePrefix
  ExactUnlessTorn
