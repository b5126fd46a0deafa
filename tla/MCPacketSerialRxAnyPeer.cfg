CONSTANTS
  RX_SIZE = 5
  PACKET_BUFFER_SIZE = 3
  MaxChunk = 2
  Byte <- MCByte
  Chunk <- MCChunk
  NoPacket = NoPacket
  Decode <- MCDecode
  Unmarshal <- MCUnmarshal
  Handler = {h1}
  NULL = NULL

SPECIFICATION SpecAnyPeer

INVARIANT NoOverrun
