CONSTANTS
  NULL = NULL
  Fields <- MCFields
  DATA_MAX = 16
  Residue = {0, 8, 255}
  ByteValue = {0, 2, 128, 255}
  SeqNo = {0, 128}
  MaxLen = 2
  Data <- MCData
  Prefix = {0, 252, 253, 254}
  NoPacket = NoPacket
  Marshalled <- MCMarshalled
  Unmarshalled <- MCUnmarshalled
  Pulse <- MCPulse

SPECIFICATION Spec

INVARIANTS
  RoundTrip
  DelimiterOnlyAtEnd
  FrameFits
  CrcTellsApart
  StuffingRoundTrip
  HexTextFits
  RowIsOneFrame

CHECK_DEADLOCK FALSE
