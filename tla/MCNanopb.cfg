CONSTANTS
  NULL = NULL
  Fields <- MCFields
  Roots = {"Packet", "Arrays", "Pointers", "Oneofs", "Extended", "UnionMessage", "SpeechSynthMsg", "TimeMsg", "AlarmMsg", "NeoPixelMsg"}
  MAX_SET = 2
  MAX_AT = 9
  Garbage = {0, 3, 130, 255}
  Encoding <- MCEncoding
  Decoding <- MCDecoding
  DelimitedDecoding <- MCDelimitedDecoding
  TerminatedDecoding <- MCTerminatedDecoding
  Freed <- MCFreed
  Cleared <- MCCleared
  Found <- MCFound
  Taken <- MCTaken

SPECIFICATION Spec

INVARIANTS
  RoundTrip
  NothingLeaks
  DecodedFits
  PassedOnUnchanged
  
  FitsDeclaredSize

CHECK_DEADLOCK FALSE
