SPECIFICATION BothSpec
CONSTANTS
  None = None
  ByteBits = 3
  IdWidth = 5
  CharSigned = TRUE
  MaxRoute = 9
  Routes <- ROUTES
  Dictionary <- DICTIONARY
  Bodies <- BODIES
  IntBits = 6
  WideBits = 8
  Gprotos <- GPROTOS
INVARIANTS RoundTrip CutRefused BufferExact PbRoundTrip PbCutShort PbInside
CHECK_DEADLOCK FALSE
