\* Messages in up to four events, some larger than the buffer; chunks get lost.
SPECIFICATION Spec
CONSTANTS
  Msgs = {m1, m2, m3, m4}
  Sizes = {1, 2, 4}
  BufferLen = 3
  MayLose = TRUE
  ParserMayFail = FALSE
  CloseCode = CloseCode
  NoMsg = NoMsg
SYMMETRY Symmetry
INVARIANTS
  TypeOK
  DeafnessIsBounded
PROPERTIES
  OnlyWhatWasSent
  SoundIsHandled
