SPECIFICATION PartsSpec
CONSTANTS
  Image = {v1, v2, v3}
  Absent = Absent
  Torn = Torn
  Nothing = Nothing
  Snapshot = {a, b, c}
  Capacity = 4
  Operands <- Statuses
  HandlerOpcodes <- Body
  MaxDepth = 1
  Size = 3
  Code <- Words
  Masks <- WidthMask
  Limits = {2, 5}
  MaxWords = 1
  Digits = 2
  Rights <- Terms
  Count = 3
  BlockFrames = 2
  Amounts = {1, 3}
  Saved = {1}
  Leap = 2
  MaxFrame = 4
  Keys = {enter, esc}
  Escape = esc
  Room = 1
  MaxMail = 2
INVARIANTS StaticCovers LengthsAgree WidthsKept RoomIsLeft DecodesTheReachable AluMeetsReference
PROPERTIES Refinement HealthyWriteCommits RingRefinement AnalysisEnds LineRefinement BlockComes KeysAreFresh
CHECK_DEADLOCK FALSE
