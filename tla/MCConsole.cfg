SPECIFICATION ConsoleSpec
CONSTANTS
  RepeatBit = 4
  BankSize = 5
  LastLine = 6
  LineCycles = 6
  Lines = 4
  HBlankStart = 4
  VBlankStart = 3
  DotCycles = 2
  JoyCycles = 8
  MulCycles = 2
  DivCycles = 3
  MaxWord = 15
  PadValues = {0, 1, 2}
  PadRange = 4
  Payments = {0, 1, 2, 3, 4, 5, 6, 7, 8, 9}
  HdmaMemory <- LayerTable
  HdmaChannels <- LayerChannels
  Songs = {33}
  Variants = {0, 1}
  Packs <- Folders
  Voices = {v1}
  InRate = 11
  OutRate = 8
  Tracks <- Files
  MaxHeard = 12
  Num = 13
  Den = 4
  SdlSlack = 2
  Works = {0, 1, 2, 3, 4, 9, 14}
  MaxOvershoot = 2
  FrameClocks = 5
  Overruns = {0, 2, 5, 11}
  Pages = {1, 2}
  Contents = {0, 1}
  Wraps <- WrapMaps
  Objects <- ObjectMaps
  Levels = {1, 2}
  Places = {0, 2}
  Travel = 2
  Refresh = 2
  SaveAt = {1}
  MaxClock = 2
  Page = 2
  SramSize = 1
  Rom <- Image
  ByteRange = 4
  Controls <- VramControls
  Column = 2
  Sheet = 4
  Turn = 2
  Field = 2
  TailWords = 2
  Fine = 2
  DmaSetups <- Transfers
  DmaChannels = {0, 1}
  MaxAccesses = 2
  Uploads <- UploadSample
  PairPorts = {13, 14, 16, 28, 31}
  PairValues = {1, 2}
  Corners <- CornerSample
  FirstPage = 1
  Maxima = {10}
  Holds = {2}
  Extras = {0, 1, 3}
  EdgePolicies = {"reflect", "bars", "glide", "shift"}
  GlideSpan = 2
  SettleFrames = 2
  CameraTravel = 2
  NativeWidth = 5
  NativeLeft = 2
  NativeSpan = 9
INVARIANTS ConsoleTypeOK ClockKept ScanForetells OneSoundtrack PlaysAsWritten PacingKept PortsKept WindowKept
PROPERTIES PlaneIsTrue
CHECK_DEADLOCK FALSE
