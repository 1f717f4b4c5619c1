SPECIFICATION PlaySpec
CONSTANTS
  Inputs = {0, 1}
  Neutral = 0
  Fresh <- Boot
  Capacity = 2
  Interval = 1
  Speed = 2
  Slots = 2
  Pads = {p}
  Missing = Missing
  Legacy <- FormerFile
  Target = 3
  Pull = 2
  Sounds = {TRUE, FALSE}
  Recorders = {TRUE, FALSE}
  Clicks <- AllClicks
  Chords <- AllChords
  Views <- AllViews
  HostKeys <- AllKeys
  Platform <- NoMenu
  MaxFrames = 5
INVARIANTS HistoryIsPast RecordingReplays SoundMatchesPicture UnpacedBurst
PROPERTY AssistHolds
CONSTRAINT Short
CHECK_DEADLOCK FALSE
