SPECIFICATION Spec
CONSTANTS
  Inputs = {0}
  Neutral = 0
  Fresh <- Boot
  Capacity = 1
  Interval = 1
  Speed = 2
  Slots = 1
  Pads = {p}
  Missing = Missing
  Legacy = Missing
  Target = 1
  Pull = 1
  Sounds = {FALSE}
  Recorders = {FALSE}
  Clicks = {}
  Chords <- NoChord
  Views <- InView
  HostKeys <- NoKeys
  Platform <- NoMenu
  MaxFrames = 2
INVARIANTS PadsAreOpened
CHECK_DEADLOCK FALSE
