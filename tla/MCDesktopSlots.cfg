SPECIFICATION Spec
CONSTANTS
  Inputs = {0}
  Neutral = 0
  Fresh <- Boot
  Capacity = 1
  Interval = 1
  Speed = 2
  Slots = 2
  Pads = {}
  Missing = Missing
  Legacy = Missing
  Target = 1
  Pull = 1
  Sounds = {FALSE}
  Recorders = {FALSE}
  Clicks <- AllClicks
  Chords <- NoChord
  Views <- InView
  HostKeys <- NoKeys
  Platform <- NativeMenu
  MaxFrames = 2
PROPERTIES QuickUsesFirstSlot
CHECK_DEADLOCK FALSE
