SPECIFICATION Spec
CONSTANTS
  Image = {blank}
  Blank = blank
  Nothing = Nothing
  Grips <- MenuGrips
  Rows <- MenuRows
  Levels = 2
  SaveEvery = 1
  MaxFaults = 0
INVARIANT StaleInputWithheld
PROPERTIES ChangeIsKept SoundIsExcluded
