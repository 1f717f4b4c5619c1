SPECIFICATION FairSpec
CONSTANTS
  Image = {blank, a}
  Blank = blank
  Nothing = Nothing
  Grips <- ResetGrips
  Rows <- SaveRows
  Levels = 1
  SaveEvery = 1
  MaxFaults = 3
INVARIANTS LossWindow NoSilentLoss
PROPERTIES LeavingIsSaved SavedAgain
