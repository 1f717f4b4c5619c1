SPECIFICATION Spec
CONSTANTS
  A = A
  B = B
  None = None
  Games <- PolicyGame
  MaxSaves = 0
INVARIANTS LostUntilRescued
