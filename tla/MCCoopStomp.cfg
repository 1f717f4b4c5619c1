SPECIFICATION Spec
CONSTANTS
  A = A
  B = B
  None = None
  Games <- StompGame
  MaxSaves = 0
PROPERTY StompIsRemembered
