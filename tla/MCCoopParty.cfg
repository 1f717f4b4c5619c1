SPECIFICATION Spec
CONSTANTS
  A = A
  B = B
  None = None
  Games <- AllGames
  MaxSaves = 1
INVARIANTS LostUntilRescued OwnerIsHolder SelectorsPaired RectRestored HandsStayOpen
PROPERTY ReactionsFindTheirKong
