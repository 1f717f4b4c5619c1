SPECIFICATION KeysSpec
CONSTANTS
  Keys = {enter, esc}
  Escape = esc
  Room = 1
  MaxMail = 2
PROPERTY ForeignIsStale
