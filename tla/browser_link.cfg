SPECIFICATION LiveSpec
CONSTANTS
  None = None
  Sockets = {1, 2}
INVARIANTS OneWindow StateTells
PROPERTIES NoUninvitedDial Heals
