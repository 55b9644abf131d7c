SPECIFICATION Spec
CONSTANTS
  AIs = {a}
  Humans = {h}
  Observers = {}
  Moderators = {}
  NoPlayer = NoPlayer
  AutosaveTurns = {1, 2}
  MaxTurn = 3
  MaxMenuSaves = 1
  HotkeyUsers = {}
  MayLeave = {}
INVARIANTS
  OneEntryPerPlayer
CHECK_DEADLOCK FALSE
