SPECIFICATION Spec
CONSTANTS
  AIs = {a}
  Humans = {h}
  Observers = {}
  Moderators = {}
  NoPlayer = NoPlayer
  AutosaveTurns = {1}
  MaxTurn = 2
  MaxMenuSaves = 0
  HotkeyUsers = {}
  MayLeave = {}
PROPERTIES
  SavedOrdersCurrent
CHECK_DEADLOCK FALSE
