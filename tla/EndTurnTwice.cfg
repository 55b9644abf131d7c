SPECIFICATION Spec
CONSTANTS
  AIs = {a}
  Humans = {h}
  Observers = {}
  Moderators = {}
  NoPlayer = NoPlayer
  AutosaveTurns = {}
  MaxTurn = 2
  MaxMenuSaves = 0
  HotkeyUsers = {h}
  MayLeave = {}
PROPERTIES
  OrdersNotLost
CHECK_DEADLOCK FALSE
