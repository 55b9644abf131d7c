SPECIFICATION FairSpec
CONSTANTS
  AIs = {}
  Humans = {h}
  Observers = {o}
  Moderators = {}
  NoPlayer = NoPlayer
  AutosaveTurns = {1}
  MaxTurn = 2
  MaxMenuSaves = 0
  HotkeyUsers = {}
  MayLeave = {o}
PROPERTIES
  TurnsEnd
CHECK_DEADLOCK FALSE
