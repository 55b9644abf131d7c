SPECIFICATION FairSpec
CONSTANTS
  AIs = {a}
  Humans = {h}
  Observers = {o}
  Moderators = {}
  NoPlayer = NoPlayer
  AutosaveTurns = {}
  MaxTurn = 1
  MaxMenuSaves = 2
  HotkeyUsers = {}
  MayLeave = {a, o}
INVARIANTS
  ResponsesAsked
PROPERTIES
  GameEnds
  SaveAnswered
CHECK_DEADLOCK FALSE
