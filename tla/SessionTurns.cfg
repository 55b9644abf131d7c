SPECIFICATION FairSpec
CONSTANTS
  AIs = {a}
  Humans = {h}
  Observers = {}
  Moderators = {}
  NoPlayer = NoPlayer
  AutosaveTurns = {1, 2}
  MaxTurn = 3
  MaxMenuSaves = 0
  HotkeyUsers = {}
  MayLeave = {}
INVARIANTS
  TypeOK
  ProcessTurnPending
  OrdersOfThisTurn
  SaveFileConsistent
PROPERTIES
  OrdersNotLost
  ImplementsBarrier
  TurnsEnd
CHECK_DEADLOCK FALSE
