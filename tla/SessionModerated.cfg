SPECIFICATION FairSpec
CONSTANTS
  AIs = {}
  Humans = {h}
  Observers = {o}
  Moderators = {m}
  NoPlayer = NoPlayer
  AutosaveTurns = {}
  MaxTurn = 2
  MaxMenuSaves = 0
  HotkeyUsers = {o}
  MayLeave = {m, o}
INVARIANTS
  ProcessTurnPending
  HostAgreed
  HostConnected
PROPERTIES
  ModeratorDecides
  ExitsOnlyWhenOver
  HostLearns
CHECK_DEADLOCK FALSE
