SPECIFICATION Spec
CONSTANTS
  c1 = c1
  t1 = t1
  c2 = c2
  t2 = t2
  w = w
  p = p
  q = q
  NumEmpires = 2
  Ships <- MCShips
  Planets = {p, q}
  Fleets <- MCFleets
  ColonyShips = {c1, c2}
  OutpostShips = {}
  TroopShips = {t1, t2}
  ArmedShips = {w}
  NoPlanet = NoPlanet
  Troop = 10
  Situations <- MCSituations
  MaxTurn = 2
  MaxClicks = 3
PROPERTIES
  ContestedKeepsOwner
CHECK_DEADLOCK FALSE
