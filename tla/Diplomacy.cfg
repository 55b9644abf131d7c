SPECIFICATION Spec
CONSTANTS
  h = h
  k = k
  HumanEmpires <- MCHumanEmpires
  AIEmpires = {a}
  MaxSent <- MCMaxSent
INVARIANTS
  DiplomacyTypeOK
  ProposalsOnlyAtWar
  PeaceIsMutual
  ReplicasConverge
CHECK_DEADLOCK FALSE
