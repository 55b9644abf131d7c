SPECIFICATION Spec
CONSTANTS
    Clients = {h, j}
    AIs = {a}
    MaxJoins = 3
    MaxEdits = 2
    MayHost = {h, j}
    MayLeave = {j, a}
INVARIANTS
    SetupTypeOK
    EstablishedAreListed
    OneConnectedHost
    NeverOverfull
    NeverStuck
    PlayersAgreed
CHECK_DEADLOCK FALSE
