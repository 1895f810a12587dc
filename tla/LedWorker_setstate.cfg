SPECIFICATION Spec
CONSTANTS
  Requested = {"ACTIVE", "STANDBY"}
  Levels = {100}
  Iterations = {1}
  MaxRaw = 2
  MaxRequests = 2
  FaultOps = {}
PROPERTY SetStateWins
