SPECIFICATION FairSpec
CONSTANTS
  Requested = {"WPS_CONNECTING"}
  Levels = {40, 100}
  Iterations = {1, 2}
  MaxRaw = 2
  MaxRequests = 2
  FaultOps = {"write", "wait", "clock"}
INVARIANTS TypeOK AsleepAgrees BlinkKeepsState BlinkPhases
PROPERTIES OffDarkens BlinkEnds StopEnds
