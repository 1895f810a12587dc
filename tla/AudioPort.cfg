SPECIFICATION MCSpec
CONSTANTS
  Encodings = {"NONE", "PCM", "AC3", "EAC3"}
  Percents = {0, 1, 50, 99, 100}
  MaxVol = 255
  DbRange <- TlvRange
  Control = TRUE
  FaultOps = {}
  HasSwitch = TRUE
INVARIANTS ListenerKnows MuteHolds UnmuteRestores MuteFollows
PROPERTY SettersReadBack
