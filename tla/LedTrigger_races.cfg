SPECIFICATION FairSpec
CONSTANTS
  Procs = {p1, p2}
  Kernel = {mmc}
  Off = off
  BootTriggers = {mmc}
  Empty = empty
  Absent = absent
  NoProc = noproc
  Guard = TRUE
  FaultOps <- AllButLoad
  ExitRaces = TRUE
INVARIANTS NeverStranded
PROPERTY CallsEnd
