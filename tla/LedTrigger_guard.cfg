SPECIFICATION Spec
CONSTANTS
  Procs = {p1, p2}
  Kernel = {mmc, beat}
  Off = off
  BootTriggers = {mmc, off}
  Empty = empty
  Absent = absent
  NoProc = noproc
  Guard = TRUE
  FaultOps <- HarmlessFaults
  ExitRaces = FALSE
SYMMETRY ProcSymmetry
INVARIANTS Recoverable OneOwner WorkerEndsFirst ExitHandsBack
PROPERTY BackupOutlivesUse
