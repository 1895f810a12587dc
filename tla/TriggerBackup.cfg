SPECIFICATION MCSpec
CONSTANTS
  q1 = q1
  q2 = q2
  q3 = q3
  Procs = {p1, p2}
  Texts <- MCTexts
  Inodes = {1, 2, 3}
  Guard = TRUE
  Hole = "-"
  None = none
  Loaders = {q1, q2, q3}
  NULL = null
  PidLength <- Lengths
  FaultOps = {"open", "stat", "lock", "truncate", "write"}
INVARIANT OneGuard
PROPERTY Atomic
