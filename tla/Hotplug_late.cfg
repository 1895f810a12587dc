SPECIFICATION Spec
CONSTANTS
  Callbacks = {c1}
  AudioCallbacks = {a1}
  NULL = null
  MaxReports = 2
  Reentry = FALSE
  FaultOps = {"query", "start", "spawn"}
INVARIANT NoCallAfterTerm
