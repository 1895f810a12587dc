SPECIFICATION FairSpec
CONSTANTS
  Callbacks = {c1}
  AudioCallbacks = {a1}
  NULL = null
  MaxReports = 2
  Reentry = TRUE
  FaultOps = {"query", "start", "spawn"}
INVARIANTS TermJoins SettledTruth
PROPERTIES WatcherTracks ApiReturns
