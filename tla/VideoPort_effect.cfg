SPECIFICATION MCSpec
CONSTANTS
  Requests <- PlainRequests
  Modes <- SomeModes
  NULL = null
  MaxLooks = 3
  FaultOps = {}
  Connectors <- Two
  TVs = {tv1}
  tv1 = tv1
  NoTv = NoTv
  ShownModes <- WideAndNarrow
  Preferred <- PrefersWide
PROPERTY TookEffect
