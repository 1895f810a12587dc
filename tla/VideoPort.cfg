SPECIFICATION MCSpec
CONSTANTS
  Requests <- SomeRequests
  Modes <- SomeModes
  NULL = null
  MaxLooks = 3
  FaultOps = {"command", "query"}
  Connectors <- Two
  TVs = {tv1}
  tv1 = tv1
  NoTv = NoTv
  ShownModes <- WideAndNarrow
  Preferred <- PrefersWide
INVARIANTS TypeOK RateKnown AnswersReal EnabledRemembered NeverOtherTv
PROPERTIES VerdictIsReal SetReturns
