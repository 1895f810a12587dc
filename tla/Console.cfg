SPECIFICATION FairSpec
CONSTANTS
  MaxCalls = 2
  Commands <- MCCommands
  Replies <- MCReplies
  RespSize = 3
  MaxPayload = 2
  Dirs = {d1}
  EnvDir = none
  None = none
  FaultOps = {"socket", "connect", "send", "recv"}
INVARIANTS NothingLost OnlyWholeCommands
PROPERTIES Implements ServedReturns
CHECK_DEADLOCK FALSE
