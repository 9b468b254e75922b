\* Liveness: every DATA event of one connection is handled to the end.
CONSTANTS
  HdrLen = 2
  SizeMod = 40
  Traffic <- ResponseTraffic
  OpenFlags <- ResponseFlags
  Bases = {0}
  MaxOpens = 1
SPECIFICATION FairSpec
PROPERTIES HandlerReturns
CHECK_DEADLOCK FALSE
