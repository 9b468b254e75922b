\* A server's parser: one keep-alive connection.
CONSTANTS
  HdrLen = 2
  SizeMod = 40
  Traffic <- RequestTraffic
  OpenFlags <- RequestFlags
  Bases = {0, 7}
  MaxOpens = 1
SPECIFICATION Spec
INVARIANTS LineFollowsBuffer NoNeedlessWait PipelineKept
PROPERTIES ImplementsDelivery
CHECK_DEADLOCK FALSE
