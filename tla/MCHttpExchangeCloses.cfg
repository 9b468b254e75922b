\* One exchange, with the fairness of the event loop.
CONSTANTS
  HdrLen = 1
  SizeMod = 24
  Traffic <- Answers
  OpenFlags <- ClientFlags
  Bases = {0}
  MaxOpens = 1
SPECIFICATION FairSpec
PROPERTIES ResponseReported CloseCompletes
CHECK_DEADLOCK FALSE
