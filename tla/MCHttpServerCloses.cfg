CONSTANTS
  MaxSessions = 1
  MaxOpens = 2
  MaxFields = 1
SPECIFICATION FairSpec
PROPERTIES ServerCloseCompletes SessionCloseCompletes
CHECK_DEADLOCK FALSE
