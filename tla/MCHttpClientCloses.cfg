CONSTANTS
  MaxOpens = 2
SPECIFICATION FairSpec
PROPERTIES CloseCompletes
CHECK_DEADLOCK FALSE
