CONSTANTS
  MaxOpens = 3
SPECIFICATION Spec
INVARIANTS TypeOK ObjectsAgree UrisFreed ParserReady ClosesOutsideHandlers
PROPERTIES ImplementsContract
CHECK_DEADLOCK FALSE
