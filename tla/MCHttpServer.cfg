CONSTANTS
  MaxSessions = 2
  MaxOpens = 2
  MaxFields = 2
SPECIFICATION Spec
INVARIANTS TypeOK ObjectsAgree OneCloseEach SessionsInMemory FieldsCleared
CHECK_DEADLOCK FALSE
