\* Two exchanges of a client with a peer that answers well, twice, or not at all.
CONSTANTS
  HdrLen = 1
  SizeMod = 24
  Traffic <- Answers
  OpenFlags <- ClientFlags
  Bases = {0}
  MaxOpens = 2
SPECIFICATION Spec
INVARIANTS ParserUsedAsAssumed ResponseIsOwn
PROPERTIES ImplementsClient
CHECK_DEADLOCK FALSE
