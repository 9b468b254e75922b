\* Every URL of up to five characters behind the prefix.
CONSTANTS
  MaxFields = 2
  Block = 0
  Length = 5
  Characters = {"h", ":", "/", "?", "SP"}
  Urls <- AllUrls
SPECIFICATION Spec
INVARIANTS TypeOK PartsRead NothingLost RequestRead
CHECK_DEADLOCK FALSE
