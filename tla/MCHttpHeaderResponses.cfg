\* Responses, with findchar_fast in blocks of four.
CONSTANTS
  MaxFields = 4
  Block = 4
  Sent <- Responses
  Damage = {"SP", "HT", "CR", "LF", "CTL", "DEL", "HIGH", ":", "/", "0", "a"}
  Steps = {1, 7}
SPECIFICATION Spec
INVARIANTS AnswerStands ReadBack
CHECK_DEADLOCK FALSE
