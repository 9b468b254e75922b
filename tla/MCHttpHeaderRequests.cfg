\* Requests, with findchar_fast as it is without SSE 4.2.
CONSTANTS
  MaxFields = 2
  Block = 0
  Sent <- Requests
  Damage = {"SP", "HT", "CR", "LF", "CTL", "DEL", "HIGH", ":", "/", "0", "a"}
  Steps = {1, 2, 5}
SPECIFICATION Spec
INVARIANTS TypeOK AnswerStands CompleteAnswered ReadBack TerminatorsApart
CHECK_DEADLOCK FALSE
