\* One answer of each kind under each action.
CONSTANTS
  Responses = {r1}
  Documents <- Answers
  Actions <- EveryAction
  MaxResponse = 2
  MaxInFlight = 3
SPECIFICATION Spec
INVARIANTS BlockRefusesForCause
CHECK_DEADLOCK FALSE
