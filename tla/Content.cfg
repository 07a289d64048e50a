\* Answers, bodies, queries and lists, one component at a time.
CONSTANTS
  Responses = {r1, r2}
  Documents <- Answers
  Actions <- EveryAction
  MaxResponse = 2
  MaxInFlight = 3
  Edges <- TwoEdges
  Urls = 2
  List <- Lists
  Extras = {"x"}
  Declaring = {"f"}
  Torn = "t"
  MaxVersion = 2
  MaxRuns = 2
SPECIFICATION ContentSpec
INVARIANTS BudgetHeld CardsMasked
INVARIANTS LimitsExact BodyContract RoutesHold LastKnownGood
PROPERTIES KeepsPromise DeliveredWhole
CHECK_DEADLOCK FALSE
