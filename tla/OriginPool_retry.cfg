\* Every kind of request against three origins and a budget of one retry.
CONSTANTS
  N = 3
  Requests = {r1}
  Kinds <- AllKinds
  ConfiguredRetries = 1
  FailuresToOpen = 1
SPECIFICATION FairSpec
INVARIANTS RetryDiscipline
PROPERTIES NoRetryAfterWrite Answered Recovery
