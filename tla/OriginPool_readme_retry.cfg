\* The README's promise of one retry, on both paths.
CONSTANTS
  N = 2
  Requests = {r1}
  Kinds <- TwoPaths
  ConfiguredRetries = 0
  FailuresToOpen = 1
SPECIFICATION Spec
INVARIANTS AtLeastOneRetry
