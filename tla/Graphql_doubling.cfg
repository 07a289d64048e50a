\* Fragments that spread each other, under a complexity cap of two.
CONSTANTS
  Fragments = {"A", "B", "C"}
  Lexemes <- ShapedLexemes
  Site <- SiteLimits
  Route <- RouteLimits
  Production = FALSE
  ListArg = 3
  DefaultListSize = 2
  HardDepth = 3
  HardComplexity = 6
  HardOperations = 2
  Word = 15
  MaxLexemes = 18
  MaxBatch = 1
SPECIFICATION Spec
INVARIANT WalkHeld
CHECK_DEADLOCK FALSE
