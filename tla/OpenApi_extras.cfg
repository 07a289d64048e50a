\* Every composition of small schemas against small JSON bodies.
CONSTANTS
  Docs <- Tables
  Specs <- TheApi
  Requests <- BodyRequests
  MaxSchemaDepth = 4
SPECIFICATION Spec
INVARIANTS ExtrasDenied
CHECK_DEADLOCK FALSE
