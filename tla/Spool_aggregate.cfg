\* Two bodies and a reload between them.
CONSTANTS
  Bodies = {b1, b2}
  MaxBody = 2
  Ceiling = 2
  MaxBytes = 2
  DefaultBytes = 3
  MaxFiles = 1
  MaxReloads = 1
SPECIFICATION SpoolSpec
INVARIANTS AggregateCap
