\* Two requests and the health thread race on two origins; three bodies compete for
\* one file slot while the policy is reloaded once and the process may crash.
CONSTANTS
  N = 2
  Requests = {r1, r2}
  Kinds <- GetOnly
  ConfiguredRetries = 0
  FailuresToOpen = 1
  Bodies = {b1, b2, b3}
  MaxBody = 3
  Ceiling = 1
  MaxBytes = 5
  DefaultBytes = 4
  MaxFiles = 1
  MaxReloads = 1
SPECIFICATION CoreSpec
SYMMETRY Symmetry
INVARIANTS TypeOK OneProbePerOpening OpenIsDown BudgetsExact NoOrphans
