SPECIFICATION Spec
CONSTANTS
  Calls = {c1, c2}
  CallKinds = {"request"}
  Background = {b1}
  TimerEnabled = FALSE
  Faults = {}
  MaxGrants = 2
  MaxDepth = 2
SYMMETRY CallSymmetry
INVARIANTS TypeOK OneGrant NewestGrantKept
