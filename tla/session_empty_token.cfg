SPECIFICATION Spec
CONSTANTS
  CallKinds = {"request"}
  TimerEnabled = FALSE
  Faults = {}
  MaxGrants = 2
  Calls = {c1, c2}
  Background = {b1}
  MaxDepth = 2
INVARIANT LoggedInBeforeRequest
