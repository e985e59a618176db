SPECIFICATION Spec
CONSTANTS
  CallKinds = {"stream"}
  TimerEnabled = FALSE
  Faults = {}
  MaxGrants = 2
  Calls = {c1, c2}
  Background = {b1}
  MaxDepth = 2
PROPERTY FreshTokenUsed
