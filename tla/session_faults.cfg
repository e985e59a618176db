SPECIFICATION Spec
CONSTANTS
  Calls = {c1}
  CallKinds = {"request", "stream", "direct"}
  Background = {b1}
  TimerEnabled = TRUE
  Faults = {"rateLimited", "badCredentials", "error", "lost", "disk", "crash"}
  MaxGrants = 2
  MaxDepth = 2
INVARIANTS OneGrant NewestGrantKept
PROPERTY CallsKeepSafeContract
