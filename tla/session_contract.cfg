SPECIFICATION FairSpec
CONSTANTS
  Calls = {c1}
  CallKinds = {"request", "stream", "direct"}
  Background = {b1}
  TimerEnabled = FALSE
  Faults = {"rateLimited", "error", "lost", "refreshRefused", "disk"}
  MaxGrants = 2
  MaxDepth = 2
PROPERTY CallsSettle
