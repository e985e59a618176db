SPECIFICATION BusySpec
CONSTANTS
  CallKinds = {"request"}
  TimerEnabled = FALSE
  Faults = {}
  MaxGrants = 2
  Calls = {c1}
  Background = {b1}
  MaxDepth = 2
PROPERTY ExpiredSessionLogsIn
