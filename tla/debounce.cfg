SPECIFICATION FairSpec
CONSTANTS
  Callers = {c1, c2}
  Base = 1
  Poll = 2
  Cap = 3
  ResetAfter = 5
  MaxDetached = 2
INVARIANTS TypeOK WaitBounded
PROPERTIES LoginAfterFullWait MaybeLoginReturns
