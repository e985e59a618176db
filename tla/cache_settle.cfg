SPECIFICATION FairSpec
CONSTANTS
  Callers = {c1, c2}
  Kinds = {"image"}
  Macs = {m1}
  Variants = {main}
  Main = main
  Lifetimes = {1}
  Longest = 1
  Limits = {0, 2}
  BaseDelay = 1
  MaxAnswers = 1
INVARIANT AttemptsBounded
PROPERTY CallsSettle
