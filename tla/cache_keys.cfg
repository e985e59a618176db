SPECIFICATION Spec
CONSTANTS
  Callers = {c1, c2}
  Kinds = {"info", "snapshot"}
  Macs = {m1, m2}
  Variants = {main}
  Main = main
  Lifetimes = {2}
  Longest = 2
  Limits = {1}
  BaseDelay = 1
  MaxAnswers = 2
SYMMETRY Symmetry
INVARIANTS TypeOK RightCamera AnswersAreFresh
