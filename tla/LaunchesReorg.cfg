SPECIFICATION Spec
CONSTANTS
  Tokens = {"a", "b"}
  Workers = {"w1"}
  MaxHeight = 2
  MaxFork = 2
  MaxI64 = 7
  MaxErrors = 0
INVARIANT StateCanonical
CHECK_DEADLOCK FALSE
