SPECIFICATION Spec
CONSTANTS
  MaxLen = 5
  Values = {0, 1, 2}
INVARIANT Ordered
\* No element of an empty array can be replaced.
CHECK_DEADLOCK FALSE
