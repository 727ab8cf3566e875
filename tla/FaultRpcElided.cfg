SPECIFICATION Spec
CONSTANTS
  Callers = {t1}
  Arg = 7
  MaxCalls = 1
  U64 = 8
  MaxFns = 43
  VolatilePoke = FALSE
INVARIANT AnswerCorrect
CHECK_DEADLOCK FALSE
