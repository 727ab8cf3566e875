SPECIFICATION Spec
CONSTANTS
  Callers = {t1, t2, t3}
  Arg = 7
  MaxCalls = 3
  U64 = 8
  MaxFns = 43
  VolatilePoke = TRUE
INVARIANTS TypeOK AnswerCorrect NoLostFault HandlerSurvives NoAnswerUnregistered
PROPERTY CallReturns
CHECK_DEADLOCK FALSE
