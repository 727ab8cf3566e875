SPECIFICATION Spec
CONSTANT MaxWords = 3
INVARIANTS TypeOK OneTurn NoSendAfterClose
PROPERTY ServerHashEnds
\* The programs end.
CHECK_DEADLOCK FALSE
