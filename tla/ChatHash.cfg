SPECIFICATION Spec
CONSTANT MaxWords = 1
PROPERTY HashEnds
CHECK_DEADLOCK FALSE
