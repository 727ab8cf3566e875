SPECIFICATION Spec
CONSTANTS
  initial_capacity = 8
  HeaderLens = {1, 2}
  BodyLens = {1, 5, 9}
  ReadReserve = 3
  MaxCapacity = 20
  Capacities <- MCCapacities
INVARIANTS TypeOK HalfRegrown
\* A buffer that has reached MaxCapacity cannot grow: the bound stops the run.
CHECK_DEADLOCK FALSE
