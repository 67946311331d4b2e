SPECIFICATION PushSpec
CONSTANTS
  d1 = d1
  d2 = d2
  d3 = d3
  Dispatchers <- ThreeDispatchers
  Delay = 3
  Attempt = 2
  MaxRest = 4
  Horizon = 9
SYMMETRY DispatcherSymmetry
CHECK_DEADLOCK FALSE
INVARIANTS OneAttempt AckedOnce
