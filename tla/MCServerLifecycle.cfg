SPECIFICATION LifecycleFairSpec
CONSTANTS
  Session = {s1, s2}
  MaxTask = 2
INVARIANT ShutdownIsComplete
PROPERTY StopEnds
CHECK_DEADLOCK FALSE
