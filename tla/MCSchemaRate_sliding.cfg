CONSTANTS
  Vmids = {v1}
  Max = 2
  Window = 3
  Horizon = 7
  NoWindow = NoWindow
  MaxCount = 4
SPECIFICATION Spec
INVARIANT SlidingWindow
CHECK_DEADLOCK FALSE
