SPECIFICATION Spec
CONSTANTS
  N = 2
  CounterMod = 256
  BSP = 0
  TimerIrqs = {TRUE}
INVARIANT NoContextPanic
CHECK_DEADLOCK FALSE
