SPECIFICATION TicksSpec
CONSTANTS
  N = 2
  CounterMod = 256
  BSP = 0
  TimerIrqs = {FALSE}
PROPERTY Preempts
CHECK_DEADLOCK FALSE
