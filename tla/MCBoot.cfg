SPECIFICATION MCSpec
CONSTANTS
  N = 4
  CounterMod = 3
  BSP = 1
  TimerIrqs = {FALSE, TRUE}
  Frequencies = {0, 1, 20, 40, 100}
  Second = 10
  Nanos = 1
  Largest = 60
  LastTime = 12
  DeviceCount = 2
  FunctionCount = 2
  start_bus = 0
  end_bus = 2
  Width = 6
  Count = 3
  Functions <- BarFunctions
  Offsets = {1, 2, 3}
  Sizes = {1, 3}
  Lens = {0, 2}
  CutUpTo = 60
  StackTop = 128
  Depths = {0, 2, 40}
  Generations = 2
INVARIANTS BootInv TimerInv PcieInv MsixInv AcpiInv AmlInv ContextInv
PROPERTY CoresUp
CHECK_DEADLOCK FALSE
