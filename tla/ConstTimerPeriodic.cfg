SPECIFICATION Spec
CONSTANTS
  Ticks = {0, 4}
  Int64Max = 1000
INVARIANT PeriodicKeepsRunning
