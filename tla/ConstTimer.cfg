SPECIFICATION FairSpec
CONSTANTS
  Ticks = {0, 4, 8}
  Int64Max = 1000
INVARIANTS ExactDeadline NoSilentLoss
PROPERTIES NoSpuriousTick TickArrives
