CONSTANTS
  TickCount = 6
  OverflowCount = 3
  INCLUDE_vTaskSuspend = TRUE
  MaxGap = 13
SPECIFICATION FairSpec
INVARIANTS NeverEarly
PROPERTIES NeverLate WaitEnds
