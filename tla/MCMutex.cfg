CONSTANTS
  low = low
  middle = middle
  high = high
  Task = {low, middle, high}
  Idle = idle
  NULL = null
  Event = {m}
  configMAX_PRIORITIES = 3
  Include = {"vTaskPrioritySet", "vTaskSuspend"}
  TickCount = 3
  OverflowCount = 1
  MaxNesting = 0
  MaxMissedTicks = 0
  StartPriority <- StartPriorities
  MaxChanges = 2
SPECIFICATION MutexSpec
INVARIANTS Placement NoInversion PriorityRestored SettledButLowered
