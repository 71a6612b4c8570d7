CONSTANTS
  Task = {t1, t2, t3}
  Idle = idle
  NULL = null
  Event = {e}
  configMAX_PRIORITIES = 2
  Include = {"vTaskPrioritySet"}
  TickCount = 2
  OverflowCount = 2
  MaxNesting = 0
  MaxMissedTicks = 0
SPECIFICATION Spec
INVARIANTS EventListsOrdered
