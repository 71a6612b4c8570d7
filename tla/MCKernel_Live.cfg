CONSTANTS
  Task = {t1, t2}
  Idle = idle
  NULL = null
  Event = {e}
  configMAX_PRIORITIES = 2
  Include = {"vTaskSuspend", "xTaskResumeFromISR"}
  TickCount = 3
  OverflowCount = 2
  MaxNesting = 0
  MaxMissedTicks = 1
SPECIFICATION FairSpec
INVARIANTS EventListsOrdered
PROPERTIES PendingEnds DelayEnds
