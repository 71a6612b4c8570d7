CONSTANTS
  Task = {t1, t2}
  Idle = idle
  NULL = null
  Event = {}
  configMAX_PRIORITIES = 2
  Include = {"vTaskDelay", "vTaskSuspend", "vTaskDelete", "vTaskPrioritySet"}
  TickCount = 2
  OverflowCount = 1
  MaxNesting = 0
  MaxMissedTicks = 1
  HeapSizes = {4, 5, 6}
SPECIFICATION LifeSpec
INVARIANTS HeapBalanced CleanUpComplete SoundAfterSetup FaultsExplained
CHECK_DEADLOCK FALSE
