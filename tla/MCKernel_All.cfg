CONSTANTS
  Task = {t1, t2}
  Idle = idle
  NULL = null
  Event = {e}
  configMAX_PRIORITIES = 2
  Include = {"vTaskDelay", "vTaskDelayUntil", "vTaskSuspend", "xTaskResumeFromISR", "vTaskPrioritySet", "vTaskDelete"}
  TickCount = 4
  OverflowCount = 1
  MaxNesting = 2
  MaxMissedTicks = 2
SPECIFICATION Spec
SYMMETRY Symmetric
INVARIANTS TypeOK StoreConsistent Placement EventPlacement SchedulerLock ReadyCache DispatchSettled TaskCounts
INVARIANTS DelayListsOrdered NeverLate TicksNotLost HarnessAccepts NothingHeldBack
PROPERTIES NeverEarly InterruptsKeepOff
