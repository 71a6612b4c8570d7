CONSTANTS
  Task = {t1, t2}
  Idle = idle
  NULL = null
  Event = {}
  configMAX_PRIORITIES = 2
  Include = {"vTaskDelay", "vTaskDelete", "vTaskPrioritySet", "vTaskSuspend", "xTaskResumeFromISR"}
  TickCount = 2
  OverflowCount = 1
  MaxNesting = 0
  MaxMissedTicks = 1
  Facility = {"list"}
  TraceLines = 4
  CounterCount = 2
  PartsOfTotal = 1
  StackDepth = 1
  StackMargin = 1
SPECIFICATION DiagnosticsSpec
SYMMETRY Symmetric
INVARIANTS ReportComplete
PROPERTIES TurnsKept
