CONSTANTS
  Task = {t1, t2}
  Idle = idle
  NULL = null
  Event = {}
  configMAX_PRIORITIES = 1
  Include = {"vTaskDelete"}
  TickCount = 2
  OverflowCount = 1
  MaxNesting = 0
  MaxMissedTicks = 0
  Facility = {"trace", "stats", "stack"}
  TraceLines = 4
  CounterCount = 2
  PartsOfTotal = 1
  StackDepth = 2
  StackMargin = 2
SPECIFICATION DiagnosticsSpec
SYMMETRY Symmetric
INVARIANTS TraceShowsRunning RunTimeExact ChecksReport
