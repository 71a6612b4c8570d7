CONSTANTS
  Task = {t1, t2}
  Idle = idle
  NULL = null
  Event = {}
  configMAX_PRIORITIES = 1
  Include = {}
  TickCount = 2
  OverflowCount = 1
  MaxNesting = 0
  MaxMissedTicks = 0
  Facility = {"trace"}
  TraceLines = 4
  CounterCount = 2
  PartsOfTotal = 1
  StackDepth = 1
  StackMargin = 1
SPECIFICATION DiagnosticsSpec
PROPERTIES SwitchTraced
