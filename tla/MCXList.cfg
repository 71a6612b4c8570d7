CONSTANTS
  Item = {a, b, c}
  RoundRobin = {ready}
  Fifo = {}
  Sorted = {delayed}
  portMAX_DELAY = 2
  NULL = null
SPECIFICATION Spec
SYMMETRY Symmetric
INVARIANTS TypeOK RingIntact
PROPERTIES ImplementsListSpec
