CONSTANTS
  TCB = {t1, t2, t3}
  MaxDepth = 2
  MaxSections = 2
  MaxInterrupts = 2
SPECIFICATION Spec
INVARIANTS TypeOK MaskExact
PROPERTIES ImplementsLock
